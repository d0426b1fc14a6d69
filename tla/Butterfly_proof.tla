--------------------------- MODULE Butterfly_proof ---------------------------
(***************************************************************************)
(* The butterfly networks, for every number of levels, every FIFO depth    *)
(* and every set of items.                                                 *)
(*                                                                         *)
(* A network is looked at as one function from its places (FIFOs and       *)
(* registers) to the items there.  Every step inside of it moves the head  *)
(* of one place to the end of another one (Onward), and so loses and       *)
(* repeats nothing.                                                        *)
(*                                                                         *)
(* The switch keeps its types, delivers each item on the lane of its       *)
(* vertex, and implements the crossbar of Crossbar.tla.  Delivered is not  *)
(* inductive; Routed, which says where an item may be at each level, is    *)
(* the strengthening.  For the refinement, all items of a flow pass the    *)
(* same places: SwitchInv says that what a flow has not received yet is in *)
(* those places, in its order.                                             *)
(*                                                                         *)
(* The work-stealing scheduler neither loses nor repeats a query           *)
(* (StealingIsPool): whatever port a distributor chooses, a query is at    *)
(* one place of the network once.                                          *)
(***************************************************************************)
EXTENDS ButterflySwitch, FiniteSetTheorems, SequenceTheorems, TLAPS

\* Writing one cell of a nested array.
LEMMA Update1 ==
  ASSUME NEW A, NEW S, NEW f \in [A -> S], NEW a \in A, NEW v \in S
  PROVE  /\ [f EXCEPT ![a] = v] \in [A -> S]
         /\ \A x \in A : [f EXCEPT ![a] = v][x] = IF x = a THEN v ELSE f[x]
OBVIOUS

LEMMA Update2 ==
  ASSUME NEW A, NEW B, NEW S, NEW f \in [A -> [B -> S]],
         NEW a \in A, NEW b \in B, NEW v \in S
  PROVE  /\ [f EXCEPT ![a][b] = v] \in [A -> [B -> S]]
         /\ \A x \in A, y \in B :
              [f EXCEPT ![a][b] = v][x][y] = IF x = a /\ y = b THEN v ELSE f[x][y]
OBVIOUS

\* Turning a wire keeps it a wire and decides bit l only.
LEMMA TurnWire ==
  ASSUME NEW l \in Level, NEW w \in Wire, NEW b \in Bit
  PROVE  /\ Turn(w, l, b) \in Wire
         /\ Turn(w, l, b)[l] = b
         /\ \A i \in Level : i # l => Turn(w, l, b)[i] = w[i]
BY DEF Turn, Wire

\* The merger of wire w reads FIFOs whose items go to wire w.
LEMMA TurnBack ==
  ASSUME NEW l \in Level, NEW w \in Wire, NEW c \in Bit
  PROVE  Turn(Turn(w, l, c), l, w[l]) = w
BY DEF Turn, Wire

LEMMA LevelStage == Level \subseteq Stage /\ 1 \in Stage /\ K + 1 \in Stage
                    /\ \A l \in Level : l \in Int /\ l + 1 \in Stage
BY NetAssumption DEF Level, Stage

\* The places of the network: the FIFOs and registers an item passes.
LinkAt(l, w)     == [kind |-> 0, level |-> l, wire |-> w, port |-> 0]
DistAt(l, w)     == [kind |-> 1, level |-> l, wire |-> w, port |-> 0]
InnerAt(l, w, b) == [kind |-> 2, level |-> l, wire |-> w, port |-> b]
MergeAt(l, w)    == [kind |-> 3, level |-> l, wire |-> w, port |-> 0]

Place == {LinkAt(l, w) : l \in Stage, w \in Wire}
         \cup {DistAt(l, w) : l \in Level, w \in Wire}
         \cup {InnerAt(l, w, b) : l \in Level, w \in Wire, b \in Bit}
         \cup {MergeAt(l, w) : l \in Level, w \in Wire}

Register(T) == {<<>>} \cup {<<e>> : e \in T}
HeldOf(S) == [item : S, port : Bit]

\* The types of the network with items of S; a register holds at most one item.
NetShape(S) ==
  /\ link  \in [Stage -> [Wire -> Seq(S)]]
  /\ dist  \in [Level -> [Wire -> Register(HeldOf(S))]]
  /\ inner \in [Level -> [Wire -> [Bit -> Seq(S)]]]
  /\ merge \in [Level -> [Wire -> Register(S)]]

Items(q) == [i \in DOMAIN q |-> q[i].item]

\* P says which items are where.
OfLinks(P) == \A l \in Stage, w \in Wire : P[LinkAt(l, w)] = link[l][w]
OfDist(P)  == \A l \in Level, w \in Wire : P[DistAt(l, w)] = Items(dist[l][w])
OfInner(P) == \A l \in Level, w \in Wire, b \in Bit : P[InnerAt(l, w, b)] = inner[l][w][b]
OfMerge(P) == \A l \in Level, w \in Wire : P[MergeAt(l, w)] = merge[l][w]
IsNet(P) == OfLinks(P) /\ OfDist(P) /\ OfInner(P) /\ OfMerge(P)

\* What a change of one place leaves alone.
SameLinks(P, R) == \A l \in Stage, w \in Wire : R[LinkAt(l, w)] = P[LinkAt(l, w)]
SameDist(P, R)  == \A l \in Level, w \in Wire : R[DistAt(l, w)] = P[DistAt(l, w)]
SameInner(P, R) ==
  \A l \in Level, w \in Wire, b \in Bit : R[InnerAt(l, w, b)] = P[InnerAt(l, w, b)]
SameMerge(P, R) == \A l \in Level, w \in Wire : R[MergeAt(l, w)] = P[MergeAt(l, w)]

Put(P, p, q) == [P EXCEPT ![p] = q]

\* The head of place p goes to the end of place r.
Onward(P, p, r) == Put(Put(P, p, Tail(P[p])), r, Append(P[r], Head(P[p])))

LEMMA PutAt ==
  ASSUME NEW S, NEW P \in [Place -> S], NEW p \in Place, NEW q \in S
  PROVE  /\ Put(P, p, q) \in [Place -> S]
         /\ \A x \in Place : Put(P, p, q)[x] = IF x = p THEN q ELSE P[x]
BY DEF Put

LEMMA PlacesIn ==
  /\ \A l \in Stage, w \in Wire : LinkAt(l, w) \in Place
  /\ \A l \in Level, w \in Wire : DistAt(l, w) \in Place /\ MergeAt(l, w) \in Place
  /\ \A l \in Level, w \in Wire, b \in Bit : InnerAt(l, w, b) \in Place
BY DEF Place

LEMMA KindOf ==
  /\ \A l, w : LinkAt(l, w).kind = 0 /\ DistAt(l, w).kind = 1 /\ MergeAt(l, w).kind = 3
  /\ \A l, w, b : InnerAt(l, w, b).kind = 2
BY DEF LinkAt, DistAt, InnerAt, MergeAt

\* Places of different kinds, or with different coordinates, are different.
LEMMA Kinds ==
  /\ \A l \in Stage, w \in Wire : LinkAt(l, w) \in Place /\ LinkAt(l, w).kind = 0
  /\ \A l \in Level, w \in Wire : DistAt(l, w) \in Place /\ DistAt(l, w).kind = 1
  /\ \A l \in Level, w \in Wire, b \in Bit :
       InnerAt(l, w, b) \in Place /\ InnerAt(l, w, b).kind = 2
  /\ \A l \in Level, w \in Wire : MergeAt(l, w) \in Place /\ MergeAt(l, w).kind = 3
BY PlacesIn, KindOf

LEMMA PlacesApart ==
  /\ \A l, w, m, u : LinkAt(l, w) = LinkAt(m, u) <=> l = m /\ w = u
  /\ \A l, w, m, u : DistAt(l, w) = DistAt(m, u) <=> l = m /\ w = u
  /\ \A l, w, m, u : MergeAt(l, w) = MergeAt(m, u) <=> l = m /\ w = u
  /\ \A l, w, b, m, u, c :
       InnerAt(l, w, b) = InnerAt(m, u, c) <=> l = m /\ w = u /\ b = c
BY DEF LinkAt, DistAt, InnerAt, MergeAt

LEMMA LinkPut ==
  ASSUME NEW S, NEW P \in [Place -> Seq(S)], NEW l \in Stage, NEW w \in Wire,
         NEW q \in Seq(S), NEW R, R = Put(P, LinkAt(l, w), q)
  PROVE  /\ R \in [Place -> Seq(S)]
         /\ SameDist(P, R) /\ SameInner(P, R) /\ SameMerge(P, R)
         /\ /\ link \in [Stage -> [Wire -> Seq(S)]]
            /\ OfLinks(P) /\ link' = [link EXCEPT ![l][w] = q]
            => link' \in [Stage -> [Wire -> Seq(S)]] /\ OfLinks(R)'
<1>1. LinkAt(l, w) \in Place
  BY PlacesIn
<1>2. /\ R \in [Place -> Seq(S)]
      /\ \A x \in Place : R[x] = IF x = LinkAt(l, w) THEN q ELSE P[x]
  BY <1>1 DEF Put
<1>k. \A x \in Place : x.kind # 0 => R[x] = P[x]
  BY <1>2, Kinds
<1>3. SameDist(P, R) /\ SameInner(P, R) /\ SameMerge(P, R)
  <2>1. SameDist(P, R)
    <3> SUFFICES ASSUME NEW m \in Level, NEW u \in Wire
                 PROVE  R[DistAt(m, u)] = P[DistAt(m, u)]
      BY DEF SameDist
    <3>1. DistAt(m, u) \in Place /\ DistAt(m, u).kind = 1
      BY Kinds
    <3> QED
      BY <3>1, <1>k
  <2>2. SameInner(P, R)
    <3> SUFFICES ASSUME NEW m \in Level, NEW u \in Wire, NEW c \in Bit
                 PROVE  R[InnerAt(m, u, c)] = P[InnerAt(m, u, c)]
      BY DEF SameInner
    <3>1. InnerAt(m, u, c) \in Place /\ InnerAt(m, u, c).kind = 2
      BY Kinds
    <3> QED
      BY <3>1, <1>k
  <2>3. SameMerge(P, R)
    <3> SUFFICES ASSUME NEW m \in Level, NEW u \in Wire
                 PROVE  R[MergeAt(m, u)] = P[MergeAt(m, u)]
      BY DEF SameMerge
    <3>1. MergeAt(m, u) \in Place /\ MergeAt(m, u).kind = 3
      BY Kinds
    <3> QED
      BY <3>1, <1>k
  <2> QED
    BY <2>1, <2>2, <2>3
<1>4. ASSUME /\ link \in [Stage -> [Wire -> Seq(S)]]
             /\ OfLinks(P) /\ link' = [link EXCEPT ![l][w] = q]
      PROVE  link' \in [Stage -> [Wire -> Seq(S)]] /\ OfLinks(R)'
  <2>1. \A m \in Stage, u \in Wire :
          R[LinkAt(m, u)] = IF m = l /\ u = w THEN q ELSE P[LinkAt(m, u)]
    BY <1>2, PlacesIn, PlacesApart
  <2>2. /\ link' \in [Stage -> [Wire -> Seq(S)]]
        /\ \A m \in Stage, u \in Wire :
             link'[m][u] = IF m = l /\ u = w THEN q ELSE link[m][u]
    BY <1>4, Update2
  <2>3. ASSUME NEW m \in Stage, NEW u \in Wire
        PROVE  R[LinkAt(m, u)] = link'[m][u]
    <3>1. CASE m = l /\ u = w
      BY <2>1, <2>2, <3>1
    <3>2. CASE ~(m = l /\ u = w)
      BY <1>4, <2>1, <2>2, <3>2 DEF OfLinks
    <3> QED
      BY <3>1, <3>2
  <2> QED
    BY <2>2, <2>3 DEF OfLinks
<1> QED
  BY <1>2, <1>3, <1>4

LEMMA DistPut ==
  ASSUME NEW S, NEW P \in [Place -> Seq(S)], NEW l \in Level, NEW w \in Wire,
         NEW q \in Seq(S), NEW z \in Register(HeldOf(S)), Items(z) = q,
         NEW R, R = Put(P, DistAt(l, w), q)
  PROVE  /\ R \in [Place -> Seq(S)]
         /\ SameLinks(P, R) /\ SameInner(P, R) /\ SameMerge(P, R)
         /\ /\ dist \in [Level -> [Wire -> Register(HeldOf(S))]]
            /\ OfDist(P) /\ dist' = [dist EXCEPT ![l][w] = z]
            => dist' \in [Level -> [Wire -> Register(HeldOf(S))]] /\ OfDist(R)'
<1>1. DistAt(l, w) \in Place
  BY PlacesIn
<1>2. /\ R \in [Place -> Seq(S)]
      /\ \A x \in Place : R[x] = IF x = DistAt(l, w) THEN q ELSE P[x]
  BY <1>1 DEF Put
<1>k. \A x \in Place : x.kind # 1 => R[x] = P[x]
  BY <1>2, Kinds
<1>3. SameLinks(P, R) /\ SameInner(P, R) /\ SameMerge(P, R)
  <2>1. SameLinks(P, R)
    <3> SUFFICES ASSUME NEW m \in Stage, NEW u \in Wire
                 PROVE  R[LinkAt(m, u)] = P[LinkAt(m, u)]
      BY DEF SameLinks
    <3>1. LinkAt(m, u) \in Place /\ LinkAt(m, u).kind = 0
      BY Kinds
    <3> QED
      BY <3>1, <1>k
  <2>2. SameInner(P, R)
    <3> SUFFICES ASSUME NEW m \in Level, NEW u \in Wire, NEW c \in Bit
                 PROVE  R[InnerAt(m, u, c)] = P[InnerAt(m, u, c)]
      BY DEF SameInner
    <3>1. InnerAt(m, u, c) \in Place /\ InnerAt(m, u, c).kind = 2
      BY Kinds
    <3> QED
      BY <3>1, <1>k
  <2>3. SameMerge(P, R)
    <3> SUFFICES ASSUME NEW m \in Level, NEW u \in Wire
                 PROVE  R[MergeAt(m, u)] = P[MergeAt(m, u)]
      BY DEF SameMerge
    <3>1. MergeAt(m, u) \in Place /\ MergeAt(m, u).kind = 3
      BY Kinds
    <3> QED
      BY <3>1, <1>k
  <2> QED
    BY <2>1, <2>2, <2>3
<1>4. ASSUME /\ dist \in [Level -> [Wire -> Register(HeldOf(S))]]
             /\ OfDist(P) /\ dist' = [dist EXCEPT ![l][w] = z]
      PROVE  dist' \in [Level -> [Wire -> Register(HeldOf(S))]] /\ OfDist(R)'
  <2>1. \A m \in Level, u \in Wire :
          R[DistAt(m, u)] = IF m = l /\ u = w THEN q ELSE P[DistAt(m, u)]
    BY <1>2, PlacesIn, PlacesApart
  <2>2. /\ dist' \in [Level -> [Wire -> Register(HeldOf(S))]]
        /\ \A m \in Level, u \in Wire :
             dist'[m][u] = IF m = l /\ u = w THEN z ELSE dist[m][u]
    BY <1>4, Update2
  <2>3. ASSUME NEW m \in Level, NEW u \in Wire
        PROVE  R[DistAt(m, u)] = Items(dist'[m][u])
    <3>1. CASE m = l /\ u = w
      BY <2>1, <2>2, <3>1
    <3>2. CASE ~(m = l /\ u = w)
      BY <1>4, <2>1, <2>2, <3>2 DEF OfDist
    <3> QED
      BY <3>1, <3>2
  <2> QED
    BY <2>2, <2>3 DEF OfDist
<1> QED
  BY <1>2, <1>3, <1>4

LEMMA InnerPut ==
  ASSUME NEW S, NEW P \in [Place -> Seq(S)], NEW l \in Level, NEW w \in Wire, NEW b \in Bit,
         NEW q \in Seq(S), NEW R, R = Put(P, InnerAt(l, w, b), q)
  PROVE  /\ R \in [Place -> Seq(S)]
         /\ SameLinks(P, R) /\ SameDist(P, R) /\ SameMerge(P, R)
         /\ /\ inner \in [Level -> [Wire -> [Bit -> Seq(S)]]]
            /\ OfInner(P) /\ inner' = [inner EXCEPT ![l][w][b] = q]
            => inner' \in [Level -> [Wire -> [Bit -> Seq(S)]]] /\ OfInner(R)'
<1>1. InnerAt(l, w, b) \in Place
  BY PlacesIn
<1>2. /\ R \in [Place -> Seq(S)]
      /\ \A x \in Place : R[x] = IF x = InnerAt(l, w, b) THEN q ELSE P[x]
  BY <1>1 DEF Put
<1>k. \A x \in Place : x.kind # 2 => R[x] = P[x]
  BY <1>2, Kinds
<1>3. SameLinks(P, R) /\ SameDist(P, R) /\ SameMerge(P, R)
  <2>1. SameLinks(P, R)
    <3> SUFFICES ASSUME NEW m \in Stage, NEW u \in Wire
                 PROVE  R[LinkAt(m, u)] = P[LinkAt(m, u)]
      BY DEF SameLinks
    <3>1. LinkAt(m, u) \in Place /\ LinkAt(m, u).kind = 0
      BY Kinds
    <3> QED
      BY <3>1, <1>k
  <2>2. SameDist(P, R)
    <3> SUFFICES ASSUME NEW m \in Level, NEW u \in Wire
                 PROVE  R[DistAt(m, u)] = P[DistAt(m, u)]
      BY DEF SameDist
    <3>1. DistAt(m, u) \in Place /\ DistAt(m, u).kind = 1
      BY Kinds
    <3> QED
      BY <3>1, <1>k
  <2>3. SameMerge(P, R)
    <3> SUFFICES ASSUME NEW m \in Level, NEW u \in Wire
                 PROVE  R[MergeAt(m, u)] = P[MergeAt(m, u)]
      BY DEF SameMerge
    <3>1. MergeAt(m, u) \in Place /\ MergeAt(m, u).kind = 3
      BY Kinds
    <3> QED
      BY <3>1, <1>k
  <2> QED
    BY <2>1, <2>2, <2>3
<1>4. ASSUME /\ inner \in [Level -> [Wire -> [Bit -> Seq(S)]]]
             /\ OfInner(P) /\ inner' = [inner EXCEPT ![l][w][b] = q]
      PROVE  inner' \in [Level -> [Wire -> [Bit -> Seq(S)]]] /\ OfInner(R)'
  <2>1. \A m \in Level, u \in Wire, c \in Bit :
          R[InnerAt(m, u, c)] = IF m = l /\ u = w /\ c = b THEN q ELSE P[InnerAt(m, u, c)]
    <3>1. \A m \in Level, u \in Wire, c \in Bit :
            R[InnerAt(m, u, c)] =
              IF InnerAt(m, u, c) = InnerAt(l, w, b) THEN q ELSE P[InnerAt(m, u, c)]
      BY <1>2, PlacesIn
    <3> QED
      BY <3>1, PlacesApart
  <2>2. /\ inner' \in [Level -> [Wire -> [Bit -> Seq(S)]]]
        /\ \A m \in Level, u \in Wire, c \in Bit :
             inner'[m][u][c] = IF m = l /\ u = w /\ c = b THEN q ELSE inner[m][u][c]
    <3> DEFINE f == [inner EXCEPT ![l][w][b] = q]
    <3>1. /\ f \in [Level -> [Wire -> [Bit -> Seq(S)]]]
          /\ \A m \in Level, u \in Wire, c \in Bit :
               f[m][u][c] = IF m = l /\ u = w /\ c = b THEN q ELSE inner[m][u][c]
      BY <1>4
    <3>2. inner' = f
      BY <1>4
    <3> QED
      BY <3>1, <3>2
  <2>3. ASSUME NEW m \in Level, NEW u \in Wire, NEW c \in Bit
        PROVE  R[InnerAt(m, u, c)] = inner'[m][u][c]
    <3>1. CASE m = l /\ u = w /\ c = b
      BY <2>1, <2>2, <3>1
    <3>2. CASE ~(m = l /\ u = w /\ c = b)
      BY <1>4, <2>1, <2>2, <3>2 DEF OfInner
    <3> QED
      BY <3>1, <3>2
  <2> QED
    BY <2>2, <2>3 DEF OfInner
<1> QED
  BY <1>2, <1>3, <1>4

LEMMA MergePut ==
  ASSUME NEW S, NEW P \in [Place -> Seq(S)], NEW l \in Level, NEW w \in Wire,
         NEW q \in Seq(S), q \in Register(S), NEW R, R = Put(P, MergeAt(l, w), q)
  PROVE  /\ R \in [Place -> Seq(S)]
         /\ SameLinks(P, R) /\ SameDist(P, R) /\ SameInner(P, R)
         /\ /\ merge \in [Level -> [Wire -> Register(S)]]
            /\ OfMerge(P) /\ merge' = [merge EXCEPT ![l][w] = q]
            => merge' \in [Level -> [Wire -> Register(S)]] /\ OfMerge(R)'
<1>1. MergeAt(l, w) \in Place
  BY PlacesIn
<1>2. /\ R \in [Place -> Seq(S)]
      /\ \A x \in Place : R[x] = IF x = MergeAt(l, w) THEN q ELSE P[x]
  BY <1>1 DEF Put
<1>k. \A x \in Place : x.kind # 3 => R[x] = P[x]
  BY <1>2, Kinds
<1>3. SameLinks(P, R) /\ SameDist(P, R) /\ SameInner(P, R)
  <2>1. SameLinks(P, R)
    <3> SUFFICES ASSUME NEW m \in Stage, NEW u \in Wire
                 PROVE  R[LinkAt(m, u)] = P[LinkAt(m, u)]
      BY DEF SameLinks
    <3>1. LinkAt(m, u) \in Place /\ LinkAt(m, u).kind = 0
      BY Kinds
    <3> QED
      BY <3>1, <1>k
  <2>2. SameDist(P, R)
    <3> SUFFICES ASSUME NEW m \in Level, NEW u \in Wire
                 PROVE  R[DistAt(m, u)] = P[DistAt(m, u)]
      BY DEF SameDist
    <3>1. DistAt(m, u) \in Place /\ DistAt(m, u).kind = 1
      BY Kinds
    <3> QED
      BY <3>1, <1>k
  <2>3. SameInner(P, R)
    <3> SUFFICES ASSUME NEW m \in Level, NEW u \in Wire, NEW c \in Bit
                 PROVE  R[InnerAt(m, u, c)] = P[InnerAt(m, u, c)]
      BY DEF SameInner
    <3>1. InnerAt(m, u, c) \in Place /\ InnerAt(m, u, c).kind = 2
      BY Kinds
    <3> QED
      BY <3>1, <1>k
  <2> QED
    BY <2>1, <2>2, <2>3
<1>4. ASSUME /\ merge \in [Level -> [Wire -> Register(S)]]
             /\ OfMerge(P) /\ merge' = [merge EXCEPT ![l][w] = q]
      PROVE  merge' \in [Level -> [Wire -> Register(S)]] /\ OfMerge(R)'
  <2>1. \A m \in Level, u \in Wire :
          R[MergeAt(m, u)] = IF m = l /\ u = w THEN q ELSE P[MergeAt(m, u)]
    BY <1>2, PlacesIn, PlacesApart
  <2>2. /\ merge' \in [Level -> [Wire -> Register(S)]]
        /\ \A m \in Level, u \in Wire :
             merge'[m][u] = IF m = l /\ u = w THEN q ELSE merge[m][u]
    BY <1>4, Update2
  <2>3. ASSUME NEW m \in Level, NEW u \in Wire
        PROVE  R[MergeAt(m, u)] = merge'[m][u]
    <3>1. CASE m = l /\ u = w
      BY <2>1, <2>2, <3>1
    <3>2. CASE ~(m = l /\ u = w)
      BY <1>4, <2>1, <2>2, <3>2 DEF OfMerge
    <3> QED
      BY <3>1, <3>2
  <2> QED
    BY <2>2, <2>3 DEF OfMerge
<1> QED
  BY <1>2, <1>3, <1>4

LEMMA ReadSeq ==
  ASSUME NEW S, NEW q \in Seq(S), q # <<>>
  PROVE  Head(q) \in S /\ Tail(q) \in Seq(S)
OBVIOUS

LEMMA OneItem ==
  /\ Items(<<>>) = <<>>
  /\ \A e : /\ Items(<<e>>) = <<e.item>>
            /\ Head(<<e>>) = e /\ Tail(<<e>>) = <<>> /\ <<e>> # <<>>
            /\ Append(<<>>, e) = <<e>>
<1>1. Items(<<>>) = <<>>
  BY DEF Items
<1>2. ASSUME NEW e PROVE Items(<<e>>) = <<e.item>>
  <2>1. DOMAIN <<e>> = 1..1 /\ <<e>>[1] = e
    OBVIOUS
  <2>2. Items(<<e>>) = [i \in 1..1 |-> e.item]
    BY <2>1 DEF Items
  <2> QED
    BY <2>2
<1> QED
  BY <1>1, <1>2

\* A part of the network that keeps its variable and its places keeps its part of IsNet.
LEMMA PartKept ==
  ASSUME NEW P, NEW R
  PROVE  /\ OfLinks(P) /\ UNCHANGED link  /\ SameLinks(P, R) => OfLinks(R)'
         /\ OfDist(P)  /\ UNCHANGED dist  /\ SameDist(P, R)  => OfDist(R)'
         /\ OfInner(P) /\ UNCHANGED inner /\ SameInner(P, R) => OfInner(R)'
         /\ OfMerge(P) /\ UNCHANGED merge /\ SameMerge(P, R) => OfMerge(R)'
         /\ OfLinks(P)' /\ SameLinks(P, R) => OfLinks(R)'
         /\ OfDist(P)'  /\ SameDist(P, R)  => OfDist(R)'
         /\ OfInner(P)' /\ SameInner(P, R) => OfInner(R)'
         /\ OfMerge(P)' /\ SameMerge(P, R) => OfMerge(R)'
         /\ OfLinks(P) /\ SameLinks(P, R) => OfLinks(R)
         /\ OfDist(P)  /\ SameDist(P, R)  => OfDist(R)
         /\ OfInner(P) /\ SameInner(P, R) => OfInner(R)
         /\ OfMerge(P) /\ SameMerge(P, R) => OfMerge(R)
BY DEF OfLinks, OfDist, OfInner, OfMerge, SameLinks, SameDist, SameInner, SameMerge

LEMMA WriteLinkMoves ==
  ASSUME NEW S, NetShape(S), NEW P \in [Place -> Seq(S)], IsNet(P),
         NEW w \in Wire, NEW x \in S, WriteLink(w, x),
         NEW R, R = Put(P, LinkAt(1, w), Append(P[LinkAt(1, w)], x))
  PROVE  NetShape(S)' /\ IsNet(R)' /\ R \in [Place -> Seq(S)]
<1> DEFINE q == Append(link[1][w], x)
<1>1. q \in Seq(S) /\ P[LinkAt(1, w)] = link[1][w]
  BY LevelStage DEF IsNet, OfLinks, NetShape
<1>2. link' = [link EXCEPT ![1][w] = q] /\ UNCHANGED <<dist, inner, merge>>
  BY LevelStage DEF WriteLink, NetShape
<1> HIDE DEF q
<1>3. R = Put(P, LinkAt(1, w), q)
  BY <1>1 DEF q
<1>4. /\ R \in [Place -> Seq(S)] /\ SameDist(P, R) /\ SameInner(P, R) /\ SameMerge(P, R)
      /\ link' \in [Stage -> [Wire -> Seq(S)]] /\ OfLinks(R)'
  BY <1>1, <1>2, <1>3, LevelStage, LinkPut DEF NetShape, IsNet
<1> QED
  BY <1>2, <1>4, PartKept DEF NetShape, IsNet

LEMMA ReadLinkMoves ==
  ASSUME NEW S, NetShape(S), NEW P \in [Place -> Seq(S)], IsNet(P),
         NEW w \in Wire, ReadLink(w), NEW p, p = LinkAt(K + 1, w),
         NEW R, R = Put(P, p, Tail(P[p]))
  PROVE  /\ NetShape(S)' /\ IsNet(R)' /\ R \in [Place -> Seq(S)]
         /\ p \in Place /\ P[p] # <<>> /\ P[p] = link[K + 1][w]
<1> DEFINE q == Tail(link[K + 1][w])
<1>1. /\ q \in Seq(S) /\ link[K + 1][w] # <<>> /\ P[p] = link[K + 1][w] /\ p \in Place
  BY ReadSeq, LevelStage, PlacesIn DEF IsNet, OfLinks, NetShape, ReadLink, Empty
<1>2. link' = [link EXCEPT ![K + 1][w] = q] /\ UNCHANGED <<dist, inner, merge>>
  BY LevelStage DEF ReadLink, NetShape
<1> HIDE DEF q
<1>3. R = Put(P, LinkAt(K + 1, w), q)
  BY <1>1 DEF q
<1>4. /\ R \in [Place -> Seq(S)] /\ SameDist(P, R) /\ SameInner(P, R) /\ SameMerge(P, R)
      /\ link' \in [Stage -> [Wire -> Seq(S)]] /\ OfLinks(R)'
  BY <1>1, <1>2, <1>3, LevelStage, LinkPut DEF NetShape, IsNet
<1> QED
  BY <1>1, <1>2, <1>4, PartKept DEF NetShape, IsNet

LEMMA DistributeToMoves ==
  ASSUME NEW S, NetShape(S), NEW P \in [Place -> Seq(S)], IsNet(P),
         NEW l \in Level, NEW w \in Wire, NEW b \in Bit, DistributeTo(l, w, b),
         NEW p, p = LinkAt(l, w), NEW r, r = DistAt(l, w), NEW R, R = Onward(P, p, r)
  PROVE  /\ NetShape(S)' /\ IsNet(R)'
         /\ p \in Place /\ r \in Place /\ p # r /\ P[p] # <<>> /\ P[p] = link[l][w]
<1> DEFINE x == Head(link[l][w])
           q == Tail(link[l][w])
           h == [item |-> x, port |-> b]
<1>0. l \in Stage /\ p \in Place /\ r \in Place /\ p # r
  <2>1. p \in Place /\ p.kind = 0
    BY LevelStage, Kinds
  <2>2. r \in Place /\ r.kind = 1
    BY Kinds
  <2> QED
    BY <2>1, <2>2, LevelStage
<1>1. /\ x \in S /\ q \in Seq(S) /\ link[l][w] # <<>> /\ P[p] = link[l][w]
      /\ P[r] = <<>> /\ dist[l][w] = <<>>
  BY <1>0, ReadSeq, OneItem DEF IsNet, OfLinks, OfDist, NetShape, DistributeTo, Empty
<1>2. /\ link' = [link EXCEPT ![l][w] = q] /\ UNCHANGED <<inner, merge>>
      /\ dist' = [dist EXCEPT ![l][w] = <<h>>]
  BY <1>0 DEF DistributeTo, NetShape
<1>3. h \in HeldOf(S) /\ <<h>> \in Register(HeldOf(S)) /\ Items(<<h>>) = <<x>>
  BY <1>1, OneItem DEF HeldOf, Register
<1>4. <<x>> \in Seq(S)
  BY <1>1
<1>q. PICK Q : Q = Put(P, p, q)
  OBVIOUS
<1>5. Q[r] = P[r] /\ R = Put(Q, r, <<x>>)
  BY <1>0, <1>1, <1>q, OneItem DEF Onward, Put
<1> HIDE DEF x, q, h
<1>6. /\ Q \in [Place -> Seq(S)] /\ SameDist(P, Q) /\ SameInner(P, Q) /\ SameMerge(P, Q)
      /\ link' \in [Stage -> [Wire -> Seq(S)]] /\ OfLinks(Q)'
  <2>1. Q = Put(P, LinkAt(l, w), q)
    BY <1>q
  <2>2. link \in [Stage -> [Wire -> Seq(S)]] /\ OfLinks(P)
    BY DEF NetShape, IsNet
  <2>3. l \in Stage /\ q \in Seq(S) /\ link' = [link EXCEPT ![l][w] = q]
    BY <1>0, <1>1, <1>2
  <2> QED
    BY <2>1, <2>2, <2>3, LinkPut
<1>7. /\ SameLinks(Q, R) /\ SameInner(Q, R) /\ SameMerge(Q, R)
      /\ dist' \in [Level -> [Wire -> Register(HeldOf(S))]] /\ OfDist(R)'
  <2>1. OfDist(Q)
    BY <1>6, PartKept DEF IsNet
  <2>2. R = Put(Q, DistAt(l, w), <<x>>)
    BY <1>5
  <2>3. dist \in [Level -> [Wire -> Register(HeldOf(S))]] /\ Q \in [Place -> Seq(S)]
    BY <1>6 DEF NetShape
  <2> DEFINE y == <<x>>
             z == <<h>>
  <2>4. y \in Seq(S) /\ z \in Register(HeldOf(S)) /\ Items(z) = y
    BY <1>3, <1>4
  <2>5. dist' = [dist EXCEPT ![l][w] = z] /\ R = Put(Q, DistAt(l, w), y)
    BY <1>2, <2>2
  <2> HIDE DEF y, z
  <2> QED
    BY <2>1, <2>3, <2>4, <2>5, DistPut
<1>8. IsNet(R)'
  <2>1. OfLinks(R)' /\ OfDist(R)'
    BY <1>6, <1>7, PartKept
  <2>2. OfInner(Q)' /\ OfMerge(Q)'
    BY <1>2, <1>6, PartKept DEF IsNet
  <2>3. OfInner(R)' /\ OfMerge(R)'
    BY <1>7, <2>2, PartKept
  <2> QED
    BY <2>1, <2>3 DEF IsNet
<1>9. NetShape(S)'
  BY <1>2, <1>6, <1>7 DEF NetShape
<1> QED
  BY <1>0, <1>1, <1>8, <1>9

LEMMA DistributeWriteMoves ==
  ASSUME NEW S, NetShape(S), NEW P \in [Place -> Seq(S)], IsNet(P),
         NEW l \in Level, NEW w \in Wire, DistributeWrite(l, w),
         NEW p, p = DistAt(l, w)
  PROVE  \E h \in HeldOf(S), r \in Place : \E R :
           /\ dist[l][w] = <<h>> /\ r = InnerAt(l, w, h.port) /\ R = Onward(P, p, r)
           /\ NetShape(S)' /\ IsNet(R)'
           /\ p \in Place /\ p # r /\ P[p] # <<>> /\ P[p] = <<h.item>>
<1>1. PICK h \in HeldOf(S) : dist[l][w] = <<h>>
  BY DEF NetShape, Register, DistributeWrite, Empty
<1>2. h.item \in S /\ h.port \in Bit /\ Head(dist[l][w]) = h
  BY <1>1, OneItem DEF HeldOf
<1>r. PICK r : r = InnerAt(l, w, h.port)
  OBVIOUS
<1>3. p \in Place /\ r \in Place /\ p # r
  <2>1. p \in Place /\ p.kind = 1
    BY Kinds
  <2>2. r \in Place /\ r.kind = 2
    BY <1>2, <1>r, Kinds
  <2> QED
    BY <2>1, <2>2
<1>4. P[p] = <<h.item>> /\ P[r] = inner[l][w][h.port] /\ P[r] \in Seq(S)
  BY <1>1, <1>2, <1>3, <1>r, OneItem DEF IsNet, OfDist, OfInner
<1>5. /\ dist' = [dist EXCEPT ![l][w] = <<>>] /\ UNCHANGED <<link, merge>>
      /\ inner' = [inner EXCEPT ![l][w][h.port] = Append(@, h.item)]
  BY <1>2 DEF DistributeWrite
<1>q. PICK q : q = Append(P[r], h.item)
  OBVIOUS
<1>6. q \in Seq(S) /\ inner' = [inner EXCEPT ![l][w][h.port] = q]
  <2>1. inner[l][w][h.port] = P[r] /\ inner \in [Level -> [Wire -> [Bit -> Seq(S)]]]
    BY <1>4 DEF NetShape
  <2>2. q \in Seq(S)
    BY <1>2, <1>4, <1>q
  <2> QED
    BY <1>2, <1>5, <1>q, <2>1, <2>2
<1>Q. PICK Q : Q = Put(P, p, <<>>)
  OBVIOUS
<1>R. PICK R : R = Put(Q, r, q)
  OBVIOUS
<1>7. R = Onward(P, p, r)
  <2>1. Q[r] = P[r]
    BY <1>3, <1>Q DEF Put
  <2> QED
    BY <1>4, <1>q, <1>Q, <1>R, <2>1, OneItem DEF Onward, Put
<1>8. /\ Q \in [Place -> Seq(S)] /\ SameLinks(P, Q) /\ SameInner(P, Q) /\ SameMerge(P, Q)
      /\ dist' \in [Level -> [Wire -> Register(HeldOf(S))]] /\ OfDist(Q)'
  <2>1. dist \in [Level -> [Wire -> Register(HeldOf(S))]] /\ OfDist(P)
    BY DEF NetShape, IsNet
  <2> DEFINE y == <<>>
  <2>2. /\ y \in Seq(S) /\ y \in Register(HeldOf(S)) /\ Items(y) = y
        /\ Q = Put(P, DistAt(l, w), y) /\ dist' = [dist EXCEPT ![l][w] = y]
    BY <1>5, <1>Q, OneItem DEF Register
  <2> HIDE DEF y
  <2> QED
    BY <2>1, <2>2, DistPut
<1>9. /\ SameLinks(Q, R) /\ SameDist(Q, R) /\ SameMerge(Q, R)
      /\ inner' \in [Level -> [Wire -> [Bit -> Seq(S)]]] /\ OfInner(R)'
  <2>1. OfInner(Q) /\ R = Put(Q, InnerAt(l, w, h.port), q)
    BY <1>8, <1>r, <1>R, PartKept DEF IsNet
  <2>2. inner \in [Level -> [Wire -> [Bit -> Seq(S)]]]
    BY DEF NetShape
  <2> QED
    BY <1>2, <1>6, <1>8, <2>1, <2>2, InnerPut
<1>10. IsNet(R)'
  <2>1. OfInner(R)' /\ OfDist(R)'
    BY <1>8, <1>9, PartKept
  <2>2. OfLinks(Q)' /\ OfMerge(Q)'
    BY <1>5, <1>8, PartKept DEF IsNet
  <2>3. OfLinks(R)' /\ OfMerge(R)'
    BY <1>9, <2>2, PartKept
  <2> QED
    BY <2>1, <2>3 DEF IsNet
<1>11. NetShape(S)' /\ P[p] # <<>>
  BY <1>4, <1>5, <1>8, <1>9, OneItem DEF NetShape
<1> QED
  BY <1>1, <1>3, <1>4, <1>7, <1>10, <1>11, <1>r

LEMMA MergePackageMoves ==
  ASSUME NEW S, NetShape(S), NEW P \in [Place -> Seq(S)], IsNet(P),
         NEW l \in Level, NEW w \in Wire, merge_package(l, w),
         NEW r, r = MergeAt(l, w)
  PROVE  \E c \in Bit, p \in Place : \E R :
           /\ p = InnerAt(l, Turn(w, l, c), w[l]) /\ R = Onward(P, p, r)
           /\ NetShape(S)' /\ IsNet(R)'
           /\ r \in Place /\ p # r /\ P[p] # <<>>
<1>c. PICK c \in Bit :
        /\ Serves(l, w, c)
        /\ merge' = [merge EXCEPT ![l][w] = <<Head(MergeInput(l, w, c))>>]
        /\ inner' = [inner EXCEPT ![l][Turn(w, l, c)][w[l]] = Tail(@)]
  BY DEF merge_package
<1>u. PICK u : u = Turn(w, l, c)
  OBVIOUS
<1>b. PICK b : b = w[l]
  OBVIOUS
<1>1. u \in Wire /\ b \in Bit
  BY <1>u, <1>b, TurnWire DEF Wire
<1>p. PICK p : p = InnerAt(l, u, b)
  OBVIOUS
<1>3. p \in Place /\ r \in Place /\ p # r
  <2>1. p \in Place /\ p.kind = 2
    BY <1>1, <1>p, Kinds
  <2>2. r \in Place /\ r.kind = 3
    BY Kinds
  <2> QED
    BY <2>1, <2>2
<1>4. /\ P[p] = inner[l][u][b] /\ P[p] \in Seq(S) /\ P[p] # <<>>
      /\ MergeInput(l, w, c) = P[p]
  <2>1. P[p] = inner[l][u][b]
    BY <1>1, <1>p DEF IsNet, OfInner
  <2> QED
    BY <1>3, <1>c, <1>u, <1>b, <2>1 DEF Serves, Empty, MergeInput
<1>x. PICK x : x = Head(P[p])
  OBVIOUS
<1>q. PICK q : q = Tail(P[p])
  OBVIOUS
<1>2. x \in S /\ q \in Seq(S)
  BY <1>4, <1>x, <1>q, ReadSeq
<1>5. /\ merge' = [merge EXCEPT ![l][w] = <<x>>] /\ UNCHANGED <<link, dist>>
      /\ merge[l][w] = <<>>
  BY <1>4, <1>c, <1>x DEF merge_package, Empty
<1>6. inner' = [inner EXCEPT ![l][u][b] = q]
  <2>1. inner' = [inner EXCEPT ![l][u][b] = Tail(@)]
    BY <1>c, <1>u, <1>b
  <2>2. inner[l][u][b] = P[p] /\ inner \in [Level -> [Wire -> [Bit -> Seq(S)]]]
    BY <1>4 DEF NetShape
  <2> QED
    BY <1>1, <1>q, <2>1, <2>2
<1>Q. PICK Q : Q = Put(P, p, q)
  OBVIOUS
<1>R. PICK R : R = Put(Q, r, <<x>>)
  OBVIOUS
<1>7. R = Onward(P, p, r)
  <2>1. Q[r] = <<>> /\ P[r] = <<>>
    BY <1>3, <1>5, <1>Q DEF Put, IsNet, OfMerge
  <2> QED
    BY <1>x, <1>q, <1>Q, <1>R, <2>1, OneItem DEF Onward, Put
<1>8. /\ Q \in [Place -> Seq(S)] /\ SameLinks(P, Q) /\ SameDist(P, Q) /\ SameMerge(P, Q)
      /\ inner' \in [Level -> [Wire -> [Bit -> Seq(S)]]] /\ OfInner(Q)'
  <2>1. inner \in [Level -> [Wire -> [Bit -> Seq(S)]]] /\ OfInner(P)
    BY DEF NetShape, IsNet
  <2>2. Q = Put(P, InnerAt(l, u, b), q)
    BY <1>p, <1>Q
  <2> QED
    BY <1>1, <1>2, <1>6, <2>1, <2>2, InnerPut
<1>9. /\ SameLinks(Q, R) /\ SameDist(Q, R) /\ SameInner(Q, R)
      /\ merge' \in [Level -> [Wire -> Register(S)]] /\ OfMerge(R)'
  <2>1. OfMerge(Q)
    BY <1>8, PartKept DEF IsNet
  <2>2. merge \in [Level -> [Wire -> Register(S)]]
    BY DEF NetShape
  <2> DEFINE y == <<x>>
  <2>3. /\ y \in Seq(S) /\ y \in Register(S) /\ R = Put(Q, MergeAt(l, w), y)
        /\ merge' = [merge EXCEPT ![l][w] = y]
    BY <1>2, <1>5, <1>R DEF Register
  <2> HIDE DEF y
  <2> QED
    BY <1>8, <2>1, <2>2, <2>3, MergePut
<1>10. IsNet(R)'
  <2>1. OfMerge(R)' /\ OfInner(R)'
    BY <1>8, <1>9, PartKept
  <2>2. OfLinks(Q)' /\ OfDist(Q)'
    BY <1>5, <1>8, PartKept DEF IsNet
  <2>3. OfLinks(R)' /\ OfDist(R)'
    BY <1>9, <2>2, PartKept
  <2> QED
    BY <2>1, <2>3 DEF IsNet
<1>11. NetShape(S)'
  BY <1>5, <1>8, <1>9 DEF NetShape
<1> QED
  BY <1>3, <1>4, <1>7, <1>10, <1>11, <1>p, <1>u, <1>b

LEMMA MergeWriteMoves ==
  ASSUME NEW S, NetShape(S), NEW P \in [Place -> Seq(S)], IsNet(P),
         NEW l \in Level, NEW w \in Wire, MergeWrite(l, w),
         NEW p, p = MergeAt(l, w), NEW r, r = LinkAt(l + 1, w), NEW R, R = Onward(P, p, r)
  PROVE  /\ NetShape(S)' /\ IsNet(R)'
         /\ p \in Place /\ r \in Place /\ p # r /\ P[p] # <<>>
<1>1. PICK x \in S : merge[l][w] = <<x>>
  BY DEF NetShape, Register, MergeWrite, Empty
<1>2. l + 1 \in Stage /\ P[p] = <<x>> /\ Head(merge[l][w]) = x
  BY <1>1, LevelStage, OneItem DEF IsNet, OfMerge
<1>3. p \in Place /\ r \in Place /\ p # r
  <2>1. p \in Place /\ p.kind = 3
    BY Kinds
  <2>2. r \in Place /\ r.kind = 0
    BY <1>2, Kinds
  <2> QED
    BY <2>1, <2>2
<1>4. P[r] = link[l + 1][w] /\ P[r] \in Seq(S)
  BY <1>2, <1>3 DEF IsNet, OfLinks
<1>q. PICK q : q = Append(P[r], x)
  OBVIOUS
<1>5. /\ q \in Seq(S) /\ merge' = [merge EXCEPT ![l][w] = <<>>] /\ UNCHANGED <<dist, inner>>
      /\ link' = [link EXCEPT ![l + 1][w] = q]
  <2>1. link[l + 1][w] = P[r] /\ link \in [Stage -> [Wire -> Seq(S)]]
    BY <1>4 DEF NetShape
  <2>2. q \in Seq(S)
    BY <1>4, <1>q
  <2> QED
    BY <1>2, <1>q, <2>1, <2>2 DEF MergeWrite
<1>Q. PICK Q : Q = Put(P, p, <<>>)
  OBVIOUS
<1>7. R = Put(Q, r, q)
  <2>1. Q[r] = P[r]
    BY <1>3, <1>Q DEF Put
  <2> QED
    BY <1>2, <1>q, <1>Q, <2>1, OneItem DEF Onward, Put
<1>8. /\ Q \in [Place -> Seq(S)] /\ SameLinks(P, Q) /\ SameDist(P, Q) /\ SameInner(P, Q)
      /\ merge' \in [Level -> [Wire -> Register(S)]] /\ OfMerge(Q)'
  <2>1. merge \in [Level -> [Wire -> Register(S)]] /\ OfMerge(P)
    BY DEF NetShape, IsNet
  <2> DEFINE y == <<>>
  <2>2. /\ y \in Seq(S) /\ y \in Register(S) /\ Q = Put(P, MergeAt(l, w), y)
        /\ merge' = [merge EXCEPT ![l][w] = y]
    BY <1>5, <1>Q DEF Register
  <2> HIDE DEF y
  <2> QED
    BY <2>1, <2>2, MergePut
<1>9. /\ SameDist(Q, R) /\ SameInner(Q, R) /\ SameMerge(Q, R)
      /\ link' \in [Stage -> [Wire -> Seq(S)]] /\ OfLinks(R)'
  <2>1. OfLinks(Q) /\ R = Put(Q, LinkAt(l + 1, w), q)
    BY <1>7, <1>8, PartKept DEF IsNet
  <2>2. link \in [Stage -> [Wire -> Seq(S)]]
    BY DEF NetShape
  <2> QED
    BY <1>2, <1>5, <1>8, <2>1, <2>2, LinkPut
<1>10. IsNet(R)'
  <2>1. OfLinks(R)' /\ OfMerge(R)'
    BY <1>8, <1>9, PartKept
  <2>2. OfDist(Q)' /\ OfInner(Q)'
    BY <1>5, <1>8, PartKept DEF IsNet
  <2>3. OfDist(R)' /\ OfInner(R)'
    BY <1>9, <2>2, PartKept
  <2> QED
    BY <2>1, <2>3 DEF IsNet
<1>11. NetShape(S)' /\ P[p] # <<>>
  BY <1>2, <1>5, <1>8, <1>9, OneItem DEF NetShape
<1> QED
  BY <1>3, <1>10, <1>11

LEMMA NetStarts ==
  ASSUME NEW S, NetInit
  PROVE  \E P \in [Place -> Seq(S)] :
           NetShape(S) /\ IsNet(P) /\ \A p \in Place : P[p] = <<>>
<1>1. PICK P : P = [p \in Place |-> <<>>]
  OBVIOUS
<1>2. P \in [Place -> Seq(S)] /\ \A p \in Place : P[p] = <<>>
  BY <1>1
<1>3. IsNet(P)
  BY <1>2, PlacesIn, OneItem DEF NetInit, IsNet, OfLinks, OfDist, OfInner, OfMerge
<1>4. NetShape(S)
  BY DEF NetInit, NetShape, Register, Bit
<1> QED
  BY <1>2, <1>3, <1>4

\* Item i at place x was item j at place y before the head of p went to the end of r.
From(P, p, r, x, i, y, j) ==
  \/ x = y /\ x # p /\ i = j /\ i \in DOMAIN P[x]
  \/ x = p /\ y = p /\ j = i + 1
  \/ x = r /\ y = p /\ j = 1 /\ i = Len(P[r]) + 1

LEMMA TailAt ==
  ASSUME NEW S, NEW q \in Seq(S), q # <<>>
  PROVE  /\ DOMAIN q = 1..Len(q) /\ Len(q) \in Nat /\ Len(q) > 0
         /\ DOMAIN Tail(q) = 1..Len(q) - 1 /\ Head(q) = q[1] /\ Head(q) \in S
         /\ \A i \in 1..Len(q) - 1 : Tail(q)[i] = q[i + 1]
<1>1. Len(q) \in Nat /\ Len(q) # 0 /\ DOMAIN q = 1..Len(q)
  BY LenProperties, EmptySeq
<1>2. /\ Tail(q) \in Seq(S) /\ Len(Tail(q)) = Len(q) - 1 /\ Head(q) = q[1] /\ Head(q) \in S
      /\ \A i \in 1..Len(Tail(q)) : Tail(q)[i] = q[i + 1]
  BY HeadTailProperties
<1> QED
  BY <1>1, <1>2, LenProperties

LEMMA AppendAt ==
  ASSUME NEW S, NEW q \in Seq(S), NEW e \in S
  PROVE  /\ DOMAIN q = 1..Len(q) /\ Len(q) \in Nat /\ DOMAIN Append(q, e) = 1..Len(q) + 1
         /\ Len(Append(q, e)) = Len(q) + 1 /\ Append(q, e) \in Seq(S)
         /\ \A i \in 1..Len(q) : Append(q, e)[i] = q[i]
         /\ Append(q, e)[Len(q) + 1] = e
BY LenProperties, AppendProperties

\* Every item comes from one place, and none is lost on the way.
LEMMA OnwardFrom ==
  ASSUME NEW S, NEW P \in [Place -> Seq(S)], NEW p \in Place, NEW r \in Place, p # r,
         P[p] # <<>>, NEW R, R = Onward(P, p, r)
  PROVE  /\ R \in [Place -> Seq(S)]
         /\ \A x \in Place : \A i \in DOMAIN R[x] :
              \E y \in Place : \E j \in DOMAIN P[y] :
                From(P, p, r, x, i, y, j) /\ R[x][i] = P[y][j]
         /\ \A y \in Place : \A j \in DOMAIN P[y] :
              \E x \in Place : \E i \in DOMAIN R[x] : R[x][i] = P[y][j]
<1>1. P[p] \in Seq(S) /\ P[r] \in Seq(S)
  OBVIOUS
<1>p. /\ DOMAIN P[p] = 1..Len(P[p]) /\ Len(P[p]) \in Nat /\ Len(P[p]) > 0
      /\ DOMAIN Tail(P[p]) = 1..Len(P[p]) - 1 /\ Head(P[p]) = P[p][1] /\ Head(P[p]) \in S
      /\ \A i \in 1..Len(P[p]) - 1 : Tail(P[p])[i] = P[p][i + 1]
  BY <1>1, TailAt
<1>e. PICK e : e = Head(P[p])
  OBVIOUS
<1>r. /\ DOMAIN P[r] = 1..Len(P[r]) /\ Len(P[r]) \in Nat
      /\ DOMAIN Append(P[r], e) = 1..Len(P[r]) + 1 /\ Append(P[r], e) \in Seq(S)
      /\ \A i \in 1..Len(P[r]) : Append(P[r], e)[i] = P[r][i]
      /\ Append(P[r], e)[Len(P[r]) + 1] = e
  BY <1>1, <1>p, <1>e, AppendAt
<1>2. /\ R \in [Place -> Seq(S)] /\ R[p] = Tail(P[p]) /\ R[r] = Append(P[r], e)
      /\ \A x \in Place \ {p, r} : R[x] = P[x]
  BY <1>1, <1>e, <1>r, ReadSeq DEF Onward, Put
<1>3. ASSUME NEW x \in Place, NEW i \in DOMAIN R[x]
      PROVE  \E y \in Place : \E j \in DOMAIN P[y] :
               From(P, p, r, x, i, y, j) /\ R[x][i] = P[y][j]
  <2>1. CASE x = p
    <3>1. i + 1 \in DOMAIN P[p] /\ R[x][i] = P[p][i + 1]
      BY <1>p, <1>2, <2>1
    <3> QED
      BY <2>1, <3>1 DEF From
  <2>2. CASE x = r /\ i = Len(P[r]) + 1
    <3>1. 1 \in DOMAIN P[p] /\ R[x][i] = P[p][1]
      BY <1>p, <1>e, <1>r, <1>2, <2>2
    <3> QED
      BY <2>2, <3>1 DEF From
  <2>3. CASE x # p /\ ~(x = r /\ i = Len(P[r]) + 1)
    <3>1. i \in DOMAIN P[x] /\ R[x][i] = P[x][i]
      <4>1. CASE x = r
        BY <1>r, <1>2, <2>3, <4>1
      <4>2. CASE x # r
        BY <1>2, <2>3, <4>2
      <4> QED
        BY <4>1, <4>2
    <3> QED
      BY <2>3, <3>1 DEF From
  <2> QED
    BY <2>1, <2>2, <2>3
<1>4. ASSUME NEW y \in Place, NEW j \in DOMAIN P[y]
      PROVE  \E x \in Place : \E i \in DOMAIN R[x] : R[x][i] = P[y][j]
  <2>1. CASE y = p /\ j = 1
    <3>1. Len(P[r]) + 1 \in DOMAIN R[r] /\ R[r][Len(P[r]) + 1] = P[y][j]
      BY <1>p, <1>e, <1>r, <1>2, <2>1
    <3> QED
      BY <3>1
  <2>2. CASE y = p /\ j # 1
    <3>1. j - 1 \in DOMAIN R[p] /\ R[p][j - 1] = P[y][j]
      <4>1. j - 1 \in 1..Len(P[p]) - 1 /\ (j - 1) + 1 = j
        BY <1>p, <2>2
      <4> QED
        BY <1>p, <1>2, <2>2, <4>1
    <3> QED
      BY <3>1
  <2>3. CASE y = r
    BY <1>r, <1>2, <2>3
  <2>4. CASE y \notin {p, r}
    BY <1>2, <2>4
  <2> QED
    BY <2>1, <2>2, <2>3, <2>4
<1> QED
  BY <1>2, <1>3, <1>4

-----------------------------------------------------------------------------
(***************************************************************************)
(* The routing switch.                                                     *)
(***************************************************************************)

IInv == TypeOK /\ Routed /\ Delivered

Held == [item : Item, port : Bit]

\* distribute_package moves an item that agrees below bit l to the wire on
\* which it agrees up to bit l.
LEMMA TurnAgrees ==
  ASSUME NEW l \in Level, NEW w \in Wire, NEW x \in Item, Agrees(x, w, l)
  PROVE  Agrees(x, Turn(w, l, x.dest[l]), l + 1)
<1>1. x.dest \in Wire /\ x.dest[l] \in Bit
  BY SwitchAssumption DEF Wire
<1>2. ASSUME NEW i \in 1..((l + 1) - 1)
      PROVE  x.dest[i] = Turn(w, l, x.dest[l])[i]
  <2>1. i \in Level /\ (i = l \/ i \in 1..(l - 1))
    BY NetAssumption DEF Level
  <2> QED BY <1>1, <2>1, TurnWire DEF Agrees
<1> QED BY <1>2 DEF Agrees

\* Reading a FIFO: the head and the rest keep their type and agreement.
LEMMA ReadAgree ==
  ASSUME NEW q \in Seq(Item), NEW w, NEW l, q # <<>>, AllAgree(q, w, l)
  PROVE  /\ Head(q) \in Item /\ Agrees(Head(q), w, l)
         /\ Tail(q) \in Seq(Item) /\ AllAgree(Tail(q), w, l)
<1>1. Len(q) >= 1 /\ 1 \in DOMAIN q /\ Head(q) = q[1]
  OBVIOUS
<1>2. /\ Tail(q) \in Seq(Item)
      /\ \A i \in DOMAIN Tail(q) : i + 1 \in DOMAIN q /\ Tail(q)[i] = q[i + 1]
  OBVIOUS
<1> QED BY <1>1, <1>2 DEF AllAgree

\* Writing a FIFO with an item that agrees.
LEMMA WriteAgree ==
  ASSUME NEW q \in Seq(Item), NEW x \in Item, NEW w, NEW l,
         AllAgree(q, w, l), Agrees(x, w, l)
  PROVE  Append(q, x) \in Seq(Item) /\ AllAgree(Append(q, x), w, l)
BY DEF AllAgree

\* An array of FIFOs that all agree still does when one FIFO is replaced by
\* one that agrees.
LEMMA LinksStep ==
  ASSUME TypeOK, RoutedLinks, NEW s \in Stage, NEW w \in Wire,
         NEW q \in Seq(Item), AllAgree(q, w, s),
         link' = [link EXCEPT ![s][w] = q]
  PROVE  link' \in [Stage -> [Wire -> Seq(Item)]] /\ RoutedLinks'
<1>1. link \in [Stage -> [Wire -> Seq(Item)]]
  BY DEF TypeOK, NetTypeOK
<1>2. /\ link' \in [Stage -> [Wire -> Seq(Item)]]
      /\ \A x \in Stage, y \in Wire :
           link'[x][y] = IF x = s /\ y = w THEN q ELSE link[x][y]
  BY <1>1, Update2
<1>3. ASSUME NEW x \in Stage, NEW y \in Wire PROVE AllAgree(link'[x][y], y, x)
  <2>1. CASE x = s /\ y = w
    BY <1>2, <2>1
  <2>2. CASE ~(x = s /\ y = w)
    BY <1>2, <2>2 DEF RoutedLinks
  <2> QED BY <2>1, <2>2
<1> QED BY <1>2, <1>3 DEF RoutedLinks

LEMMA DistStep ==
  ASSUME TypeOK, RoutedDist, NEW l \in Level, NEW w \in Wire,
         NEW q \in Seq(Held),
         \A i \in DOMAIN q : Agrees(q[i].item, Turn(w, l, q[i].port), l + 1),
         dist' = [dist EXCEPT ![l][w] = q]
  PROVE  dist' \in [Level -> [Wire -> Seq(Held)]] /\ RoutedDist'
<1>1. dist \in [Level -> [Wire -> Seq(Held)]]
  BY DEF TypeOK, NetTypeOK, Held
<1>2. /\ dist' \in [Level -> [Wire -> Seq(Held)]]
      /\ \A x \in Level, y \in Wire :
           dist'[x][y] = IF x = l /\ y = w THEN q ELSE dist[x][y]
  BY <1>1, Update2
<1>3. ASSUME NEW x \in Level, NEW y \in Wire, NEW i \in DOMAIN dist'[x][y]
      PROVE  Agrees(dist'[x][y][i].item, Turn(y, x, dist'[x][y][i].port), x + 1)
  <2>1. CASE x = l /\ y = w
    <3>1. dist'[x][y] = q
      BY <1>2, <2>1
    <3> QED BY <2>1, <3>1
  <2>2. CASE ~(x = l /\ y = w)
    <3>1. dist'[x][y] = dist[x][y]
      BY <1>2, <2>2
    <3> QED BY <3>1 DEF RoutedDist
  <2> QED BY <2>1, <2>2
<1> QED BY <1>2, <1>3 DEF RoutedDist

LEMMA InnerStep ==
  ASSUME TypeOK, RoutedInner, NEW l \in Level, NEW w \in Wire, NEW b \in Bit,
         NEW q \in Seq(Item), AllAgree(q, Turn(w, l, b), l + 1),
         inner' = [inner EXCEPT ![l][w][b] = q]
  PROVE  inner' \in [Level -> [Wire -> [Bit -> Seq(Item)]]] /\ RoutedInner'
<1>1. inner \in [Level -> [Wire -> [Bit -> Seq(Item)]]]
  BY DEF TypeOK, NetTypeOK
<1>2. /\ inner' \in [Level -> [Wire -> [Bit -> Seq(Item)]]]
      /\ \A x \in Level, y \in Wire, z \in Bit :
           inner'[x][y][z] = IF x = l /\ y = w /\ z = b THEN q ELSE inner[x][y][z]
  <2> DEFINE f == [inner EXCEPT ![l][w][b] = q]
  <2>1. /\ f \in [Level -> [Wire -> [Bit -> Seq(Item)]]]
        /\ \A x \in Level, y \in Wire, z \in Bit :
             f[x][y][z] = IF x = l /\ y = w /\ z = b THEN q ELSE inner[x][y][z]
    BY <1>1
  <2>2. inner' = f
    OBVIOUS
  <2> QED BY <2>1, <2>2
<1>3. ASSUME NEW x \in Level, NEW y \in Wire, NEW z \in Bit
      PROVE  AllAgree(inner'[x][y][z], Turn(y, x, z), x + 1)
  <2>1. CASE x = l /\ y = w /\ z = b
    BY <1>2, <2>1
  <2>2. CASE ~(x = l /\ y = w /\ z = b)
    BY <1>2, <2>2 DEF RoutedInner
  <2> QED BY <2>1, <2>2
<1> QED BY <1>2, <1>3 DEF RoutedInner

LEMMA MergeStep ==
  ASSUME TypeOK, RoutedMerge, NEW l \in Level, NEW w \in Wire,
         NEW q \in Seq(Item), AllAgree(q, w, l + 1),
         merge' = [merge EXCEPT ![l][w] = q]
  PROVE  merge' \in [Level -> [Wire -> Seq(Item)]] /\ RoutedMerge'
<1>1. merge \in [Level -> [Wire -> Seq(Item)]]
  BY DEF TypeOK, NetTypeOK
<1>2. /\ merge' \in [Level -> [Wire -> Seq(Item)]]
      /\ \A x \in Level, y \in Wire :
           merge'[x][y] = IF x = l /\ y = w THEN q ELSE merge[x][y]
  BY <1>1, Update2
<1>3. ASSUME NEW x \in Level, NEW y \in Wire PROVE AllAgree(merge'[x][y], y, x + 1)
  <2>1. CASE x = l /\ y = w
    BY <1>2, <2>1
  <2>2. CASE ~(x = l /\ y = w)
    BY <1>2, <2>2 DEF RoutedMerge
  <2> QED BY <2>1, <2>2
<1> QED BY <1>2, <1>3 DEF RoutedMerge

\* What a step leaves alone keeps its part of the invariant.
LEMMA Unchanged ==
  /\ UNCHANGED link  => (RoutedLinks => RoutedLinks')
  /\ UNCHANGED dist  => (RoutedDist => RoutedDist')
  /\ UNCHANGED inner => (RoutedInner => RoutedInner')
  /\ UNCHANGED merge => (RoutedMerge => RoutedMerge')
  /\ UNCHANGED recv  => (Delivered => Delivered')
BY DEF RoutedLinks, RoutedDist, RoutedInner, RoutedMerge, Delivered

LEMMA EmptyAgrees == /\ <<>> \in Seq(Item) /\ <<>> \in Seq(Held)
                     /\ \A w, l : AllAgree(<<>>, w, l)
BY DEF AllAgree

\* The one-element register of a merger.
LEMMA OneAgrees ==
  ASSUME NEW x \in Item, NEW w, NEW l, Agrees(x, w, l)
  PROVE  <<x>> \in Seq(Item) /\ AllAgree(<<x>>, w, l)
BY DEF AllAgree

\* Init: everything is empty.
LEMMA InitIInv == Init => IInv
<1> SUFFICES ASSUME Init PROVE IInv
  OBVIOUS
<1>1. TypeOK
  BY DEF Init, NetInit, TypeOK, NetTypeOK, Bit
<1>2. Routed
  BY EmptyAgrees DEF Init, NetInit, Routed, RoutedLinks, RoutedDist, RoutedInner,
     RoutedMerge
<1>3. Delivered
  BY DEF Init, Delivered
<1> QED BY <1>1, <1>2, <1>3 DEF IInv

\* A query enters at stage 1, where nothing is decided yet.
LEMMA InputStep ==
  ASSUME IInv, NEW w \in Wire, NEW v \in Vertex, rpa_input(w, v)
  PROVE  IInv'
<1> DEFINE d == Dest[v]
           x == [dest |-> d, src |-> w, no |-> Len(sent[w][d]) + 1, vid |-> v]
           q == Append(link[1][w], x)
<1>0. TypeOK /\ Routed /\ Delivered
  BY DEF IInv
<1>t. /\ link[1][w] \in Seq(Item) /\ d \in Wire
      /\ sent \in [Wire -> [Wire -> Seq(Item)]] /\ sent[w][d] \in Seq(Item)
  BY <1>0, LevelStage, SwitchAssumption DEF TypeOK, NetTypeOK
<1>1. x \in Item
  <2>1. Quota[w][d] \in Nat /\ Len(sent[w][d]) \in Nat /\ Len(sent[w][d]) < Quota[w][d]
    BY <1>t, SwitchAssumption DEF rpa_input
  <2>2. Len(sent[w][d]) + 1 \in 1..Quota[w][d]
    BY <2>1
  <2> QED BY <2>2, SwitchAssumption
<1>2. q \in Seq(Item) /\ AllAgree(q, w, 1)
  <2>1. Agrees(x, w, 1)
    BY DEF Agrees
  <2>2. AllAgree(link[1][w], w, 1)
    BY <1>0, LevelStage DEF Routed, RoutedLinks
  <2> HIDE DEF x
  <2> QED BY <1>1, <1>t, <2>1, <2>2, WriteAgree
<1>3. /\ link' = [link EXCEPT ![1][w] = q]
      /\ sent' = [sent EXCEPT ![w][d] = Append(sent[w][d], x)]
      /\ UNCHANGED <<dist, inner, merge, flag, recv>>
  BY <1>t DEF rpa_input, WriteLink
<1> HIDE DEF x, q, d
<1>4. link' \in [Stage -> [Wire -> Seq(Item)]] /\ RoutedLinks'
  BY <1>0, <1>2, <1>3, LevelStage, LinksStep DEF Routed
<1>5. sent' \in [Wire -> [Wire -> Seq(Item)]]
  BY <1>1, <1>3, <1>t, Update2
<1> QED BY <1>0, <1>3, <1>4, <1>5, Unchanged DEF IInv, TypeOK, NetTypeOK, Routed

\* An item that leaves on wire w agrees with w on every bit.
LEMMA OutputStep ==
  ASSUME IInv, NEW w \in Wire, rpa_output(w)
  PROVE  IInv'
<1> DEFINE q == link[K + 1][w]
           x == Head(q)
<1>0. TypeOK /\ Routed /\ Delivered
  BY DEF IInv
<1>t. recv \in [Wire -> Seq(Item)] /\ recv[w] \in Seq(Item)
  BY <1>0 DEF TypeOK
<1>1. /\ x \in Item /\ Agrees(x, w, K + 1)
      /\ Tail(q) \in Seq(Item) /\ AllAgree(Tail(q), w, K + 1)
  <2>1. q \in Seq(Item) /\ q # <<>> /\ AllAgree(q, w, K + 1)
    BY <1>0, LevelStage
    DEF rpa_output, ReadLink, Empty, Routed, RoutedLinks, TypeOK, NetTypeOK
  <2> HIDE DEF q
  <2> QED BY <2>1, ReadAgree
<1>2. x.dest = w
  <2>1. x.dest \in Wire
    BY <1>1, SwitchAssumption
  <2>2. \A i \in Level : x.dest[i] = w[i]
    <3> HIDE DEF x
    <3>1. 1..((K + 1) - 1) = Level
      BY NetAssumption DEF Level
    <3> QED BY <1>1, <3>1 DEF Agrees
  <2> HIDE DEF x
  <2> QED BY <2>1, <2>2 DEF Wire
<1>3. /\ link' = [link EXCEPT ![K + 1][w] = Tail(q)]
      /\ recv' = [recv EXCEPT ![w] = Append(recv[w], x)]
      /\ UNCHANGED <<dist, inner, merge, flag, sent>>
  BY <1>t DEF rpa_output, ReadLink
<1> HIDE DEF q, x
<1>4. link' \in [Stage -> [Wire -> Seq(Item)]] /\ RoutedLinks'
  BY <1>0, <1>1, <1>3, LevelStage, LinksStep DEF Routed
<1>5. /\ recv' \in [Wire -> Seq(Item)]
      /\ \A u \in Wire : recv'[u] = IF u = w THEN Append(recv[w], x) ELSE recv[u]
  BY <1>1, <1>3, <1>t, Update1
<1>6. Delivered'
  <2>1. \A i \in DOMAIN Append(recv[w], x) : Append(recv[w], x)[i].dest = w
    BY <1>0, <1>1, <1>2, <1>t DEF Delivered
  <2> QED BY <1>0, <1>5, <2>1 DEF Delivered
<1> QED BY <1>0, <1>3, <1>4, <1>5, <1>6, Unchanged DEF IInv, TypeOK, NetTypeOK, Routed

\* distribute_package commits the head of link[l][w] to the port of its bit l.
LEMMA DistributorReadsStep ==
  ASSUME IInv, NEW l \in Level, NEW w \in Wire, DistributorReads(l, w)
  PROVE  IInv'
<1> DEFINE q == link[l][w]
           x == Head(q)
           held == [item |-> x, port |-> x.dest[l]]
<1>0. TypeOK /\ Routed /\ Delivered
  BY DEF IInv
<1>1. /\ x \in Item /\ Agrees(x, w, l)
      /\ Tail(q) \in Seq(Item) /\ AllAgree(Tail(q), w, l)
  <2>1. q \in Seq(Item) /\ q # <<>> /\ AllAgree(q, w, l)
    BY <1>0, LevelStage DEF DistributorReads, distribute_package, Empty, Routed,
       RoutedLinks, TypeOK, NetTypeOK
  <2> HIDE DEF q
  <2> QED BY <2>1, ReadAgree
<1>3. /\ link' = [link EXCEPT ![l][w] = Tail(q)]
      /\ dist' = [dist EXCEPT ![l][w] = <<held>>]
      /\ UNCHANGED <<inner, merge, flag, sent, recv>>
  BY DEF DistributorReads, distribute_package, DistributeTo, Port
<1> HIDE DEF q, x
<1>2. /\ held \in Held
      /\ Agrees(held.item, Turn(w, l, held.port), l + 1)
  BY <1>1, TurnAgrees, SwitchAssumption DEF Wire, Held
<1> HIDE DEF held
<1>4. link' \in [Stage -> [Wire -> Seq(Item)]] /\ RoutedLinks'
  BY <1>0, <1>1, <1>3, LevelStage, LinksStep DEF Routed
<1>5. dist' \in [Level -> [Wire -> Seq(Held)]] /\ RoutedDist'
  <2> DEFINE r == <<held>>
  <2>1. /\ r \in Seq(Held)
        /\ \A i \in DOMAIN r : Agrees(r[i].item, Turn(w, l, r[i].port), l + 1)
    BY <1>2
  <2>2. dist' = [dist EXCEPT ![l][w] = r]
    BY <1>3
  <2> HIDE DEF r
  <2> QED BY <1>0, <2>1, <2>2, DistStep DEF Routed
<1> QED BY <1>0, <1>3, <1>4, <1>5, Unchanged DEF IInv, TypeOK, NetTypeOK, Routed, Held

\* The held item goes to the inner FIFO of its port.
LEMMA DistributorWritesStep ==
  ASSUME IInv, NEW l \in Level, NEW w \in Wire, DistributorWrites(l, w)
  PROVE  IInv'
<1> DEFINE held == Head(dist[l][w])
           b == held.port
           q == Append(inner[l][w][b], held.item)
<1>0. TypeOK /\ Routed /\ Delivered
  BY DEF IInv
<1>1. /\ held \in Held /\ held.item \in Item /\ b \in Bit
      /\ Agrees(held.item, Turn(w, l, b), l + 1)
  <2> DEFINE d == dist[l][w]
  <2>1. d \in Seq(Held) /\ d # <<>>
    BY <1>0 DEF DistributorWrites, DistributeWrite, Empty, TypeOK, NetTypeOK, Held
  <2>2. 1 \in DOMAIN d /\ Head(d) = d[1] /\ d[1] \in Held
    <3> HIDE DEF d
    <3> QED BY <2>1
  <2>3. \A i \in DOMAIN d : Agrees(d[i].item, Turn(w, l, d[i].port), l + 1)
    BY <1>0 DEF Routed, RoutedDist
  <2> HIDE DEF d
  <2>4. held = d[1]
    BY <2>2 DEF d
  <2> HIDE DEF held
  <2> QED BY <2>2, <2>3, <2>4 DEF Held
<1>2. q \in Seq(Item) /\ AllAgree(q, Turn(w, l, b), l + 1)
  <2> HIDE DEF held, b
  <2>1. inner[l][w][b] \in Seq(Item) /\ AllAgree(inner[l][w][b], Turn(w, l, b), l + 1)
    BY <1>0, <1>1 DEF Routed, RoutedInner, TypeOK, NetTypeOK
  <2> QED BY <1>1, <2>1, WriteAgree
<1>3. /\ inner' = [inner EXCEPT ![l][w][b] = q]
      /\ dist' = [dist EXCEPT ![l][w] = <<>>]
      /\ UNCHANGED <<link, merge, flag, sent, recv>>
  <2>1. inner' = [inner EXCEPT ![l][w][b] = Append(@, held.item)]
    BY DEF DistributorWrites, DistributeWrite
  <2>2. inner \in [Level -> [Wire -> [Bit -> Seq(Item)]]]
    BY <1>0 DEF TypeOK, NetTypeOK
  <2>3. inner' = [inner EXCEPT ![l][w][b] = q]
    <3> HIDE DEF held, b
    <3> QED BY <1>1, <2>1, <2>2
  <2> QED BY <2>3 DEF DistributorWrites, DistributeWrite
<1> HIDE DEF held, b, q
<1>4. inner' \in [Level -> [Wire -> [Bit -> Seq(Item)]]] /\ RoutedInner'
  BY <1>0, <1>1, <1>2, <1>3, InnerStep DEF Routed
<1>5. dist' \in [Level -> [Wire -> Seq(Held)]] /\ RoutedDist'
  <2> DEFINE r == <<>>
  <2>1. /\ r \in Seq(Held)
        /\ \A i \in DOMAIN r : Agrees(r[i].item, Turn(w, l, r[i].port), l + 1)
    BY EmptyAgrees
  <2>2. dist' = [dist EXCEPT ![l][w] = r]
    BY <1>3
  <2> HIDE DEF r
  <2> QED BY <1>0, <2>1, <2>2, DistStep DEF Routed
<1> QED BY <1>0, <1>3, <1>4, <1>5, Unchanged DEF IInv, TypeOK, NetTypeOK, Routed, Held

\* merge_package reads one of the two inner FIFOs that lead to its wire.
LEMMA MergerReadsStep ==
  ASSUME IInv, NEW l \in Level, NEW w \in Wire, MergerReads(l, w)
  PROVE  IInv'
<1>0. TypeOK /\ Routed /\ Delivered
  BY DEF IInv
<1>c. PICK c \in Bit :
        /\ Serves(l, w, c)
        /\ merge' = [merge EXCEPT ![l][w] = <<Head(MergeInput(l, w, c))>>]
        /\ inner' = [inner EXCEPT ![l][Turn(w, l, c)][w[l]] = Tail(@)]
        /\ flag' = [flag EXCEPT ![l][w] = Serve(l, w, c)]
  BY DEF MergerReads, merge_package
<1> DEFINE u == Turn(w, l, c)
           b == w[l]
           q == inner[l][u][b]
           x == Head(q)
           r == <<x>>
<1>b. u \in Wire /\ b \in Bit /\ Turn(u, l, b) = w
  BY TurnWire, TurnBack DEF Wire
<1>t. inner \in [Level -> [Wire -> [Bit -> Seq(Item)]]]
  BY <1>0 DEF TypeOK, NetTypeOK
<1>1. /\ x \in Item /\ Agrees(x, w, l + 1)
      /\ Tail(q) \in Seq(Item) /\ AllAgree(Tail(q), w, l + 1)
  <2>1. q # <<>>
    BY <1>c DEF Serves, MergeInput, Empty
  <2> HIDE DEF u, b
  <2>2. AllAgree(q, w, l + 1) /\ q \in Seq(Item)
    BY <1>0, <1>b, <1>t DEF Routed, RoutedInner
  <2> HIDE DEF q
  <2> QED BY <2>1, <2>2, ReadAgree
<1>3. /\ inner' = [inner EXCEPT ![l][u][b] = Tail(q)]
      /\ merge' = [merge EXCEPT ![l][w] = r]
      /\ UNCHANGED <<link, dist, sent, recv>>
  <2>1. inner' = [inner EXCEPT ![l][u][b] = Tail(@)]
    BY <1>c
  <2>2. inner' = [inner EXCEPT ![l][u][b] = Tail(q)]
    <3> HIDE DEF u, b
    <3> QED BY <1>b, <1>t, <2>1
  <2> QED BY <1>c, <2>2 DEF MergerReads, merge_package, MergeInput
<1>4. flag' \in [Level -> [Wire -> Bit]]
  <2>1. flag \in [Level -> [Wire -> Bit]]
    BY <1>0 DEF TypeOK, NetTypeOK
  <2>2. flag' = [flag EXCEPT ![l][w] = c]
    BY <1>c DEF Serve
  <2> QED BY <2>1, <2>2, Update2
<1> HIDE DEF u, b, q, x
<1>5. inner' \in [Level -> [Wire -> [Bit -> Seq(Item)]]] /\ RoutedInner'
  BY <1>0, <1>1, <1>3, <1>b, InnerStep DEF Routed
<1>6. merge' \in [Level -> [Wire -> Seq(Item)]] /\ RoutedMerge'
  <2>1. r \in Seq(Item) /\ AllAgree(r, w, l + 1)
    BY <1>1, OneAgrees
  <2> HIDE DEF r
  <2> QED BY <1>0, <1>3, <2>1, MergeStep DEF Routed
<1> QED BY <1>0, <1>3, <1>4, <1>5, <1>6, Unchanged DEF IInv, TypeOK, NetTypeOK, Routed

\* The merged item enters the next stage on the merger's wire.
LEMMA MergerWritesStep ==
  ASSUME IInv, NEW l \in Level, NEW w \in Wire, MergerWrites(l, w)
  PROVE  IInv'
<1> DEFINE x == Head(merge[l][w])
           q == Append(link[l + 1][w], x)
<1>0. TypeOK /\ Routed /\ Delivered
  BY DEF IInv
<1>t. /\ link \in [Stage -> [Wire -> Seq(Item)]]
      /\ merge[l][w] \in Seq(Item)
  BY <1>0 DEF TypeOK, NetTypeOK
<1>1. x \in Item /\ Agrees(x, w, l + 1)
  <2>1. merge[l][w] # <<>> /\ AllAgree(merge[l][w], w, l + 1)
    BY <1>0 DEF MergerWrites, MergeWrite, Empty, Routed, RoutedMerge
  <2> QED BY <1>t, <2>1, ReadAgree
<1>2. q \in Seq(Item) /\ AllAgree(q, w, l + 1)
  <2>1. link[l + 1][w] \in Seq(Item) /\ AllAgree(link[l + 1][w], w, l + 1)
    BY <1>0, <1>t, LevelStage DEF Routed, RoutedLinks
  <2> HIDE DEF x
  <2> QED BY <1>1, <2>1, WriteAgree
<1>3. /\ link' = [link EXCEPT ![l + 1][w] = q]
      /\ merge' = [merge EXCEPT ![l][w] = <<>>]
      /\ UNCHANGED <<dist, inner, flag, sent, recv>>
  <2>1. link' = [link EXCEPT ![l + 1][w] = Append(@, x)]
    BY DEF MergerWrites, MergeWrite
  <2>2. link' = [link EXCEPT ![l + 1][w] = q]
    <3> HIDE DEF x
    <3> QED BY <1>t, <2>1, LevelStage
  <2> QED BY <2>2 DEF MergerWrites, MergeWrite
<1> HIDE DEF x, q
<1>4. link' \in [Stage -> [Wire -> Seq(Item)]] /\ RoutedLinks'
  BY <1>0, <1>2, <1>3, LevelStage, LinksStep DEF Routed
<1>5. merge' \in [Level -> [Wire -> Seq(Item)]] /\ RoutedMerge'
  BY <1>0, <1>3, EmptyAgrees, MergeStep DEF Routed
<1> QED BY <1>0, <1>3, <1>4, <1>5, Unchanged DEF IInv, TypeOK, NetTypeOK, Routed

\* RoutedAlways: the inductive invariant holds in every reachable state.
THEOREM RoutedAlways == Spec => []IInv
<1>1. IInv /\ [Next]_vars => IInv'
  <2> SUFFICES ASSUME IInv, [Next]_vars PROVE IInv'
    OBVIOUS
  <2>1. ASSUME NEW w \in Wire, NEW v \in Vertex, rpa_input(w, v) PROVE IInv'
    BY <2>1, InputStep
  <2>2. ASSUME NEW w \in Wire, rpa_output(w) PROVE IInv'
    BY <2>2, OutputStep
  <2>3. ASSUME NEW l \in Level, NEW w \in Wire, DistributorReads(l, w) PROVE IInv'
    BY <2>3, DistributorReadsStep
  <2>4. ASSUME NEW l \in Level, NEW w \in Wire, DistributorWrites(l, w) PROVE IInv'
    BY <2>4, DistributorWritesStep
  <2>5. ASSUME NEW l \in Level, NEW w \in Wire, MergerReads(l, w) PROVE IInv'
    BY <2>5, MergerReadsStep
  <2>6. ASSUME NEW l \in Level, NEW w \in Wire, MergerWrites(l, w) PROVE IInv'
    BY <2>6, MergerWritesStep
  <2>7. CASE UNCHANGED vars
    BY <2>7, Unchanged DEF vars, IInv, TypeOK, NetTypeOK, Routed
  <2> QED BY <2>1, <2>2, <2>3, <2>4, <2>5, <2>6, <2>7 DEF Next, NetNext, Idle
<1> QED BY InitIInv, <1>1, PTL DEF Spec

\* TypeCorrect: every FIFO and register of the switch keeps its type.
THEOREM TypeCorrect == Spec => []TypeOK
BY RoutedAlways, PTL DEF IInv

\* RoutesCorrectly: no item is ever on a wire its destination excludes.
THEOREM RoutesCorrectly == Spec => []Routed
BY RoutedAlways, PTL DEF IInv

\* DeliversToDest: whatever the number of levels, every item comes out on the
\* lane rpa_input computed for its vertex.
THEOREM DeliversToDest == Spec => []Delivered
BY RoutedAlways, PTL DEF IInv

\* The path of an item: the wire of its flow at each level.
PathWire(x, l) == [i \in Level |-> IF i < l THEN x.dest[i] ELSE x.src[i]]

OnPath(x, p) ==
  \/ \E l \in Stage : p = LinkAt(l, PathWire(x, l))
  \/ \E l \in Level : \/ p = DistAt(l, PathWire(x, l))
                      \/ p = InnerAt(l, PathWire(x, l), x.dest[l])
                      \/ p = MergeAt(l, PathWire(x, l + 1))

SameFlow(x, y) == x.src = y.src /\ x.dest = y.dest

\* How far on the way a place is.
Rank(p) == 4 * p.level + p.kind

\* Item i of place p is ahead of item j of place r.
Ahead(p, i, r, j) == Rank(p) > Rank(r) \/ (p = r /\ i < j)

LEMMA Ranks ==
  /\ \A l \in Stage, w \in Wire : Rank(LinkAt(l, w)) = 4 * l
  /\ \A l \in Level, w \in Wire : /\ Rank(DistAt(l, w)) = 4 * l + 1
                                  /\ Rank(MergeAt(l, w)) = 4 * l + 3
  /\ \A l \in Level, w \in Wire, b \in Bit : Rank(InnerAt(l, w, b)) = 4 * l + 2
BY DEF Rank, LinkAt, DistAt, InnerAt, MergeAt, Stage, Level

\* A flow has one place of each rank.
LEMMA OnePlace ==
  ASSUME NEW x, NEW y, SameFlow(x, y), NEW p, NEW r, OnPath(x, p), OnPath(y, r),
         Rank(p) = Rank(r)
  PROVE  p = r
<1>1. \A l : PathWire(x, l) = PathWire(y, l)
  BY DEF PathWire, SameFlow
<1>2. PICK l \in Stage : \/ p = LinkAt(l, PathWire(x, l))
                         \/ p = DistAt(l, PathWire(x, l))
                         \/ p = InnerAt(l, PathWire(x, l), x.dest[l])
                         \/ p = MergeAt(l, PathWire(x, l + 1))
  BY LevelStage DEF OnPath
<1>3. PICK m \in Stage : \/ r = LinkAt(m, PathWire(y, m))
                         \/ r = DistAt(m, PathWire(y, m))
                         \/ r = InnerAt(m, PathWire(y, m), y.dest[m])
                         \/ r = MergeAt(m, PathWire(y, m + 1))
  BY LevelStage DEF OnPath
<1>4. l \in Int /\ m \in Int
  BY NetAssumption DEF Stage
<1>5. p.level = l /\ r.level = m /\ p.kind \in 0..3 /\ r.kind \in 0..3
  BY <1>2, <1>3 DEF LinkAt, DistAt, InnerAt, MergeAt
<1>6. l = m /\ p.kind = r.kind
  BY <1>4, <1>5 DEF Rank
<1>7. x.dest = y.dest
  BY DEF SameFlow
<1>8. CASE p.kind = 0
  <2>1. p = LinkAt(l, PathWire(x, l))
    BY <1>2, <1>8, KindOf
  <2>2. r = LinkAt(m, PathWire(y, m))
    <3>1. r.kind = 0
      BY <1>6, <1>8
    <3> QED
      BY <1>3, <3>1, KindOf
  <2> QED
    BY <1>1, <1>6, <1>7, <2>1, <2>2
<1>9. CASE p.kind = 1
  <2>1. p = DistAt(l, PathWire(x, l))
    BY <1>2, <1>9, KindOf
  <2>2. r = DistAt(m, PathWire(y, m))
    <3>1. r.kind = 1
      BY <1>6, <1>9
    <3> QED
      BY <1>3, <3>1, KindOf
  <2> QED
    BY <1>1, <1>6, <1>7, <2>1, <2>2
<1>10. CASE p.kind = 2
  <2>1. p = InnerAt(l, PathWire(x, l), x.dest[l])
    BY <1>2, <1>10, KindOf
  <2>2. r = InnerAt(m, PathWire(y, m), y.dest[m])
    <3>1. r.kind = 2
      BY <1>6, <1>10
    <3> QED
      BY <1>3, <3>1, KindOf
  <2> QED
    BY <1>1, <1>6, <1>7, <2>1, <2>2
<1>11. CASE p.kind = 3
  <2>1. p = MergeAt(l, PathWire(x, l + 1))
    BY <1>2, <1>11, KindOf
  <2>2. r = MergeAt(m, PathWire(y, m + 1))
    <3>1. r.kind = 3
      BY <1>6, <1>11
    <3> QED
      BY <1>3, <3>1, KindOf
  <2> QED
    BY <1>1, <1>6, <1>7, <2>1, <2>2
<1> QED
  BY <1>5, <1>8, <1>9, <1>10, <1>11

LEMMA RankInt == \A p \in Place : Rank(p) \in Int
BY Ranks, LevelStage, NetAssumption DEF Place, Stage

(***************************************************************************)
(* S[s][d] are the items sent from lane s to lane d and G[s][d] is the     *)
(* number of those that have come out.  The others are on the path of      *)
(* their flow, each once, and the earlier ones ahead.                      *)
(***************************************************************************)
Pending(x, S, G) ==
  /\ x.src \in Wire /\ x.dest \in Wire
  /\ x.no \in G[x.src][x.dest] + 1 .. Len(S[x.src][x.dest])
  /\ S[x.src][x.dest][x.no] = x

Located(P, S, G) ==
  \A p \in Place : \A i \in DOMAIN P[p] : Pending(P[p][i], S, G) /\ OnPath(P[p][i], p)

Ordered(P) ==
  \A p, r \in Place : \A i \in DOMAIN P[p], j \in DOMAIN P[r] :
    SameFlow(P[p][i], P[r][j]) /\ Ahead(p, i, r, j) => P[p][i].no < P[r][j].no

Present(P, S, G) ==
  \A s, d \in Wire : \A n \in G[s][d] + 1 .. Len(S[s][d]) :
    \E p \in Place : \E i \in DOMAIN P[p] : P[p][i] = S[s][d][n]

Flows(P, S, G) == Located(P, S, G) /\ Ordered(P) /\ Present(P, S, G)

\* An item that goes on along its path to the next place leaves the flows as they are.
LEMMA FlowMove ==
  ASSUME NEW T, NEW P \in [Place -> Seq(T)], NEW S, NEW G, Flows(P, S, G),
         NEW p \in Place, NEW r \in Place, p # r, P[p] # <<>>,
         OnPath(Head(P[p]), r), Rank(r) = Rank(p) + 1,
         NEW R, R = Onward(P, p, r)
  PROVE  R \in [Place -> Seq(T)] /\ Flows(R, S, G)
<1>1. /\ R \in [Place -> Seq(T)]
      /\ \A x \in Place : \A i \in DOMAIN R[x] :
           \E y \in Place : \E j \in DOMAIN P[y] :
             From(P, p, r, x, i, y, j) /\ R[x][i] = P[y][j]
      /\ \A y \in Place : \A j \in DOMAIN P[y] :
           \E x \in Place : \E i \in DOMAIN R[x] : R[x][i] = P[y][j]
  BY OnwardFrom
<1>2. /\ 1 \in DOMAIN P[p] /\ Head(P[p]) = P[p][1]
      /\ \A x \in Place : \A i \in DOMAIN P[x] : i \in Nat /\ i > 0
      /\ \A x \in Place : \A i \in DOMAIN R[x] : i \in Nat /\ i > 0
      /\ \A i \in DOMAIN P[r] : i < Len(P[r]) + 1
      /\ \A i \in DOMAIN R[r] : i <= Len(P[r]) + 1
      /\ Len(P[r]) \in Nat
  <2>1. \A q \in Seq(T) : DOMAIN q = 1..Len(q) /\ Len(q) \in Nat
    BY LenProperties
  <2>2. /\ P[p] \in Seq(T) /\ P[r] \in Seq(T)
        /\ \A x \in Place : P[x] \in Seq(T) /\ R[x] \in Seq(T)
    BY <1>1
  <2>3. Len(P[p]) > 0 /\ Head(P[p]) = P[p][1]
    BY <2>2, TailAt
  <2>4. R[r] = Append(P[r], Head(P[p]))
    BY DEF Onward, Put
  <2>5. DOMAIN R[r] = 1..Len(P[r]) + 1
    BY <2>2, <2>4, TailAt, AppendAt
  <2> QED
    BY <2>1, <2>2, <2>3, <2>5
<1>3. Located(R, S, G)
  <2> SUFFICES ASSUME NEW x \in Place, NEW i \in DOMAIN R[x]
               PROVE  Pending(R[x][i], S, G) /\ OnPath(R[x][i], x)
    BY DEF Located
  <2>1. PICK y \in Place : \E j \in DOMAIN P[y] :
               From(P, p, r, x, i, y, j) /\ R[x][i] = P[y][j]
    BY <1>1
  <2>2. PICK j \in DOMAIN P[y] : From(P, p, r, x, i, y, j) /\ R[x][i] = P[y][j]
    BY <2>1
  <2>3. Pending(R[x][i], S, G) /\ OnPath(R[x][i], y)
    BY <2>2 DEF Flows, Located
  <2>4. x = y \/ (x = r /\ R[x][i] = Head(P[p]))
    BY <1>2, <2>2 DEF From
  <2> QED
    BY <2>3, <2>4
<1>4. Ordered(R)
  <2> SUFFICES ASSUME NEW x \in Place, NEW i \in DOMAIN R[x],
                      NEW u \in Place, NEW k \in DOMAIN R[u],
                      SameFlow(R[x][i], R[u][k]), Ahead(x, i, u, k)
               PROVE  R[x][i].no < R[u][k].no
    BY DEF Ordered
  <2>y. PICK y \in Place : \E j \in DOMAIN P[y] :
               From(P, p, r, x, i, y, j) /\ R[x][i] = P[y][j]
    BY <1>1
  <2>1. PICK j \in DOMAIN P[y] : From(P, p, r, x, i, y, j) /\ R[x][i] = P[y][j]
    BY <2>y
  <2>v. PICK v \in Place : \E m \in DOMAIN P[v] :
               From(P, p, r, u, k, v, m) /\ R[u][k] = P[v][m]
    BY <1>1
  <2>2. PICK m \in DOMAIN P[v] : From(P, p, r, u, k, v, m) /\ R[u][k] = P[v][m]
    BY <2>v
  <2>3. OnPath(P[y][j], y) /\ OnPath(P[v][m], v) /\ SameFlow(P[y][j], P[v][m])
    BY <2>1, <2>2 DEF Flows, Located
  <2>4. Ahead(y, j, v, m)
    <3>i. /\ Rank(x) \in Int /\ Rank(y) \in Int /\ Rank(u) \in Int /\ Rank(v) \in Int
          /\ Rank(p) \in Int /\ Rank(r) \in Int
          /\ i \in Nat /\ j \in Nat /\ k \in Nat /\ m \in Nat /\ i > 0 /\ k > 0 /\ m > 0
      BY <1>2, RankInt
    <3>1. CASE x = y /\ u = v
      <4>1. (i < k /\ x = u) => j < m
        BY <1>2, <2>1, <2>2, <3>i, <3>1 DEF From
      <4> QED
        BY <3>1, <4>1 DEF Ahead
    <3>2. CASE x = y /\ u # v
      <4>1. u = r /\ v = p /\ k = Len(P[r]) + 1
        BY <2>2, <3>2 DEF From
      <4> QED
        BY <3>2, <3>i, <4>1 DEF Ahead
    <3>3. CASE x # y /\ u = v
      <4>1. x = r /\ y = p /\ j = 1 /\ i = Len(P[r]) + 1
        BY <2>1, <3>3 DEF From
      <4>2. ~(x = u /\ i < k)
        BY <1>2, <3>i, <4>1
      <4>3. Rank(v) <= Rank(p)
        BY <3>3, <3>i, <4>1, <4>2 DEF Ahead
      <4>4. CASE Rank(v) < Rank(p)
        BY <4>1, <4>4 DEF Ahead
      <4>5. CASE Rank(v) = Rank(p)
        <5>1. v = y
          BY <2>3, <4>1, <4>5, OnePlace
        <5>2. m = k + 1
          BY <2>2, <3>3, <4>1, <5>1 DEF From
        <5> QED
          BY <3>i, <4>1, <5>1, <5>2 DEF Ahead
      <4> QED
        BY <3>i, <4>3, <4>4, <4>5
    <3>4. CASE x # y /\ u # v
      <4>1. x = r /\ u = r /\ i = Len(P[r]) + 1 /\ k = Len(P[r]) + 1
        BY <2>1, <2>2, <3>4 DEF From
      <4> QED
        BY <3>i, <4>1 DEF Ahead
    <3> QED
      BY <3>1, <3>2, <3>3, <3>4
  <2> QED
    BY <2>1, <2>2, <2>3, <2>4 DEF Flows, Ordered
<1>5. Present(R, S, G)
  BY <1>1 DEF Flows, Present
<1> QED
  BY <1>1, <1>3, <1>4, <1>5 DEF Flows

\* The path starts on the wire of the source and ends on the one of the destination.
LEMMA PathEnds ==
  ASSUME NEW x, x.src \in Wire, x.dest \in Wire
  PROVE  /\ PathWire(x, 1) = x.src /\ PathWire(x, K + 1) = x.dest
         /\ OnPath(x, LinkAt(1, x.src))
         /\ \A w : OnPath(x, LinkAt(K + 1, w)) => w = x.dest
<1>1. \A i \in Level : ~(i < 1) /\ i < K + 1
  BY NetAssumption DEF Level
<1>2. PathWire(x, 1) = x.src /\ PathWire(x, K + 1) = x.dest
  <2>1. PathWire(x, 1) = [i \in Level |-> x.src[i]]
    BY <1>1 DEF PathWire
  <2>2. PathWire(x, K + 1) = [i \in Level |-> x.dest[i]]
    BY <1>1 DEF PathWire
  <2> QED
    BY <2>1, <2>2 DEF Wire
<1>3. ASSUME NEW w, OnPath(x, LinkAt(K + 1, w)) PROVE w = x.dest
  <2>1. PICK l : LinkAt(K + 1, w) = LinkAt(l, PathWire(x, l))
    BY <1>3, KindOf DEF OnPath
  <2> QED
    BY <1>2, <2>1, PlacesApart
<1> QED
  BY <1>2, <1>3, LevelStage DEF OnPath

LEMMA FirstRank == \A w \in Wire : \A p \in Place : Rank(p) >= Rank(LinkAt(1, w))
BY Ranks, LevelStage, NetAssumption DEF Place, Stage, Level

LEMMA LastRank == \A w \in Wire : \A p \in Place : Rank(p) <= Rank(LinkAt(K + 1, w))
BY Ranks, LevelStage, NetAssumption DEF Place, Stage, Level

\* Intervals that grow by one.
LEMMA OneMore ==
  ASSUME NEW g \in Nat, NEW n \in Nat, g <= n
  PROVE  /\ \A k : k \in g + 1 .. n =>
              k \in Int /\ k \in 1..n /\ k \in g + 1 .. n + 1 /\ k < n + 1
         /\ \A k \in g + 1 .. n + 1 : k \in Int /\ (k = n + 1 \/ k \in g + 1 .. n)
         /\ n + 1 \in g + 1 .. n + 1
OBVIOUS

\* x is appended to place p of P, and to flow s, d of S.
IsFirst(p) == \A r \in Place : Rank(r) \in Int /\ Rank(r) >= Rank(p)

AtPlace(P, R, p, x, M) ==
  /\ \A r \in Place : r # p => R[r] = P[r]
  /\ DOMAIN P[p] = 1..M /\ DOMAIN R[p] = 1..M + 1
  /\ \A i \in 1..M : R[p][i] = P[p][i]
  /\ R[p][M + 1] = x

OnFlow(S, U, s, d, x, N) ==
  /\ \A a, b \in Wire : ~(a = s /\ b = d) => U[a][b] = S[a][b]
  /\ Len(U[s][d]) = N + 1
  /\ \A n \in 1..N : U[s][d][n] = S[s][d][n]
  /\ U[s][d][N + 1] = x

\* An item that enters is the last one of its flow.
LEMMA EnterFlows ==
  ASSUME NEW P, NEW S, NEW G, Flows(P, S, G),
         NEW s \in Wire, NEW d \in Wire, NEW x, x.src = s, x.dest = d,
         NEW M \in Nat, NEW N \in Nat, N = Len(S[s][d]), G[s][d] \in Nat, G[s][d] <= N,
         x.no = N + 1,
         NEW p \in Place, OnPath(x, p), IsFirst(p),
         NEW R, AtPlace(P, R, p, x, M),
         NEW U, OnFlow(S, U, s, d, x, N)
  PROVE  Flows(R, U, G)
<1> \A r \in Place : Rank(r) \in Int /\ Rank(r) >= Rank(p)
  BY DEF IsFirst
<1> /\ \A r \in Place : r # p => R[r] = P[r]
    /\ DOMAIN P[p] = 1..M /\ DOMAIN R[p] = 1..M + 1 /\ \A i \in 1..M : R[p][i] = P[p][i]
    /\ R[p][M + 1] = x
  BY DEF AtPlace
<1> /\ \A a, b \in Wire : ~(a = s /\ b = d) => U[a][b] = S[a][b]
    /\ Len(U[s][d]) = N + 1 /\ \A n \in 1..N : U[s][d][n] = S[s][d][n]
    /\ U[s][d][N + 1] = x
  BY DEF OnFlow
<1>0. /\ \A n : n \in G[s][d] + 1 .. N =>
           n \in Int /\ n \in 1..N /\ n \in G[s][d] + 1 .. N + 1 /\ n < N + 1
      /\ \A n \in G[s][d] + 1 .. N + 1 : n = N + 1 \/ n \in G[s][d] + 1 .. N
      /\ N + 1 \in G[s][d] + 1 .. N + 1
  BY OneMore
<1>1. /\ \A i \in 1..M + 1 : i \in Int /\ i <= M + 1 /\ (i = M + 1 \/ i \in 1..M)
      /\ \A i \in 1..M : i \in 1..M + 1
      /\ M + 1 \in 1..M + 1
  OBVIOUS
\* What was pending still is, and x is.
<1>7. \A y : Pending(y, S, G) => Pending(y, U, G)
  <2> SUFFICES ASSUME NEW y, Pending(y, S, G) PROVE Pending(y, U, G)
    OBVIOUS
  <2>1. CASE y.src = s /\ y.dest = d
    BY <1>0, <2>1 DEF Pending
  <2>2. CASE ~(y.src = s /\ y.dest = d)
    BY <2>2 DEF Pending
  <2> QED
    BY <2>1, <2>2
<1>8. Pending(x, U, G)
  BY <1>0 DEF Pending
\* An item of R is x or was there.
<1>9. \A r \in Place : \A i \in DOMAIN R[r] :
        \/ r = p /\ i = M + 1 /\ R[r][i] = x
        \/ i \in DOMAIN P[r] /\ R[r][i] = P[r][i]
  <2> TAKE r \in Place
  <2>1. CASE r = p
    BY <1>1, <2>1
  <2>2. CASE r # p
    BY <2>2
  <2> QED
    BY <2>1, <2>2
<1>10. Located(R, U, G)
  BY <1>7, <1>8, <1>9 DEF Flows, Located
<1>11. Ordered(R)
  <2> SUFFICES ASSUME NEW r \in Place, NEW i \in DOMAIN R[r],
                      NEW u \in Place, NEW k \in DOMAIN R[u],
                      SameFlow(R[r][i], R[u][k]), Ahead(r, i, u, k)
               PROVE  R[r][i].no < R[u][k].no
    BY DEF Ordered
  <2>1. ~(r = p /\ i = M + 1)
    <3>1. p = u => k <= M + 1 /\ k \in Int
      BY <1>1
    <3>2. Rank(u) >= Rank(p) /\ Rank(u) \in Int /\ Rank(p) \in Int
      OBVIOUS
    <3> QED
      BY <3>1, <3>2 DEF Ahead
  <2>2. i \in DOMAIN P[r] /\ R[r][i] = P[r][i]
    BY <1>9, <2>1
  <2>3. CASE u = p /\ k = M + 1
    <3>1. Pending(P[r][i], S, G) /\ P[r][i].src = s /\ P[r][i].dest = d
      BY <2>2, <2>3 DEF Flows, Located, SameFlow
    <3> QED
      BY <1>0, <2>2, <2>3, <3>1 DEF Pending
  <2>4. CASE ~(u = p /\ k = M + 1)
    <3>1. k \in DOMAIN P[u] /\ R[u][k] = P[u][k]
      BY <1>9, <2>4
    <3> QED
      BY <2>2, <3>1 DEF Flows, Ordered
  <2> QED
    BY <2>3, <2>4
<1>12. Present(R, U, G)
  <2>1. \A r \in Place : \A i \in DOMAIN P[r] : i \in DOMAIN R[r] /\ R[r][i] = P[r][i]
    <3> TAKE r \in Place
    <3>1. CASE r = p
      BY <1>1, <3>1
    <3>2. CASE r # p
      BY <3>2
    <3> QED
      BY <3>1, <3>2
  <2> SUFFICES ASSUME NEW a \in Wire, NEW b \in Wire, NEW n \in G[a][b] + 1 .. Len(U[a][b])
               PROVE  \E r \in Place : \E i \in DOMAIN R[r] : R[r][i] = U[a][b][n]
    BY DEF Present
  <2>3. CASE a = s /\ b = d /\ n = N + 1
    BY <1>1, <2>3
  <2>4. CASE ~(a = s /\ b = d /\ n = N + 1)
    <3>1. n \in G[a][b] + 1 .. Len(S[a][b]) /\ U[a][b][n] = S[a][b][n]
      <4>1. CASE a = s /\ b = d
        BY <1>0, <2>4, <4>1
      <4>2. CASE ~(a = s /\ b = d)
        BY <4>2
      <4> QED
        BY <4>1, <4>2
    <3>2. PICK r \in Place : \E i \in DOMAIN P[r] : P[r][i] = S[a][b][n]
      BY <3>1 DEF Flows, Present
    <3> QED
      BY <2>1, <3>1, <3>2
  <2> QED
    BY <2>3, <2>4
<1> QED
  BY <1>10, <1>11, <1>12 DEF Flows

\* Intervals whose first element is dropped.
LEMMA OneLess ==
  ASSUME NEW g \in Nat, NEW n \in Nat, NEW m \in g + 1 .. n
  PROVE  /\ g + 1 \in g + 1 .. n /\ g + 1 \in 1..n /\ m \in Int /\ m >= g + 1
         /\ \A k : k \in g + 1 .. n /\ k > g + 1 => k \in (g + 1) + 1 .. n
         /\ \A k : k \in (g + 1) + 1 .. n => k \in g + 1 .. n /\ k \in 1..n /\ k > g + 1
OBVIOUS

Numbered(S) ==
  \A s, d \in Wire : \A n \in 1..Len(S[s][d]) :
    S[s][d][n].src = s /\ S[s][d][n].dest = d /\ S[s][d][n].no = n

Counted(S, G) == \A s, d \in Wire : G[s][d] \in Nat /\ Len(S[s][d]) \in Nat
IsLast(p)     == \A r \in Place : Rank(r) \in Int /\ Rank(r) <= Rank(p)
Indexed(P)    == \A p \in Place : \A i \in DOMAIN P[p] : i \in Nat /\ i > 0

\* The head of the last place is the first item of its flow.
LEMMA FirstOfFlow ==
  ASSUME NEW P, NEW S, NEW G, Flows(P, S, G), Numbered(S),
         Counted(S, G),
         NEW p \in Place, IsLast(p),
         1 \in DOMAIN P[p], NEW x, x = P[p][1], Indexed(P)
  PROVE  /\ Pending(x, S, G) /\ x.no = G[x.src][x.dest] + 1
         /\ \A r \in Place : \A i \in DOMAIN P[r] :
              SameFlow(x, P[r][i]) /\ ~(r = p /\ i = 1) => x.no < P[r][i].no
<1>s. PICK s : s = x.src
  OBVIOUS
<1>d. PICK d : d = x.dest
  OBVIOUS
<1>1. Pending(x, S, G) /\ OnPath(x, p) /\ s \in Wire /\ d \in Wire
  BY <1>s, <1>d DEF Flows, Located, Pending
<1>2. \A r \in Place : \A i \in DOMAIN P[r] :
        SameFlow(x, P[r][i]) /\ ~(r = p /\ i = 1) => x.no < P[r][i].no
  <2> SUFFICES ASSUME NEW r \in Place, NEW i \in DOMAIN P[r],
                      SameFlow(x, P[r][i]), ~(r = p /\ i = 1)
               PROVE  x.no < P[r][i].no
    OBVIOUS
  <2>1. Rank(r) \in Int /\ Rank(p) \in Int /\ Rank(r) <= Rank(p) /\ i \in Nat /\ i > 0
    BY DEF IsLast, Indexed
  <2>2. Rank(r) = Rank(p) => r = p
    BY <1>1, OnePlace DEF Flows, Located
  <2>3. Ahead(p, 1, r, i)
    BY <2>1, <2>2 DEF Ahead
  <2> QED
    BY <2>3 DEF Flows, Ordered
<1>3. /\ G[s][d] \in Nat /\ Len(S[s][d]) \in Nat
      /\ x.no \in G[s][d] + 1 .. Len(S[s][d]) /\ S[s][d][x.no] = x
  BY <1>1, <1>s, <1>d DEF Pending, Counted
<1>g. PICK g : g = G[s][d]
  OBVIOUS
<1>n. PICK N : N = Len(S[s][d])
  OBVIOUS
<1>4. /\ g + 1 \in g + 1 .. N /\ g + 1 \in 1..N /\ x.no \in Int /\ x.no >= g + 1
      /\ \A n : n \in g + 1 .. N /\ n > g + 1 => n \in (g + 1) + 1 .. N
      /\ \A n : n \in (g + 1) + 1 .. N => n \in g + 1 .. N /\ n \in 1..N /\ n > g + 1
  <2>1. g \in Nat /\ N \in Nat /\ x.no \in g + 1 .. N
    BY <1>3, <1>g, <1>n
  <2> QED
    BY <2>1, OneLess
<1>5. x.no = g + 1
  <2>k. PICK k : k = g + 1
    OBVIOUS
  <2>1. k \in G[s][d] + 1 .. Len(S[s][d]) /\ k \in 1..Len(S[s][d])
    BY <1>4, <1>g, <1>n, <2>k
  <2>2. PICK r \in Place : \E i \in DOMAIN P[r] : P[r][i] = S[s][d][k]
    <3>1. \A n \in G[s][d] + 1 .. Len(S[s][d]) :
            \E r \in Place : \E i \in DOMAIN P[r] : P[r][i] = S[s][d][n]
      BY <1>1 DEF Flows, Present
    <3> QED
      BY <2>1, <3>1
  <2>3. PICK i \in DOMAIN P[r] : P[r][i] = S[s][d][k]
    BY <2>2
  <2>4. P[r][i].src = s /\ P[r][i].dest = d /\ P[r][i].no = k
    <3>1. \A n \in 1..Len(S[s][d]) :
            S[s][d][n].src = s /\ S[s][d][n].dest = d /\ S[s][d][n].no = n
      BY <1>1 DEF Numbered
    <3> QED
      BY <2>1, <2>3, <3>1
  <2>5. CASE r = p /\ i = 1
    BY <2>4, <2>5, <2>k
  <2>6. CASE ~(r = p /\ i = 1)
    <3>1. x.no < k
      BY <1>2, <1>s, <1>d, <2>4, <2>6 DEF SameFlow
    <3> QED
      BY <1>4, <2>k, <3>1
  <2> QED
    BY <2>5, <2>6
<1> QED
  BY <1>1, <1>2, <1>5, <1>g, <1>s, <1>d

\* The head is taken from place p of P.
TakenAt(P, R, p, L) ==
  /\ \A r \in Place : r # p => R[r] = P[r]
  /\ L > 0 /\ DOMAIN P[p] = 1..L /\ DOMAIN R[p] = 1..L - 1
  /\ \A i \in 1..L - 1 : R[p][i] = P[p][i + 1]

OneOut(G, H, s, d) ==
  /\ H[s][d] = G[s][d] + 1
  /\ \A a, b \in Wire : ~(a = s /\ b = d) => H[a][b] = G[a][b]

Leaving(P, S, G, p, L, x, R, H) ==
  /\ Flows(P, S, G) /\ Numbered(S) /\ Counted(S, G) /\ Indexed(P)
  /\ p \in Place /\ IsLast(p) /\ L \in Nat /\ x = P[p][1]
  /\ TakenAt(P, R, p, L)
  /\ OneOut(G, H, x.src, x.dest)

\* The item that leaves is the first one of its flow.
LEMMA LeaveFlows ==
  ASSUME NEW P, NEW S, NEW G, NEW p, NEW L, NEW x, NEW R, NEW H,
         Leaving(P, S, G, p, L, x, R, H)
  PROVE  Pending(x, S, G) /\ x.no = G[x.src][x.dest] + 1 /\ Flows(R, S, H)
<1>s. PICK s : s = x.src
  OBVIOUS
<1>d. PICK d : d = x.dest
  OBVIOUS
<1> s = x.src /\ d = x.dest
  BY <1>s, <1>d
<1> /\ Flows(P, S, G) /\ Numbered(S) /\ Counted(S, G) /\ Indexed(P)
    /\ p \in Place /\ IsLast(p) /\ L \in Nat /\ x = P[p][1]
    /\ TakenAt(P, R, p, L) /\ OneOut(G, H, x.src, x.dest)
  BY DEF Leaving
<1> H[s][d] = G[s][d] + 1 /\ \A a, b \in Wire : ~(a = s /\ b = d) => H[a][b] = G[a][b]
  BY DEF OneOut
<1> /\ \A r \in Place : r # p => R[r] = P[r]
    /\ L > 0 /\ DOMAIN P[p] = 1..L /\ DOMAIN R[p] = 1..L - 1
    /\ \A i \in 1..L - 1 : R[p][i] = P[p][i + 1]
  BY DEF TakenAt
<1>0. /\ 1 \in 1..L
      /\ \A i \in 1..L : i \in Int /\ (i = 1 \/ (i - 1 \in 1..L - 1 /\ (i - 1) + 1 = i))
      /\ \A i \in 1..L - 1 : i \in Int /\ i + 1 \in 1..L /\ i + 1 # 1
  OBVIOUS
<1>1. /\ Pending(x, S, G) /\ x.no = G[s][d] + 1 /\ OnPath(x, p) /\ s \in Wire /\ d \in Wire
      /\ \A r \in Place : \A i \in DOMAIN P[r] :
           SameFlow(x, P[r][i]) /\ ~(r = p /\ i = 1) => x.no < P[r][i].no
  <2>1. 1 \in DOMAIN P[p]
    BY <1>0
  <2>2. /\ Pending(x, S, G) /\ x.no = G[x.src][x.dest] + 1
        /\ \A r \in Place : \A i \in DOMAIN P[r] :
             SameFlow(x, P[r][i]) /\ ~(r = p /\ i = 1) => x.no < P[r][i].no
    BY <2>1, FirstOfFlow
  <2>3. OnPath(x, p)
    BY <2>1 DEF Flows, Located
  <2> QED
    BY <2>2, <2>3 DEF Pending
<1>g. PICK g : g = G[s][d]
  OBVIOUS
<1>n. PICK N : N = Len(S[s][d])
  OBVIOUS
<1>3. g \in Nat /\ N \in Nat /\ x.no \in g + 1 .. N /\ S[s][d][x.no] = x /\ x.no = g + 1
  BY <1>1, <1>g, <1>n DEF Pending, Counted
<1>4. /\ \A n : n \in g + 1 .. N /\ n > g + 1 => n \in (g + 1) + 1 .. N
      /\ \A n : n \in (g + 1) + 1 .. N => n \in g + 1 .. N /\ n \in 1..N /\ n > g + 1
  BY <1>3, OneLess
\* An item of R was there, and is not x.
<1>6. \A r \in Place : \A i \in DOMAIN R[r] :
        \E j \in DOMAIN P[r] : /\ R[r][i] = P[r][j] /\ ~(r = p /\ j = 1)
                               /\ j = IF r = p THEN i + 1 ELSE i
  <2> TAKE r \in Place
  <2>1. CASE r = p
    BY <1>0, <2>1
  <2>2. CASE r # p
    BY <2>2
  <2> QED
    BY <2>1, <2>2
<1>7. Located(R, S, H)
  <2> SUFFICES ASSUME NEW r \in Place, NEW i \in DOMAIN R[r]
               PROVE  Pending(R[r][i], S, H) /\ OnPath(R[r][i], r)
    BY DEF Located
  <2>1. PICK j \in DOMAIN P[r] : R[r][i] = P[r][j] /\ ~(r = p /\ j = 1)
    BY <1>6
  <2>2. Pending(R[r][i], S, G) /\ OnPath(R[r][i], r)
    BY <2>1 DEF Flows, Located
  <2>3. CASE R[r][i].src = s /\ R[r][i].dest = d
    <3>1. x.no < R[r][i].no
      BY <1>1, <2>1, <2>3 DEF SameFlow
    <3>2. R[r][i].no \in g + 1 .. N
      BY <1>g, <1>n, <2>2, <2>3 DEF Pending
    <3>3. R[r][i].no \in (g + 1) + 1 .. N
      BY <1>3, <1>4, <3>1, <3>2
    <3> QED
      BY <1>g, <1>n, <2>2, <2>3, <3>3 DEF Pending
  <2>4. CASE ~(R[r][i].src = s /\ R[r][i].dest = d)
    BY <2>2, <2>4 DEF Pending
  <2> QED
    BY <2>2, <2>3, <2>4
<1>8. Ordered(R)
  <2> SUFFICES ASSUME NEW r \in Place, NEW i \in DOMAIN R[r],
                      NEW u \in Place, NEW k \in DOMAIN R[u],
                      SameFlow(R[r][i], R[u][k]), Ahead(r, i, u, k)
               PROVE  R[r][i].no < R[u][k].no
    BY DEF Ordered
  <2>1. PICK j \in DOMAIN P[r] : R[r][i] = P[r][j] /\ j = IF r = p THEN i + 1 ELSE i
    BY <1>6
  <2>2. PICK m \in DOMAIN P[u] : R[u][k] = P[u][m] /\ m = IF u = p THEN k + 1 ELSE k
    BY <1>6
  <2>3. (r = u /\ i < k) => j < m
    <3>1. CASE r = p /\ u = p
      <4>1. i \in Int /\ k \in Int
        BY <1>0, <3>1
      <4> QED
        BY <2>1, <2>2, <3>1, <4>1
    <3>2. CASE ~(r = p /\ u = p)
      BY <2>1, <2>2, <3>2
    <3> QED
      BY <3>1, <3>2
  <2>4. Ahead(r, j, u, m)
    BY <2>3 DEF Ahead
  <2> QED
    BY <2>1, <2>2, <2>4 DEF Flows, Ordered
<1>9. Present(R, S, H)
  <2> SUFFICES ASSUME NEW a \in Wire, NEW b \in Wire, NEW n \in H[a][b] + 1 .. Len(S[a][b])
               PROVE  \E r \in Place : \E i \in DOMAIN R[r] : R[r][i] = S[a][b][n]
    BY DEF Present
  <2>1. n \in G[a][b] + 1 .. Len(S[a][b]) /\ n \in 1..Len(S[a][b])
        /\ (a = s /\ b = d => n # x.no)
    <3>1. CASE a = s /\ b = d
      <4>1. n \in (g + 1) + 1 .. N
        BY <1>g, <1>n, <3>1
      <4>2. n \in g + 1 .. N /\ n \in 1..N /\ n # g + 1
        BY <1>4, <4>1
      <4> QED
        BY <1>3, <1>g, <1>n, <3>1, <4>2
    <3>2. CASE ~(a = s /\ b = d)
      <4>1. n \in G[a][b] + 1 .. Len(S[a][b]) /\ G[a][b] \in Nat /\ Len(S[a][b]) \in Nat
        BY <3>2 DEF Counted
      <4> QED
        BY <3>2, <4>1
    <3> QED
      BY <3>1, <3>2
  <2>2. PICK r \in Place : \E i \in DOMAIN P[r] : P[r][i] = S[a][b][n]
    BY <2>1 DEF Flows, Present
  <2>3. PICK i \in DOMAIN P[r] : P[r][i] = S[a][b][n]
    BY <2>2
  <2>4. ~(r = p /\ i = 1)
    BY <2>1, <2>3 DEF Numbered
  <2>5. CASE r = p
    <3>1. i - 1 \in 1..L - 1 /\ (i - 1) + 1 = i
      BY <1>0, <2>4, <2>5
    <3>2. i - 1 \in DOMAIN R[r] /\ R[r][i - 1] = P[r][i]
      BY <2>5, <3>1
    <3> QED
      BY <2>3, <3>2
  <2>6. CASE r # p
    BY <2>3, <2>6
  <2> QED
    BY <2>5, <2>6
<1> QED
  BY <1>1, <1>7, <1>8, <1>9 DEF Flows

-----------------------------------------------------------------------------
\* The items of a channel that have come out.
Count(q, s) == Cardinality({i \in DOMAIN q : q[i].src = s})

LEMMA CountAppend ==
  ASSUME NEW T, NEW q \in Seq(T), NEW x \in T, NEW s
  PROVE  /\ Count(q, s) \in Nat /\ Count(<<>>, s) = 0
         /\ Count(Append(q, x), s) = IF x.src = s THEN Count(q, s) + 1 ELSE Count(q, s)
<1> DEFINE old == {i \in DOMAIN q : q[i].src = s}
           new == {i \in DOMAIN Append(q, x) : Append(q, x)[i].src = s}
           n   == Len(q) + 1
<1>1. /\ DOMAIN q = 1..Len(q) /\ Len(q) \in Nat /\ DOMAIN Append(q, x) = 1..n
      /\ \A i \in 1..Len(q) : Append(q, x)[i] = q[i]
      /\ Append(q, x)[n] = x
  BY AppendAt
<1>2. IsFiniteSet(old) /\ Cardinality(old) \in Nat
  <2>1. IsFiniteSet(1..Len(q)) /\ old \in SUBSET (1..Len(q))
    BY <1>1, FS_Interval
  <2>2. IsFiniteSet(old)
    BY <2>1, FS_Subset
  <2> QED
    BY <2>2, FS_CardinalityType
<1>3. n \notin old /\ 1..n = 1..Len(q) \cup {n} /\ n \notin 1..Len(q)
  BY <1>1
<1>4. new = IF x.src = s THEN old \cup {n} ELSE old
  <2>1. \A i : i \in new <=> (i \in old \/ (i = n /\ x.src = s))
    BY <1>1, <1>3
  <2> HIDE DEF old, new, n
  <2> QED
    BY <2>1
<1>5. Cardinality(old \cup {n}) = Cardinality(old) + 1
  BY <1>2, <1>3, FS_AddElement
<1>6. Count(<<>>, s) = 0
  <2>1. {i \in DOMAIN <<>> : <<>>[i].src = s} = {}
    OBVIOUS
  <2> QED
    BY <2>1, FS_EmptySet DEF Count
<1>7. Count(q, s) = Cardinality(old) /\ Count(Append(q, x), s) = Cardinality(new)
  BY DEF Count
<1> HIDE DEF old, new, n
<1> QED
  BY <1>2, <1>4, <1>5, <1>6, <1>7

\* What is left of a flow, when an item comes out and when one enters.
LEMMA RestTail ==
  ASSUME NEW T, NEW q \in Seq(T), NEW g \in Nat, g < Len(q)
  PROVE  /\ SubSeq(q, g + 1, Len(q)) # <<>>
         /\ Head(SubSeq(q, g + 1, Len(q))) = q[g + 1]
         /\ Tail(SubSeq(q, g + 1, Len(q))) = SubSeq(q, (g + 1) + 1, Len(q))
<1>1. Len(q) \in Nat /\ \A i \in 1..Len(q) : q[i] \in T
  BY LenProperties
<1>2. g + 1 \in 1..Len(q) /\ Len(q) \in g + 1 .. Len(q)
  BY <1>1
<1>3. /\ Head(SubSeq(q, g + 1, Len(q))) = q[g + 1]
      /\ Tail(SubSeq(q, g + 1, Len(q))) = SubSeq(q, (g + 1) + 1, Len(q))
  BY <1>2, HeadTailOfSubSeq
<1>4. Len(SubSeq(q, g + 1, Len(q))) # 0
  <2>1. \A i \in g + 1 .. Len(q) : q[i] \in T
    BY <1>1
  <2>2. Len(SubSeq(q, g + 1, Len(q))) = Len(q) - (g + 1) + 1
    BY <1>1, <2>1, SubSeqProperties
  <2> QED
    BY <1>1, <2>2
<1>5. SubSeq(q, g + 1, Len(q)) # <<>>
  <2>1. PICK t : t = SubSeq(q, g + 1, Len(q))
    OBVIOUS
  <2>2. Len(t) # 0 /\ Len(<<>>) = 0
    BY <1>4, <2>1, EmptySeq
  <2> QED
    BY <2>1, <2>2
<1> QED
  BY <1>3, <1>5

LEMMA RestAppend ==
  ASSUME NEW T, NEW q \in Seq(T), NEW x \in T, NEW g \in Nat, g <= Len(q)
  PROVE  SubSeq(Append(q, x), g + 1, Len(Append(q, x))) = Append(SubSeq(q, g + 1, Len(q)), x)
<1>n. PICK n : n = Len(q)
  OBVIOUS
<1>a. PICK a : a = Append(q, x)
  OBVIOUS
<1>1. /\ n \in Nat /\ Len(a) = n + 1 /\ a \in Seq(T)
      /\ \A i \in 1..n : a[i] = q[i]
      /\ a[n + 1] = x
  BY <1>n, <1>a, AppendAt
<1>2. \A i \in 1..n : q[i] \in T
  BY <1>n, LenProperties
<1>l. PICK l : l = SubSeq(a, g + 1, n + 1)
  OBVIOUS
<1>r. PICK r : r = SubSeq(q, g + 1, n)
  OBVIOUS
<1>3. r \in Seq(T) /\ Len(r) = n - g /\ \A i \in 1..n - g : r[i] = q[g + i]
  <2>1. \A i \in g + 1 .. n : q[i] \in T
    BY <1>1, <1>2
  <2>2. /\ r \in Seq(T)
        /\ Len(r) = IF g + 1 <= n THEN n - (g + 1) + 1 ELSE 0
        /\ \A i \in 1 .. n - (g + 1) + 1 : r[i] = q[(g + 1) + i - 1]
    BY <1>1, <1>r, <2>1, SubSeqProperties
  <2>3. g <= n
    BY <1>n
  <2> QED
    BY <1>1, <2>2, <2>3
<1>4. l \in Seq(T) /\ Len(l) = n + 1 - g /\ \A i \in 1..n + 1 - g : l[i] = a[g + i]
  <2>1. \A i \in g + 1 .. n + 1 : a[i] \in T
    <3>1. \A i \in g + 1 .. n + 1 : i = n + 1 \/ i \in 1..n
      BY <1>1
    <3> QED
      BY <1>1, <1>2, <3>1
  <2>2. /\ l \in Seq(T)
        /\ Len(l) = IF g + 1 <= n + 1 THEN (n + 1) - (g + 1) + 1 ELSE 0
        /\ \A i \in 1 .. (n + 1) - (g + 1) + 1 : l[i] = a[(g + 1) + i - 1]
    BY <1>1, <1>l, <2>1, SubSeqProperties
  <2>3. g <= n
    BY <1>n
  <2> QED
    BY <1>1, <2>2, <2>3
<1>5. /\ Append(r, x) \in Seq(T) /\ Len(Append(r, x)) = n - g + 1
      /\ \A i \in 1..n - g : Append(r, x)[i] = r[i]
      /\ Append(r, x)[n - g + 1] = x
  BY <1>3, AppendAt
<1>6. \A i \in 1..Len(l) : l[i] = Append(r, x)[i]
  <2> TAKE i \in 1..Len(l)
  <2>1. n - g \in Nat /\ n + 1 - g = n - g + 1
    BY <1>1, <1>n
  <2>2. CASE i = n - g + 1
    <3>1. g + i = n + 1
      BY <1>1, <2>2
    <3> QED
      BY <1>1, <1>4, <1>5, <2>2, <3>1
  <2>3. CASE i # n - g + 1
    <3>1. i \in 1..n - g
      BY <1>4, <2>1, <2>3
    <3>2. g + i \in 1..n
      BY <1>1, <3>1
    <3> QED
      BY <1>1, <1>3, <1>4, <1>5, <3>1, <3>2
  <2> QED
    BY <2>2, <2>3
<1>7. Len(l) = Len(Append(r, x))
  BY <1>1, <1>4, <1>5
<1>8. l = Append(r, x)
  BY <1>4, <1>5, <1>6, <1>7, SeqEqual
<1> QED
  BY <1>1, <1>8, <1>n, <1>a, <1>l, <1>r

\* The places of a path follow each other.
LEMMA PathStep ==
  ASSUME NEW x, NEW l \in Level, NEW w \in Wire
  PROVE  /\ OnPath(x, LinkAt(l, w)) => OnPath(x, DistAt(l, w))
         /\ OnPath(x, DistAt(l, w)) => OnPath(x, InnerAt(l, w, x.dest[l]))
         /\ \A c \in Bit :
              OnPath(x, InnerAt(l, Turn(w, l, c), w[l])) => OnPath(x, MergeAt(l, w))
         /\ OnPath(x, MergeAt(l, w)) => OnPath(x, LinkAt(l + 1, w))
<1>1. ASSUME OnPath(x, LinkAt(l, w)) PROVE OnPath(x, DistAt(l, w))
  <2>1. PICK m : LinkAt(l, w) = LinkAt(m, PathWire(x, m))
    BY <1>1, KindOf DEF OnPath
  <2>2. w = PathWire(x, l)
    BY <2>1, PlacesApart
  <2> QED
    BY <2>2 DEF OnPath
<1>2. ASSUME OnPath(x, DistAt(l, w)) PROVE OnPath(x, InnerAt(l, w, x.dest[l]))
  <2>1. PICK m : DistAt(l, w) = DistAt(m, PathWire(x, m))
    BY <1>2, KindOf DEF OnPath
  <2>2. w = PathWire(x, l)
    BY <2>1, PlacesApart
  <2> QED
    BY <2>2 DEF OnPath
<1>3. ASSUME NEW c \in Bit, OnPath(x, InnerAt(l, Turn(w, l, c), w[l]))
      PROVE  OnPath(x, MergeAt(l, w))
  <2>1. PICK m : InnerAt(l, Turn(w, l, c), w[l]) = InnerAt(m, PathWire(x, m), x.dest[m])
    BY <1>3, KindOf DEF OnPath
  <2>2. Turn(w, l, c) = PathWire(x, l) /\ w[l] = x.dest[l]
    BY <2>1, PlacesApart
  <2>3. ASSUME NEW i \in Level PROVE PathWire(x, l + 1)[i] = w[i]
    <3>1. l \in Int /\ i \in Int
      BY DEF Level
    <3>2. PathWire(x, l + 1)[i] = IF i < l + 1 THEN x.dest[i] ELSE x.src[i]
      BY DEF PathWire
    <3>3. CASE i = l
      BY <2>2, <3>1, <3>2, <3>3
    <3>4. CASE i # l
      <4>1. w[i] = PathWire(x, l)[i]
        BY <2>2, <3>4, TurnWire
      <4>2. PathWire(x, l)[i] = IF i < l THEN x.dest[i] ELSE x.src[i]
        BY DEF PathWire
      <4>3. (i < l + 1) <=> (i < l)
        BY <3>1, <3>4
      <4> QED
        BY <3>2, <4>1, <4>2, <4>3
    <3> QED
      BY <3>3, <3>4
  <2>4. PathWire(x, l + 1) = w
    <3>1. w = [i \in Level |-> w[i]]
      BY DEF Wire
    <3>2. PathWire(x, l + 1) = [i \in Level |-> PathWire(x, l + 1)[i]]
      BY DEF PathWire
    <3> QED
      BY <2>3, <3>1, <3>2
  <2> QED
    BY <2>4 DEF OnPath
<1>4. ASSUME OnPath(x, MergeAt(l, w)) PROVE OnPath(x, LinkAt(l + 1, w))
  <2>1. PICK m : MergeAt(l, w) = MergeAt(m, PathWire(x, m + 1))
    BY <1>4, KindOf DEF OnPath
  <2>2. w = PathWire(x, l + 1)
    BY <2>1, PlacesApart
  <2> QED
    BY <2>2, LevelStage DEF OnPath
<1> QED
  BY <1>1, <1>2, <1>3, <1>4

\* A distributor has turned its item to the port of its destination.
Committed ==
  \A l \in Level, w \in Wire : \A i \in DOMAIN dist[l][w] :
    dist[l][w][i].port = dist[l][w][i].item.dest[l]

GotAll == [s \in Wire |-> [d \in Wire |-> Got(s, d)]]

Tracked(P) == IsNet(P) /\ Flows(P, sent, GotAll)

SwitchInv ==
  /\ NetShape(Item) /\ Committed
  /\ sent \in [Wire -> [Wire -> Seq(Item)]] /\ recv \in [Wire -> Seq(Item)]
  /\ Numbered(sent)
  /\ \A s, d \in Wire : Got(s, d) \in Nat /\ Got(s, d) <= Len(sent[s][d])
  /\ \E P \in [Place -> Seq(Item)] : Tracked(P)

LEMMA HeadIsOnPath ==
  ASSUME NEW P \in [Place -> Seq(Item)], NEW S, NEW G, Flows(P, S, G),
         NEW p \in Place, P[p] # <<>>
  PROVE  Pending(Head(P[p]), S, G) /\ OnPath(Head(P[p]), p) /\ Head(P[p]) \in Item
<1>1. P[p] \in Seq(Item)
  OBVIOUS
<1>2. 1 \in DOMAIN P[p] /\ Head(P[p]) = P[p][1] /\ Head(P[p]) \in Item
  BY <1>1, TailAt
<1> QED
  BY <1>2 DEF Flows, Located

\* A step inside of the network, as the crossbar sees it.
LEMMA InsideStep ==
  ASSUME SwitchInv, UNCHANGED <<sent, recv>>, NEW P \in [Place -> Seq(Item)], Tracked(P),
         NEW p \in Place, NEW r \in Place, p # r, P[p] # <<>>,
         OnPath(Head(P[p]), r), Rank(r) = Rank(p) + 1,
         NEW R, R = Onward(P, p, r), NetShape(Item)', IsNet(R)', Committed'
  PROVE  SwitchInv' /\ UNCHANGED Switch!vars
<1>1. R \in [Place -> Seq(Item)] /\ Flows(R, sent, GotAll)
  BY FlowMove DEF Tracked
<1>2. /\ \A s, d \in Wire : Got(s, d)' = Got(s, d) /\ Channel(s, d)' = Channel(s, d)
      /\ GotAll' = GotAll /\ sent' = sent
  BY DEF Got, Channel, GotAll
<1>3. Tracked(R)'
  BY <1>1, <1>2 DEF Tracked
<1>4. UNCHANGED Switch!vars
  BY <1>2 DEF Switch!vars
<1>5. SwitchInv'
  BY <1>1, <1>2, <1>3 DEF SwitchInv, Numbered
<1> QED
  BY <1>4, <1>5

LEMMA CommittedStep ==
  ASSUME NetShape(Item), Committed, NEW l \in Level, NEW w \in Wire,
         NEW q \in Register(HeldOf(Item)), dist' = [dist EXCEPT ![l][w] = q],
         \A i \in DOMAIN q : q[i].port = q[i].item.dest[l]
  PROVE  Committed'
<1>1. \A m \in Level, u \in Wire : dist'[m][u] = IF m = l /\ u = w THEN q ELSE dist[m][u]
  BY Update2 DEF NetShape
<1>2. ASSUME NEW m \in Level, NEW u \in Wire, NEW i \in DOMAIN dist'[m][u]
      PROVE  dist'[m][u][i].port = dist'[m][u][i].item.dest[m]
  <2>1. CASE m = l /\ u = w
    <3>1. dist'[m][u] = q
      BY <1>1, <2>1
    <3> QED
      BY <2>1, <3>1
  <2>2. CASE ~(m = l /\ u = w)
    <3>1. dist'[m][u] = dist[m][u]
      BY <1>1, <2>2
    <3> QED
      BY <3>1 DEF Committed
  <2> QED
    BY <2>1, <2>2
<1> QED
  BY <1>2 DEF Committed

LEMMA DistributorReadsInside ==
  ASSUME SwitchInv, NEW l \in Level, NEW w \in Wire, DistributorReads(l, w)
  PROVE  SwitchInv' /\ UNCHANGED Switch!vars
<1>P. PICK P \in [Place -> Seq(Item)] : Tracked(P)
  BY DEF SwitchInv
<1>x. PICK x : x = Head(link[l][w])
  OBVIOUS
<1>b. PICK b : b = x.dest[l]
  OBVIOUS
<1>p. PICK p : p = LinkAt(l, w)
  OBVIOUS
<1>r. PICK r : r = DistAt(l, w)
  OBVIOUS
<1>R. PICK R : R = Onward(P, p, r)
  OBVIOUS
<1>0. NetShape(Item) /\ Committed /\ IsNet(P) /\ Flows(P, sent, GotAll)
  BY <1>P DEF SwitchInv, Tracked
<1>1. /\ DistributeTo(l, w, b) /\ UNCHANGED <<sent, recv>> /\ link[l][w] # <<>>
  BY <1>x, <1>b DEF DistributorReads, distribute_package, Port, Empty
<1>2. x \in Item /\ b \in Bit
  <2>1. link[l][w] \in Seq(Item)
    BY <1>0, LevelStage DEF NetShape
  <2>2. x \in Item
    BY <1>1, <1>x, <2>1, ReadSeq
  <2> QED
    BY <1>b, <2>2, SwitchAssumption DEF Wire
<1>3. /\ NetShape(Item)' /\ IsNet(R)'
      /\ p \in Place /\ r \in Place /\ p # r /\ P[p] # <<>> /\ P[p] = link[l][w]
  BY <1>0, <1>1, <1>2, <1>p, <1>r, <1>R, DistributeToMoves
<1>4. OnPath(x, r) /\ Rank(r) = Rank(p) + 1 /\ x = Head(P[p])
  <2>1. OnPath(x, p) /\ x = Head(P[p])
    BY <1>0, <1>3, <1>x, HeadIsOnPath
  <2>2. Rank(p) = 4 * l /\ Rank(r) = 4 * l + 1
    BY <1>p, <1>r, Ranks, LevelStage
  <2> QED
    BY <1>p, <1>r, <2>1, <2>2, PathStep
<1>5. Committed'
  <2> DEFINE h == [item |-> x, port |-> b]
             q == <<h>>
  <2>1. /\ q \in Register(HeldOf(Item)) /\ dist' = [dist EXCEPT ![l][w] = q]
        /\ \A i \in DOMAIN q : q[i].port = q[i].item.dest[l]
    BY <1>1, <1>2, <1>b, <1>x DEF Register, HeldOf, DistributeTo
  <2> HIDE DEF q
  <2> QED
    BY <1>0, <2>1, CommittedStep
<1> QED
  BY <1>P, <1>1, <1>3, <1>4, <1>5, <1>R, InsideStep

LEMMA DistributorWritesInside ==
  ASSUME SwitchInv, NEW l \in Level, NEW w \in Wire, DistributorWrites(l, w)
  PROVE  SwitchInv' /\ UNCHANGED Switch!vars
<1>P. PICK P \in [Place -> Seq(Item)] : Tracked(P)
  BY DEF SwitchInv
<1>p. PICK p : p = DistAt(l, w)
  OBVIOUS
<1>0. NetShape(Item) /\ Committed /\ IsNet(P) /\ Flows(P, sent, GotAll)
  BY <1>P DEF SwitchInv, Tracked
<1>1. DistributeWrite(l, w) /\ UNCHANGED <<sent, recv>>
  BY DEF DistributorWrites
<1>m. PICK h \in HeldOf(Item), r \in Place : \E R :
        /\ dist[l][w] = <<h>> /\ r = InnerAt(l, w, h.port) /\ R = Onward(P, p, r)
        /\ NetShape(Item)' /\ IsNet(R)'
        /\ p \in Place /\ p # r /\ P[p] # <<>> /\ P[p] = <<h.item>>
  BY <1>0, <1>1, <1>p, DistributeWriteMoves
<1>2. PICK R :
        /\ dist[l][w] = <<h>> /\ r = InnerAt(l, w, h.port) /\ R = Onward(P, p, r)
        /\ NetShape(Item)' /\ IsNet(R)'
        /\ p \in Place /\ p # r /\ P[p] # <<>> /\ P[p] = <<h.item>>
  BY <1>m
<1>3. h.port = h.item.dest[l] /\ h.port \in Bit /\ Head(P[p]) = h.item
  <2>1. 1 \in DOMAIN <<h>> /\ <<h>>[1] = h
    OBVIOUS
  <2> QED
    BY <1>0, <1>2, <2>1 DEF Committed, HeldOf
<1>4. OnPath(h.item, r) /\ Rank(r) = Rank(p) + 1
  <2>1. OnPath(h.item, p)
    BY <1>0, <1>2, <1>3, HeadIsOnPath
  <2>2. Rank(p) = 4 * l + 1 /\ Rank(r) = 4 * l + 2 /\ l \in Int
    BY <1>p, <1>2, <1>3, Ranks, LevelStage
  <2> QED
    BY <1>p, <1>2, <1>3, <2>1, <2>2, PathStep
<1>5. Committed'
  <2> DEFINE q == <<>>
  <2>1. /\ q \in Register(HeldOf(Item)) /\ dist' = [dist EXCEPT ![l][w] = q]
        /\ \A i \in DOMAIN q : q[i].port = q[i].item.dest[l]
    <3>1. dist' = [dist EXCEPT ![l][w] = q]
      BY <1>1 DEF DistributeWrite
    <3>2. DOMAIN q = {} /\ q \in Register(HeldOf(Item))
      BY DEF Register
    <3> QED
      BY <3>1, <3>2
  <2> HIDE DEF q
  <2> QED
    BY <1>0, <2>1, CommittedStep
<1> QED
  BY <1>P, <1>1, <1>2, <1>3, <1>4, <1>5, InsideStep

LEMMA MergerReadsInside ==
  ASSUME SwitchInv, NEW l \in Level, NEW w \in Wire, MergerReads(l, w)
  PROVE  SwitchInv' /\ UNCHANGED Switch!vars
<1>P. PICK P \in [Place -> Seq(Item)] : Tracked(P)
  BY DEF SwitchInv
<1>r. PICK r : r = MergeAt(l, w)
  OBVIOUS
<1>0. NetShape(Item) /\ Committed /\ IsNet(P) /\ Flows(P, sent, GotAll)
  BY <1>P DEF SwitchInv, Tracked
<1>1. merge_package(l, w) /\ UNCHANGED <<sent, recv, dist>>
  BY DEF MergerReads, merge_package
<1>m. PICK c \in Bit, p \in Place : \E R :
        /\ p = InnerAt(l, Turn(w, l, c), w[l]) /\ R = Onward(P, p, r)
        /\ NetShape(Item)' /\ IsNet(R)'
        /\ r \in Place /\ p # r /\ P[p] # <<>>
  BY <1>0, <1>1, <1>r, MergePackageMoves
<1>2. PICK R :
        /\ p = InnerAt(l, Turn(w, l, c), w[l]) /\ R = Onward(P, p, r)
        /\ NetShape(Item)' /\ IsNet(R)'
        /\ r \in Place /\ p # r /\ P[p] # <<>>
  BY <1>m
<1>4. OnPath(Head(P[p]), r) /\ Rank(r) = Rank(p) + 1
  <2>1. OnPath(Head(P[p]), p)
    BY <1>0, <1>2, HeadIsOnPath
  <2>2. Turn(w, l, c) \in Wire /\ w[l] \in Bit
    BY TurnWire DEF Wire
  <2>3. Rank(p) = 4 * l + 2 /\ Rank(r) = 4 * l + 3 /\ l \in Int
    BY <1>r, <1>2, <2>2, Ranks, LevelStage
  <2>4. PICK x : x = Head(P[p])
    OBVIOUS
  <2>5. OnPath(x, InnerAt(l, Turn(w, l, c), w[l]))
    BY <1>2, <2>1, <2>4
  <2>6. OnPath(x, r)
    BY <1>r, <2>5, PathStep
  <2> QED
    BY <2>3, <2>4, <2>6
<1>5. Committed'
  BY <1>0, <1>1 DEF Committed
<1> QED
  BY <1>P, <1>1, <1>2, <1>4, <1>5, InsideStep

LEMMA MergerWritesInside ==
  ASSUME SwitchInv, NEW l \in Level, NEW w \in Wire, MergerWrites(l, w)
  PROVE  SwitchInv' /\ UNCHANGED Switch!vars
<1>P. PICK P \in [Place -> Seq(Item)] : Tracked(P)
  BY DEF SwitchInv
<1>p. PICK p : p = MergeAt(l, w)
  OBVIOUS
<1>r. PICK r : r = LinkAt(l + 1, w)
  OBVIOUS
<1>R. PICK R : R = Onward(P, p, r)
  OBVIOUS
<1>0. NetShape(Item) /\ Committed /\ IsNet(P) /\ Flows(P, sent, GotAll)
  BY <1>P DEF SwitchInv, Tracked
<1>1. MergeWrite(l, w) /\ UNCHANGED <<sent, recv, dist>>
  BY DEF MergerWrites, MergeWrite
<1>2. /\ NetShape(Item)' /\ IsNet(R)'
      /\ p \in Place /\ r \in Place /\ p # r /\ P[p] # <<>>
  BY <1>0, <1>1, <1>p, <1>r, <1>R, MergeWriteMoves
<1>4. OnPath(Head(P[p]), r) /\ Rank(r) = Rank(p) + 1
  <2>1. OnPath(Head(P[p]), p)
    BY <1>0, <1>2, HeadIsOnPath
  <2>2. Rank(p) = 4 * l + 3 /\ Rank(r) = 4 * (l + 1) /\ l \in Int
    BY <1>p, <1>r, Ranks, LevelStage
  <2>3. OnPath(Head(P[p]), r)
    BY <1>p, <1>r, <2>1, PathStep
  <2> QED
    BY <2>2, <2>3
<1>5. Committed'
  BY <1>0, <1>1 DEF Committed
<1> QED
  BY <1>P, <1>1, <1>2, <1>4, <1>5, <1>R, InsideStep

Chan == [s \in Wire |-> [d \in Wire |-> Channel(s, d)]]

LEMMA ChanStep ==
  ASSUME NEW s \in Wire, NEW d \in Wire, NEW q, Channel(s, d)' = q,
         \A a, b \in Wire : ~(a = s /\ b = d) => Channel(a, b)' = Channel(a, b)
  PROVE  Chan' = [Chan EXCEPT ![s][d] = q]
<1> DEFINE F == [Chan EXCEPT ![s][d] = q]
<1>1. Chan' = [a \in Wire |-> [b \in Wire |-> Channel(a, b)']]
  BY DEF Chan
<1>2. F = [a \in Wire |-> [b \in Wire |-> IF a = s /\ b = d THEN q ELSE Channel(a, b)]]
  BY DEF Chan
<1>3. \A a, b \in Wire : Channel(a, b)' = IF a = s /\ b = d THEN q ELSE Channel(a, b)
  OBVIOUS
<1> HIDE DEF F
<1>4. Chan' = F
  BY <1>1, <1>2, <1>3
<1> QED
  BY <1>4 DEF F

LEMMA IndexedSeqs == ASSUME NEW T, NEW P \in [Place -> Seq(T)] PROVE Indexed(P)
<1>1. \A q \in Seq(T) : DOMAIN q = 1..Len(q) /\ Len(q) \in Nat
  BY LenProperties
<1>2. \A p \in Place : P[p] \in Seq(T)
  OBVIOUS
<1> QED
  BY <1>1, <1>2 DEF Indexed

\* An item written to the network, at its place.
LEMMA LinkWritten ==
  ASSUME NetShape(Item), NEW P \in [Place -> Seq(Item)], IsNet(P),
         NEW w \in Wire, NEW x \in Item, WriteLink(w, x),
         NEW p, p = LinkAt(1, w), NEW R, R = Put(P, p, Append(P[p], x))
  PROVE  /\ NetShape(Item)' /\ IsNet(R)' /\ R \in [Place -> Seq(Item)]
         /\ p \in Place /\ IsFirst(p)
         /\ \E M \in Nat : AtPlace(P, R, p, x, M)
<1>1. p \in Place /\ P[p] \in Seq(Item)
  BY LevelStage, PlacesIn
<1>q. PICK q : q = Append(P[p], x)
  OBVIOUS
<1>M. PICK M : M = Len(P[p])
  OBVIOUS
<1>2. /\ DOMAIN P[p] = 1..M /\ M \in Nat /\ DOMAIN q = 1..M + 1 /\ q \in Seq(Item)
      /\ \A i \in 1..M : q[i] = P[p][i]
      /\ q[M + 1] = x
  BY <1>1, <1>q, <1>M, AppendAt
<1>3. R[p] = q /\ \A r \in Place : r # p => R[r] = P[r]
  <2>1. R = Put(P, p, q)
    BY <1>q
  <2>2. \A r \in Place : Put(P, p, q)[r] = IF r = p THEN q ELSE P[r]
    BY <1>1 DEF Put
  <2> QED
    BY <1>1, <2>1, <2>2
<1>4. AtPlace(P, R, p, x, M)
  BY <1>2, <1>3 DEF AtPlace
<1>5. IsFirst(p)
  BY FirstRank, RankInt DEF IsFirst
<1>6. NetShape(Item)' /\ IsNet(R)' /\ R \in [Place -> Seq(Item)]
  BY WriteLinkMoves
<1> QED
  BY <1>1, <1>2, <1>4, <1>5, <1>6

\* An item appended to its flow.
ItemFlows(S) == S \in [Wire -> [Wire -> Seq(Item)]]
PutFlow(S, s, d, z) == [S EXCEPT ![s][d] = z]

LEMMA FlowWritten ==
  ASSUME NEW S, ItemFlows(S), NEW s \in Wire, NEW d \in Wire, NEW x \in Item
  PROVE  /\ ItemFlows(PutFlow(S, s, d, Append(S[s][d], x)))
         /\ PutFlow(S, s, d, Append(S[s][d], x))[s][d] = Append(S[s][d], x)
         /\ OnFlow(S, PutFlow(S, s, d, Append(S[s][d], x)), s, d, x, Len(S[s][d]))
<1>N. PICK N : N = Len(S[s][d])
  OBVIOUS
<1>z. PICK z : z = Append(S[s][d], x)
  OBVIOUS
<1>U. PICK U : U = PutFlow(S, s, d, z)
  OBVIOUS
<1>1. S[s][d] \in Seq(Item)
  BY DEF ItemFlows
<1>2. /\ z \in Seq(Item) /\ Len(z) = N + 1 /\ z[N + 1] = x /\ N \in Nat
      /\ \A n \in 1..N : z[n] = S[s][d][n]
  BY <1>1, <1>N, <1>z, AppendAt
<1>3. /\ U \in [Wire -> [Wire -> Seq(Item)]]
      /\ \A a, b \in Wire : U[a][b] = IF a = s /\ b = d THEN z ELSE S[a][b]
  BY <1>2, <1>U, Update2 DEF PutFlow, ItemFlows
<1>4. U[s][d] = z /\ \A a, b \in Wire : ~(a = s /\ b = d) => U[a][b] = S[a][b]
  BY <1>3
<1>5. ItemFlows(U) /\ U[s][d] = z /\ OnFlow(S, U, s, d, x, N)
  BY <1>2, <1>3, <1>4 DEF OnFlow, ItemFlows
<1> QED
  BY <1>5, <1>U, <1>N, <1>z

LEMMA NumberedStep ==
  ASSUME NEW S, NEW U, Numbered(S), NEW s \in Wire, NEW d \in Wire, NEW x,
         NEW N \in Nat, N = Len(S[s][d]), OnFlow(S, U, s, d, x, N),
         x.src = s, x.dest = d, x.no = N + 1
  PROVE  Numbered(U)
<1>1. ASSUME NEW a \in Wire, NEW b \in Wire, NEW n \in 1..Len(U[a][b])
      PROVE  U[a][b][n].src = a /\ U[a][b][n].dest = b /\ U[a][b][n].no = n
  <2>1. CASE a = s /\ b = d
    <3>1. n = N + 1 \/ n \in 1..N
      BY <2>1 DEF OnFlow
    <3>2. CASE n = N + 1
      BY <2>1, <3>2 DEF OnFlow
    <3>3. CASE n \in 1..N
      <4>1. U[s][d][n] = S[s][d][n]
        BY <3>3 DEF OnFlow
      <4> QED
        BY <2>1, <3>3, <4>1 DEF Numbered
    <3> QED
      BY <3>1, <3>2, <3>3
  <2>2. CASE ~(a = s /\ b = d)
    <3>1. U[a][b] = S[a][b]
      BY <2>2 DEF OnFlow
    <3> QED
      BY <3>1 DEF Numbered
  <2> QED
    BY <2>1, <2>2
<1> QED
  BY <1>1 DEF Numbered

\* rpa_input: the item enters the crossbar.
LEMMA InputEnters ==
  ASSUME SwitchInv, NEW w \in Wire, NEW v \in Vertex, rpa_input(w, v)
  PROVE  SwitchInv' /\ Switch!Next
<1>P. PICK P \in [Place -> Seq(Item)] : Tracked(P)
  BY DEF SwitchInv
<1>0. /\ NetShape(Item) /\ Committed /\ IsNet(P) /\ Flows(P, sent, GotAll)
      /\ sent \in [Wire -> [Wire -> Seq(Item)]] /\ recv \in [Wire -> Seq(Item)]
      /\ Numbered(sent)
      /\ \A s, d \in Wire : Got(s, d) \in Nat /\ Got(s, d) <= Len(sent[s][d])
  BY <1>P DEF SwitchInv, Tracked
<1>d. PICK d \in Wire : d = Dest[v]
  BY SwitchAssumption
<1>N. PICK N : N = Len(sent[w][d])
  OBVIOUS
<1>x. PICK x : x = [dest |-> d, src |-> w, no |-> N + 1, vid |-> v]
  OBVIOUS
<1>z. PICK z : z = Append(sent[w][d], x)
  OBVIOUS
<1>q. sent[w][d] \in Seq(Item) /\ N \in Nat
  BY <1>0, <1>N
<1>1. /\ WriteLink(w, x) /\ UNCHANGED <<recv, dist>> /\ N < Quota[w][d]
      /\ sent' = [sent EXCEPT ![w][d] = z]
  BY <1>0, <1>d, <1>N, <1>x, <1>z DEF rpa_input, WriteLink
<1>2. x \in Item
  <2>1. Quota[w][d] \in Nat
    BY SwitchAssumption
  <2>2. N + 1 \in 1..Quota[w][d]
    BY <1>1, <1>q, <2>1
  <2> QED
    BY <1>d, <1>x, <2>2, SwitchAssumption
<1>3. x.src = w /\ x.dest = d /\ x.no = N + 1
  BY <1>x
<1>p. PICK p : p = LinkAt(1, w)
  OBVIOUS
<1>R. PICK R : R = Put(P, p, Append(P[p], x))
  OBVIOUS
<1>4. /\ NetShape(Item)' /\ IsNet(R)' /\ R \in [Place -> Seq(Item)]
      /\ p \in Place /\ IsFirst(p)
      /\ \E M \in Nat : AtPlace(P, R, p, x, M)
  <2>1. NetShape(Item) /\ IsNet(P) /\ WriteLink(w, x)
    BY <1>0, <1>1
  <2> QED
    BY <1>2, <1>p, <1>R, <2>1, LinkWritten
<1>M. PICK M \in Nat : AtPlace(P, R, p, x, M)
  BY <1>4
<1>S. PICK S : S = sent
  OBVIOUS
<1>U. PICK U : U = sent'
  OBVIOUS
<1>G. PICK G : G = GotAll
  OBVIOUS
<1>6. ItemFlows(U) /\ U[w][d] = z /\ OnFlow(S, U, w, d, x, N)
  <2>1. ItemFlows(S) /\ U = PutFlow(S, w, d, z)
    BY <1>0, <1>1, <1>S, <1>U DEF PutFlow, ItemFlows
  <2>2. N = Len(S[w][d]) /\ z = Append(S[w][d], x)
    BY <1>S, <1>N, <1>z
  <2>3. /\ ItemFlows(PutFlow(S, w, d, Append(S[w][d], x)))
        /\ PutFlow(S, w, d, Append(S[w][d], x))[w][d] = Append(S[w][d], x)
        /\ OnFlow(S, PutFlow(S, w, d, Append(S[w][d], x)), w, d, x, Len(S[w][d]))
    BY <1>2, <2>1, FlowWritten
  <2> QED
    BY <2>1, <2>2, <2>3
<1>7. Flows(R, U, G)
  <2>1. Flows(P, S, G) /\ N = Len(S[w][d]) /\ G[w][d] \in Nat /\ G[w][d] <= N
    BY <1>0, <1>N, <1>S, <1>G DEF GotAll
  <2>2. OnPath(x, p)
    BY <1>3, <1>p, PathEnds
  <2>3. p \in Place /\ IsFirst(p)
    BY <1>4
  <2> QED
    BY <1>3, <1>q, <1>M, <1>6, <2>1, <2>2, <2>3, EnterFlows
<1>8. (\A s, b \in Wire : Got(s, b)' = Got(s, b)) /\ GotAll' = GotAll
  BY <1>1 DEF Got, GotAll
<1>9. Tracked(R)'
  BY <1>4, <1>7, <1>8, <1>U, <1>G DEF Tracked
<1>10. Numbered(sent)'
  <2>1. Numbered(S) /\ N = Len(S[w][d])
    BY <1>0, <1>N, <1>S
  <2>2. Numbered(U)
    BY <1>3, <1>q, <1>6, <2>1, NumberedStep
  <2> QED
    BY <1>U, <2>2 DEF Numbered
<1>c. /\ sent' \in [Wire -> [Wire -> Seq(Item)]] /\ sent'[w][d] = z /\ Len(sent'[w][d]) = N + 1
      /\ \A a, b \in Wire : ~(a = w /\ b = d) => sent'[a][b] = sent[a][b]
  BY <1>6, <1>S, <1>U DEF OnFlow, ItemFlows
<1>11. \A s, b \in Wire : Got(s, b)' \in Nat /\ Got(s, b)' <= Len(sent'[s][b])
  <2> TAKE s, b \in Wire
  <2>1. Got(s, b)' = Got(s, b) /\ Got(s, b) \in Nat /\ Got(s, b) <= Len(sent[s][b])
    BY <1>0, <1>8
  <2>2. CASE s = w /\ b = d
    BY <1>c, <1>N, <1>q, <2>1, <2>2
  <2>3. CASE ~(s = w /\ b = d)
    BY <1>c, <2>1, <2>3
  <2> QED
    BY <2>2, <2>3
<1>12. SwitchInv'
  <2>1. Committed'
    BY <1>0, <1>1 DEF Committed
  <2>2. recv' \in [Wire -> Seq(Item)]
    BY <1>0, <1>1
  <2> QED
    BY <1>4, <1>c, <1>9, <1>10, <1>11, <2>1, <2>2 DEF SwitchInv
<1>13. Chan' = [Chan EXCEPT ![w][d] = Append(Chan[w][d], x)]
  <2>1. Channel(w, d)' = Append(Channel(w, d), x)
    <3>1. Channel(w, d)' = SubSeq(z, Got(w, d) + 1, Len(z))
      BY <1>c, <1>8 DEF Channel
    <3>2. Got(w, d) \in Nat /\ Got(w, d) <= Len(sent[w][d])
      BY <1>0
    <3> QED
      BY <1>2, <1>q, <1>z, <3>1, <3>2, RestAppend DEF Channel
  <2>2. \A a, b \in Wire : ~(a = w /\ b = d) => Channel(a, b)' = Channel(a, b)
    BY <1>c, <1>8 DEF Channel
  <2>3. Chan[w][d] = Channel(w, d)
    BY DEF Chan
  <2> QED
    BY <2>1, <2>2, <2>3, ChanStep
<1>14. Switch!Send(w, d, x)
  <2>1. Chan' = [Chan EXCEPT ![w][d] = Append(@, x)]
    BY <1>13 DEF Chan
  <2> QED
    BY <1>1, <2>1 DEF Switch!Send, Chan
<1> QED
  BY <1>2, <1>3, <1>12, <1>14 DEF Switch!Next

\* An item read from its output lane.
LEMMA LinkRead ==
  ASSUME NetShape(Item), NEW P \in [Place -> Seq(Item)], IsNet(P),
         NEW w \in Wire, ReadLink(w), NEW p, p = LinkAt(K + 1, w),
         NEW R, R = Put(P, p, Tail(P[p]))
  PROVE  /\ NetShape(Item)' /\ IsNet(R)' /\ R \in [Place -> Seq(Item)]
         /\ p \in Place /\ IsLast(p) /\ Indexed(P)
         /\ Head(link[K + 1][w]) = P[p][1] /\ P[p][1] \in Item
         /\ \E L \in Nat : TakenAt(P, R, p, L)
<1>1. /\ NetShape(Item)' /\ IsNet(R)' /\ R \in [Place -> Seq(Item)]
      /\ p \in Place /\ P[p] # <<>> /\ P[p] = link[K + 1][w]
  BY ReadLinkMoves
<1>2. P[p] \in Seq(Item)
  BY <1>1
<1>L. PICK L : L = Len(P[p])
  OBVIOUS
<1>3. /\ DOMAIN P[p] = 1..L /\ L \in Nat /\ L > 0
      /\ DOMAIN Tail(P[p]) = 1..L - 1 /\ Head(P[p]) = P[p][1] /\ Head(P[p]) \in Item
      /\ \A i \in 1..L - 1 : Tail(P[p])[i] = P[p][i + 1]
  BY <1>1, <1>2, <1>L, TailAt
<1>4. R[p] = Tail(P[p]) /\ \A r \in Place : r # p => R[r] = P[r]
  BY <1>1 DEF Put
<1>5. TakenAt(P, R, p, L)
  BY <1>3, <1>4 DEF TakenAt
<1>6. IsLast(p)
  BY LastRank, RankInt DEF IsLast
<1>7. Indexed(P)
  BY IndexedSeqs
<1> QED
  BY <1>1, <1>3, <1>5, <1>6, <1>7

\* rpa_output: the item that leaves is the one the crossbar delivers.
LEMMA OutputLeaves ==
  ASSUME SwitchInv, NEW w \in Wire, rpa_output(w)
  PROVE  SwitchInv' /\ Switch!Next
<1>P. PICK P \in [Place -> Seq(Item)] : Tracked(P)
  BY DEF SwitchInv
<1>0. /\ NetShape(Item) /\ Committed /\ IsNet(P) /\ Flows(P, sent, GotAll)
      /\ sent \in [Wire -> [Wire -> Seq(Item)]] /\ recv \in [Wire -> Seq(Item)]
      /\ Numbered(sent)
      /\ \A s, d \in Wire : Got(s, d) \in Nat /\ Got(s, d) <= Len(sent[s][d])
  BY <1>P DEF SwitchInv, Tracked
<1>p. PICK p : p = LinkAt(K + 1, w)
  OBVIOUS
<1>R. PICK R : R = Put(P, p, Tail(P[p]))
  OBVIOUS
<1>x. PICK x : x = P[p][1]
  OBVIOUS
<1>1. ReadLink(w) /\ UNCHANGED <<sent, dist>>
      /\ recv' = [recv EXCEPT ![w] = Append(@, Head(link[K + 1][w]))]
  BY DEF rpa_output, ReadLink
<1>2. /\ NetShape(Item)' /\ IsNet(R)' /\ R \in [Place -> Seq(Item)]
      /\ p \in Place /\ IsLast(p) /\ Indexed(P)
      /\ Head(link[K + 1][w]) = x /\ x \in Item
      /\ \E L \in Nat : TakenAt(P, R, p, L)
  BY <1>0, <1>1, <1>p, <1>R, <1>x, LinkRead
<1>L. PICK L \in Nat : TakenAt(P, R, p, L)
  BY <1>2
<1>s. PICK s : s = x.src
  OBVIOUS
<1>3. Pending(x, sent, GotAll) /\ OnPath(x, p) /\ s \in Wire /\ x.dest \in Wire
  <2>1. 1 \in DOMAIN P[p]
    BY <1>L DEF TakenAt
  <2>2. Pending(x, sent, GotAll) /\ OnPath(x, p)
    BY <1>0, <1>2, <1>x, <2>1 DEF Flows, Located
  <2> QED
    BY <1>s, <2>2 DEF Pending
<1>4. x.dest = w
  BY <1>3, <1>p, <1>s, PathEnds
<1>5. recv' = [recv EXCEPT ![w] = Append(recv[w], x)]
  BY <1>1, <1>2
<1>6. recv' \in [Wire -> Seq(Item)]
  <2>1. Append(recv[w], x) \in Seq(Item)
    BY <1>0, <1>2
  <2> QED
    BY <1>0, <1>5, <2>1
<1>7. /\ Got(s, w)' = Got(s, w) + 1
      /\ \A a, b \in Wire : ~(a = s /\ b = w) => Got(a, b)' = Got(a, b)
  <2>1. \A a, b \in Wire : Got(a, b) = Count(recv[b], a) /\ Got(a, b)' = Count(recv'[b], a)
    BY DEF Got, Count
  <2>2. recv'[w] = Append(recv[w], x) /\ \A b \in Wire : b # w => recv'[b] = recv[b]
    BY <1>0, <1>5
  <2>3. \A a : Count(recv'[w], a) = IF x.src = a THEN Count(recv[w], a) + 1
                                                ELSE Count(recv[w], a)
    <3>q. PICK q : q = recv[w]
      OBVIOUS
    <3>1. q \in Seq(Item)
      BY <1>0, <3>q
    <3>2. \A a : Count(Append(q, x), a) = IF x.src = a THEN Count(q, a) + 1 ELSE Count(q, a)
      BY <1>2, <3>1, CountAppend
    <3> QED
      BY <2>2, <3>q, <3>2
  <2>4. Got(s, w)' = Got(s, w) + 1
    BY <1>3, <1>s, <2>1, <2>3
  <2>5. ASSUME NEW a \in Wire, NEW b \in Wire, ~(a = s /\ b = w)
        PROVE  Got(a, b)' = Got(a, b)
    <3>1. CASE b = w
      BY <1>s, <2>1, <2>3, <2>5, <3>1
    <3>2. CASE b # w
      BY <2>1, <2>2, <3>2
    <3> QED
      BY <3>1, <3>2
  <2> QED
    BY <2>4, <2>5
<1>S. PICK S : S = sent
  OBVIOUS
<1>G. PICK G : G = GotAll
  OBVIOUS
<1>H. PICK H : H = GotAll'
  OBVIOUS
<1>8. Pending(x, S, G) /\ x.no = G[s][w] + 1 /\ Flows(R, S, H)
  <2>1. Flows(P, S, G) /\ Numbered(S)
    BY <1>0, <1>S, <1>G
  <2>2. Counted(S, G)
    BY <1>0, <1>S, <1>G DEF Counted, GotAll
  <2>3. OneOut(G, H, x.src, x.dest)
    BY <1>3, <1>4, <1>s, <1>7, <1>G, <1>H DEF GotAll, OneOut
  <2>4. p \in Place /\ IsLast(p) /\ Indexed(P)
    BY <1>2
  <2>5. Pending(x, S, G) /\ x.no = G[x.src][x.dest] + 1 /\ Flows(R, S, H)
    <3>1. Leaving(P, S, G, p, L, x, R, H)
      BY <1>L, <1>x, <2>1, <2>2, <2>3, <2>4 DEF Leaving
    <3> QED
      BY <3>1, LeaveFlows
  <2> QED
    BY <1>s, <1>4, <2>5
<1>9. Tracked(R)'
  BY <1>1, <1>2, <1>8, <1>S, <1>H DEF Tracked
<1>10. Got(s, w) < Len(sent[s][w]) /\ sent[s][w][Got(s, w) + 1] = x
  <2>1. x.no \in Got(s, w) + 1 .. Len(sent[s][w]) /\ sent[s][w][x.no] = x
    BY <1>3, <1>4, <1>s DEF Pending, GotAll
  <2>2. x.no = Got(s, w) + 1
    BY <1>3, <1>8, <1>G DEF GotAll
  <2>3. Got(s, w) \in Nat /\ Len(sent[s][w]) \in Nat
    BY <1>0, <1>3
  <2> QED
    BY <2>1, <2>2, <2>3
<1>11. \A a, b \in Wire : Got(a, b)' \in Nat /\ Got(a, b)' <= Len(sent'[a][b])
  <2> TAKE a, b \in Wire
  <2>1. /\ sent'[a][b] = sent[a][b] /\ Len(sent[a][b]) \in Nat
        /\ Got(a, b) \in Nat /\ Got(a, b) <= Len(sent[a][b])
    BY <1>0, <1>1
  <2>2. CASE a = s /\ b = w
    BY <1>7, <1>10, <2>1, <2>2
  <2>3. CASE ~(a = s /\ b = w)
    BY <1>7, <2>1, <2>3
  <2> QED
    BY <2>2, <2>3
<1>12. SwitchInv'
  <2>1. Committed'
    BY <1>0, <1>1 DEF Committed
  <2>2. Numbered(sent)' /\ sent' \in [Wire -> [Wire -> Seq(Item)]]
    BY <1>0, <1>1 DEF Numbered
  <2> QED
    BY <1>2, <1>6, <1>9, <1>11, <2>1, <2>2 DEF SwitchInv
<1>13. /\ Chan[s][w] # <<>> /\ Head(Chan[s][w]) = x
       /\ Chan' = [Chan EXCEPT ![s][w] = Tail(Chan[s][w])]
  <2>q. PICK q : q = sent[s][w]
    OBVIOUS
  <2>g. PICK g : g = Got(s, w)
    OBVIOUS
  <2>1. q \in Seq(Item) /\ g \in Nat /\ g < Len(q) /\ q[g + 1] = x
    BY <1>0, <1>3, <1>10, <2>q, <2>g
  <2>2. /\ SubSeq(q, g + 1, Len(q)) # <<>>
        /\ Head(SubSeq(q, g + 1, Len(q))) = x
        /\ Tail(SubSeq(q, g + 1, Len(q))) = SubSeq(q, (g + 1) + 1, Len(q))
    BY <2>1, RestTail
  <2>3. Chan[s][w] = SubSeq(q, g + 1, Len(q))
    BY <1>3, <2>q, <2>g DEF Chan, Channel
  <2>4. Channel(s, w)' = SubSeq(q, (g + 1) + 1, Len(q))
    BY <1>1, <1>7, <2>q, <2>g DEF Channel
  <2>5. \A a, b \in Wire : ~(a = s /\ b = w) => Channel(a, b)' = Channel(a, b)
    BY <1>1, <1>7 DEF Channel
  <2>6. Chan' = [Chan EXCEPT ![s][w] = Tail(Chan[s][w])]
    <3>1. Channel(s, w)' = Tail(Chan[s][w])
      BY <2>2, <2>3, <2>4
    <3> QED
      BY <1>3, <2>5, <3>1, ChanStep
  <2> QED
    BY <2>2, <2>3, <2>6
<1>14. Switch!Deliver(s, w)
  BY <1>5, <1>13 DEF Switch!Deliver, Chan
<1> QED
  BY <1>3, <1>12, <1>14 DEF Switch!Next

\* The network starts empty.
LEMMA SwitchStarts == Init => SwitchInv /\ Switch!Init
<1> SUFFICES ASSUME Init PROVE SwitchInv /\ Switch!Init
  OBVIOUS
<1>1. /\ NetInit /\ sent = [s \in Wire |-> [d \in Wire |-> <<>>]]
      /\ recv = [w \in Wire |-> <<>>]
  BY DEF Init
<1>2. PICK P \in [Place -> Seq(Item)] :
        NetShape(Item) /\ IsNet(P) /\ \A p \in Place : P[p] = <<>>
  BY <1>1, NetStarts
<1>3. \A s, d \in Wire : Got(s, d) = 0
  <2>2. \A s : Count(<<>>, s) = 0
    <3> TAKE s
    <3>1. {i \in DOMAIN <<>> : <<>>[i].src = s} = {}
      OBVIOUS
    <3> QED
      BY <3>1, FS_EmptySet DEF Count
  <2>3. \A s, d \in Wire : Got(s, d) = Count(recv[d], s) /\ recv[d] = <<>>
    BY <1>1 DEF Got, Count
  <2> QED
    BY <2>2, <2>3
<1>4. \A s, d \in Wire : sent[s][d] = <<>> /\ Len(sent[s][d]) = 0
  BY <1>1
<1>5. 1..0 = {} /\ 0 + 1 .. 0 = {} /\ 0 \in Nat /\ 0 <= 0
  OBVIOUS
<1>6. Tracked(P)
  <2>1. \A p \in Place : DOMAIN P[p] = {}
    BY <1>2
  <2>2. Located(P, sent, GotAll) /\ Ordered(P)
    BY <2>1 DEF Located, Ordered
  <2>3. Present(P, sent, GotAll)
    <3>1. \A s, d \in Wire : GotAll[s][d] + 1 .. Len(sent[s][d]) = {}
      BY <1>3, <1>4, <1>5 DEF GotAll
    <3> QED
      BY <3>1 DEF Present
  <2> QED
    BY <1>2, <2>2, <2>3 DEF Tracked, Flows
<1>7. Committed
  <2>1. \A l \in Level, w \in Wire : dist[l][w] = <<>>
    BY <1>1 DEF NetInit
  <2>2. \A l \in Level, w \in Wire : DOMAIN dist[l][w] = {}
    BY <2>1
  <2> QED
    BY <2>2 DEF Committed
<1>8. Numbered(sent)
  BY <1>4, <1>5 DEF Numbered
<1>9. SwitchInv
  <2>1. sent \in [Wire -> [Wire -> Seq(Item)]] /\ recv \in [Wire -> Seq(Item)]
    BY <1>1
  <2> QED
    BY <1>2, <1>3, <1>4, <1>5, <1>6, <1>7, <1>8, <2>1 DEF SwitchInv
<1>10. Switch!Init
  <2>1. \A s, d \in Wire : Channel(s, d) = <<>>
    <3>1. \A s, d \in Wire : Channel(s, d) = SubSeq(<<>>, 1, 0)
      BY <1>3, <1>4 DEF Channel
    <3>2. SubSeq(<<>>, 1, 0) = <<>>
      OBVIOUS
    <3> QED
      BY <3>1, <3>2
  <2> QED
    BY <1>1, <2>1 DEF Switch!Init
<1> QED
  BY <1>9, <1>10

LEMMA SwitchStep == SwitchInv /\ [Next]_vars => SwitchInv' /\ [Switch!Next]_(Switch!vars)
<1> SUFFICES ASSUME SwitchInv, [Next]_vars PROVE SwitchInv' /\ [Switch!Next]_(Switch!vars)
  OBVIOUS
<1>1. CASE \E w \in Wire, v \in Vertex : rpa_input(w, v)
  BY <1>1, InputEnters
<1>2. CASE \E w \in Wire : rpa_output(w)
  BY <1>2, OutputLeaves
<1>3. CASE \E l \in Level, w \in Wire : DistributorReads(l, w)
  BY <1>3, DistributorReadsInside
<1>4. CASE \E l \in Level, w \in Wire : DistributorWrites(l, w)
  BY <1>4, DistributorWritesInside
<1>5. CASE \E l \in Level, w \in Wire : MergerReads(l, w)
  BY <1>5, MergerReadsInside
<1>6. CASE \E l \in Level, w \in Wire : MergerWrites(l, w)
  BY <1>6, MergerWritesInside
<1>7. CASE UNCHANGED vars
  <2>1. SwitchInv'
    <3>P. PICK P \in [Place -> Seq(Item)] : Tracked(P)
      BY DEF SwitchInv
    <3>1. /\ link' = link /\ dist' = dist /\ inner' = inner /\ merge' = merge
          /\ sent' = sent /\ recv' = recv
      BY <1>7 DEF vars
    <3>2. NetShape(Item)' /\ Committed' /\ Numbered(sent)'
      BY <3>1 DEF SwitchInv, NetShape, Committed, Numbered
    <3>3. (\A s, d \in Wire : Got(s, d)' = Got(s, d)) /\ GotAll' = GotAll
      BY <3>1 DEF Got, GotAll
    <3>4. IsNet(P)'
      BY <3>1, <3>P DEF Tracked, IsNet, OfLinks, OfDist, OfInner, OfMerge
    <3>5. Tracked(P)'
      BY <3>1, <3>3, <3>4, <3>P DEF Tracked
    <3> QED
      BY <3>1, <3>2, <3>3, <3>5 DEF SwitchInv
  <2>2. UNCHANGED Switch!vars
    BY <1>7 DEF vars, Switch!vars, Channel, Got
  <2> QED
    BY <2>1, <2>2
<1> QED
  BY <1>1, <1>2, <1>3, <1>4, <1>5, <1>6, <1>7 DEF Next, NetNext, Idle

\* SwitchImplementsCrossbar: fairness apart, the switch implements the crossbar:
\* whatever the number of lanes and the depth of the FIFOs, an item of a flow
\* comes out on the lane of its destination, once, and in the order of its flow.
THEOREM SwitchImplementsCrossbar ==
  Spec => Switch!Init /\ [][Switch!Next]_(Switch!vars)
<1> QED
  BY SwitchStarts, SwitchStep, PTL DEF Spec

-----------------------------------------------------------------------------
(***************************************************************************)
(* The work-stealing scheduler.                                            *)
(***************************************************************************)

\* The scheduler with queries of their own, of WorkStealingOnce.
CONSTANTS Query,     \* its queries
          Feeders,   \* the lanes that have work
          Home       \* the lane on which a query arrives

VARIABLES steal, put, taken   \* see WorkStealing, WorkStealingOnce

Once == INSTANCE WorkStealingOnce WITH Item <- Query

\* The queries at the places of P, and that each of them is at one place once.
In(P) == UNION {{P[p][i] : i \in DOMAIN P[p]} : p \in Place}

EachOnce(P) ==
  \A p, r \in Place : \A i \in DOMAIN P[p], j \in DOMAIN P[r] :
    P[p][i] = P[r][j] => p = r /\ i = j

LEMMA InAt ==
  ASSUME NEW P
  PROVE  \A q : q \in In(P) <=> \E p \in Place : \E i \in DOMAIN P[p] : P[p][i] = q
BY DEF In

LEMMA SeqIndex ==
  ASSUME NEW S, NEW P \in [Place -> Seq(S)]
  PROVE  \A p \in Place : \A i \in DOMAIN P[p] : i \in Nat /\ i > 0 /\ P[p][i] \in S
<1>1. ASSUME NEW p \in Place, NEW i \in DOMAIN P[p]
      PROVE  i \in Nat /\ i > 0 /\ P[p][i] \in S
  <2>1. P[p] \in Seq(S)
    OBVIOUS
  <2>2. i \in 1..Len(P[p]) /\ Len(P[p]) \in Nat
    BY <2>1, LenProperties
  <2> QED
    BY <2>1, <2>2, LenProperties
<1> QED
  BY <1>1

\* A query that goes on to another place is still in one place.
LEMMA OnwardOnce ==
  ASSUME NEW S, NEW P \in [Place -> Seq(S)], EachOnce(P),
         NEW p \in Place, NEW r \in Place, p # r, P[p] # <<>>,
         NEW R, R = Onward(P, p, r)
  PROVE  R \in [Place -> Seq(S)] /\ EachOnce(R) /\ In(R) = In(P)
<1>1. /\ R \in [Place -> Seq(S)]
      /\ \A x \in Place : \A i \in DOMAIN R[x] :
           \E y \in Place : \E j \in DOMAIN P[y] :
             From(P, p, r, x, i, y, j) /\ R[x][i] = P[y][j]
      /\ \A y \in Place : \A j \in DOMAIN P[y] :
           \E x \in Place : \E i \in DOMAIN R[x] : R[x][i] = P[y][j]
  BY OnwardFrom
<1>2. In(R) = In(P)
  <2>1. \A q : q \in In(R) <=> q \in In(P)
    BY <1>1, InAt
  <2> QED
    BY <2>1
<1>3. EachOnce(R)
  <2> SUFFICES ASSUME NEW x \in Place, NEW u \in Place,
                      NEW i \in DOMAIN R[x], NEW k \in DOMAIN R[u], R[x][i] = R[u][k]
               PROVE  x = u /\ i = k
    BY DEF EachOnce
  <2>1. PICK y \in Place : \E j \in DOMAIN P[y] :
               From(P, p, r, x, i, y, j) /\ R[x][i] = P[y][j]
    BY <1>1
  <2>2. PICK j \in DOMAIN P[y] : From(P, p, r, x, i, y, j) /\ R[x][i] = P[y][j]
    BY <2>1
  <2>3. PICK v \in Place : \E m \in DOMAIN P[v] :
               From(P, p, r, u, k, v, m) /\ R[u][k] = P[v][m]
    BY <1>1
  <2>4. PICK m \in DOMAIN P[v] : From(P, p, r, u, k, v, m) /\ R[u][k] = P[v][m]
    BY <2>3
  <2>5. y = v /\ j = m
    <3>1. P[y][j] = P[v][m]
      BY <2>2, <2>4
    <3> QED
      BY <3>1 DEF EachOnce
  <2>6. i \in Nat /\ i > 0 /\ k \in Nat /\ k > 0
    BY <1>1, SeqIndex
  <2>7. CASE y = p
    BY <2>2, <2>4, <2>5, <2>6, <2>7 DEF From
  <2>8. CASE y # p
    BY <2>2, <2>4, <2>5, <2>8 DEF From
  <2> QED
    BY <2>7, <2>8
<1> QED
  BY <1>1, <1>2, <1>3

\* A query that comes in is in no other place.
LEMMA PutOnce ==
  ASSUME NEW S, NEW P \in [Place -> Seq(S)], EachOnce(P), NEW p \in Place,
         NEW q \in S, q \notin In(P), NEW R, R = Put(P, p, Append(P[p], q))
  PROVE  EachOnce(R) /\ In(R) = In(P) \cup {q}
<1>n. PICK n : n = Len(P[p])
  OBVIOUS
<1>1. P[p] \in Seq(S)
  OBVIOUS
<1>t. PICK t : t = Append(P[p], q)
  OBVIOUS
<1>2. /\ DOMAIN P[p] = 1..n /\ n \in Nat /\ DOMAIN t = 1..n + 1 /\ t \in Seq(S)
      /\ \A i \in 1..n : t[i] = P[p][i]
      /\ t[n + 1] = q
  BY <1>1, <1>n, <1>t, AppendAt
<1>3. R[p] = t /\ \A x \in Place : x # p => R[x] = P[x]
  BY <1>t DEF Put
<1>i. /\ \A i \in 1..n + 1 : i = n + 1 \/ i \in 1..n
      /\ n + 1 \in 1..n + 1 /\ \A i \in 1..n : i \in 1..n + 1 /\ i # n + 1
  BY <1>2
<1>4. \A x \in Place : \A i \in DOMAIN R[x] :
        \/ x = p /\ i = n + 1 /\ R[x][i] = q
        \/ i \in DOMAIN P[x] /\ R[x][i] = P[x][i] /\ ~(x = p /\ i = n + 1)
  <2> TAKE x \in Place
  <2>1. CASE x = p
    BY <1>2, <1>3, <1>i, <2>1
  <2>2. CASE x # p
    BY <1>3, <2>2
  <2> QED
    BY <2>1, <2>2
<1>5. \A x \in Place : \A i \in DOMAIN P[x] : i \in DOMAIN R[x] /\ R[x][i] = P[x][i]
  <2> TAKE x \in Place
  <2>1. CASE x = p
    BY <1>2, <1>3, <1>i, <2>1
  <2>2. CASE x # p
    BY <1>3, <2>2
  <2> QED
    BY <2>1, <2>2
<1>6. n + 1 \in DOMAIN R[p] /\ R[p][n + 1] = q
  BY <1>2, <1>3, <1>i
<1>7. In(R) = In(P) \cup {q}
  <2>1. ASSUME NEW z \in In(R) PROVE z \in In(P) \cup {q}
    BY <1>4, InAt
  <2>2. ASSUME NEW z \in In(P) PROVE z \in In(R)
    BY <1>5, InAt
  <2>3. q \in In(R)
    BY <1>6, InAt
  <2> QED
    BY <2>1, <2>2, <2>3
<1>8. EachOnce(R)
  <2> SUFFICES ASSUME NEW x \in Place, NEW u \in Place,
                      NEW i \in DOMAIN R[x], NEW k \in DOMAIN R[u], R[x][i] = R[u][k]
               PROVE  x = u /\ i = k
    BY DEF EachOnce
  <2>1. \A y \in Place : \A j \in DOMAIN P[y] : P[y][j] # q
    BY InAt
  <2> QED
    BY <1>4, <2>1 DEF EachOnce
<1> QED
  BY <1>7, <1>8

\* A query that is taken out is in no place any more.
LEMMA TakeOnce ==
  ASSUME NEW S, NEW P \in [Place -> Seq(S)], EachOnce(P), NEW p \in Place, P[p] # <<>>,
         NEW R, R = Put(P, p, Tail(P[p]))
  PROVE  EachOnce(R) /\ Head(P[p]) \in In(P) /\ In(R) = In(P) \ {Head(P[p])}
<1>n. PICK n : n = Len(P[p])
  OBVIOUS
<1>q. PICK q : q = Head(P[p])
  OBVIOUS
<1>1. P[p] \in Seq(S)
  OBVIOUS
<1>t. PICK t : t = Tail(P[p])
  OBVIOUS
<1>2. /\ DOMAIN P[p] = 1..n /\ n \in Nat /\ n > 0 /\ DOMAIN t = 1..n - 1
      /\ q = P[p][1] /\ q \in S
      /\ \A i \in 1..n - 1 : t[i] = P[p][i + 1]
  BY <1>1, <1>n, <1>t, <1>q, TailAt
<1>3. R[p] = t /\ \A x \in Place : x # p => R[x] = P[x]
  BY <1>t DEF Put
<1>i. /\ 1 \in 1..n
      /\ \A i \in 1..n - 1 : i \in Int /\ i + 1 \in 1..n /\ i + 1 # 1
      /\ \A i \in 1..n : i = 1 \/ (i - 1 \in 1..n - 1 /\ (i - 1) + 1 = i)
  BY <1>2
<1>4. \A x \in Place : \A i \in DOMAIN R[x] : \E j \in DOMAIN P[x] :
        /\ R[x][i] = P[x][j] /\ ~(x = p /\ j = 1)
        /\ j = IF x = p THEN i + 1 ELSE i
        /\ x = p => i \in Int
  <2> TAKE x \in Place
  <2>1. CASE x = p
    BY <1>2, <1>3, <1>i, <2>1
  <2>2. CASE x # p
    BY <1>3, <2>2
  <2> QED
    BY <2>1, <2>2
<1>5. ASSUME NEW x \in Place, NEW j \in DOMAIN P[x], ~(x = p /\ j = 1)
      PROVE  \E i \in DOMAIN R[x] : R[x][i] = P[x][j]
  <2>1. CASE x = p
    <3>1. j - 1 \in 1..n - 1 /\ (j - 1) + 1 = j
      BY <1>2, <1>i, <1>5, <2>1
    <3>2. j - 1 \in DOMAIN R[x] /\ R[x][j - 1] = P[x][j]
      BY <1>2, <1>3, <2>1, <3>1
    <3> QED
      BY <3>2
  <2>2. CASE x # p
    BY <1>3, <2>2
  <2> QED
    BY <2>1, <2>2
<1>6. 1 \in DOMAIN P[p] /\ P[p][1] = q /\ q \in In(P)
  BY <1>2, <1>i, InAt
<1>7. In(R) = In(P) \ {q}
  <2>1. ASSUME NEW z \in In(R) PROVE z \in In(P) \ {q}
    <3>1. PICK x \in Place : \E i \in DOMAIN R[x] : R[x][i] = z
      BY InAt
    <3>2. PICK i \in DOMAIN R[x] : R[x][i] = z
      BY <3>1
    <3>3. PICK j \in DOMAIN P[x] : z = P[x][j] /\ ~(x = p /\ j = 1)
      BY <1>4, <3>2
    <3>4. z # q
      BY <1>6, <3>3 DEF EachOnce
    <3> QED
      BY <3>3, <3>4, InAt
  <2>2. ASSUME NEW z \in In(P), z # q PROVE z \in In(R)
    BY <1>5, <1>6, <2>2, InAt
  <2> QED
    BY <2>1, <2>2
<1>8. EachOnce(R)
  <2> SUFFICES ASSUME NEW x \in Place, NEW u \in Place,
                      NEW i \in DOMAIN R[x], NEW k \in DOMAIN R[u], R[x][i] = R[u][k]
               PROVE  x = u /\ i = k
    BY DEF EachOnce
  <2>1. PICK j \in DOMAIN P[x] : /\ R[x][i] = P[x][j] /\ j = IF x = p THEN i + 1 ELSE i
                                 /\ x = p => i \in Int
    BY <1>4
  <2>2. PICK m \in DOMAIN P[u] : /\ R[u][k] = P[u][m] /\ m = IF u = p THEN k + 1 ELSE k
                                 /\ u = p => k \in Int
    BY <1>4
  <2>3. x = u /\ j = m
    BY <2>1, <2>2 DEF EachOnce
  <2> QED
    BY <2>1, <2>2, <2>3
<1> QED
  BY <1>6, <1>7, <1>8, <1>q

-----------------------------------------------------------------------------
\* The pool of queries of WorkStealingOnce is what is at the places.
LEMMA FlightAt ==
  \A q : q \in Once!InFlight <=>
    \/ \E l \in Stage, w \in Wire : \E i \in DOMAIN link[l][w] : link[l][w][i] = q
    \/ \E l \in Level, w \in Wire : \E i \in DOMAIN merge[l][w] : merge[l][w][i] = q
    \/ \E l \in Level, w \in Wire : \E i \in DOMAIN dist[l][w] : dist[l][w][i].item = q
    \/ \E l \in Level, w \in Wire, b \in Bit :
         \E i \in DOMAIN inner[l][w][b] : inner[l][w][b][i] = q
<1> TAKE q
<1> DEFINE F(s) == \E i \in DOMAIN s : s[i] = q
<1>1. \A s : q \in Once!ToSet(s) <=> F(s)
  BY DEF Once!ToSet
<1>2. \A s : q \in {h.item : h \in Once!ToSet(s)} <=> \E i \in DOMAIN s : s[i].item = q
  BY DEF Once!ToSet
<1>3. /\ \A l, w : q \in Once!ToSet(link[l][w]) <=> F(link[l][w])
      /\ \A l, w : q \in Once!ToSet(merge[l][w]) <=> F(merge[l][w])
      /\ \A l, w, b : q \in Once!ToSet(inner[l][w][b]) <=> F(inner[l][w][b])
      /\ \A l, w : q \in {h.item : h \in Once!ToSet(dist[l][w])}
                     <=> \E i \in DOMAIN dist[l][w] : dist[l][w][i].item = q
  BY <1>1, <1>2
<1>4. q \in Once!InFlight <=>
        \/ \E l \in Stage, w \in Wire : q \in Once!ToSet(link[l][w])
        \/ \E l \in Level, w \in Wire : q \in Once!ToSet(merge[l][w])
        \/ \E l \in Level, w \in Wire : q \in {h.item : h \in Once!ToSet(dist[l][w])}
        \/ \E l \in Level, w \in Wire, b \in Bit : q \in Once!ToSet(inner[l][w][b])
  <2> DEFINE A == {Once!ToSet(link[l][w]) : l \in Stage, w \in Wire}
             B == {Once!ToSet(merge[l][w]) : l \in Level, w \in Wire}
             C == {{h.item : h \in Once!ToSet(dist[l][w])} : l \in Level, w \in Wire}
             D == {Once!ToSet(inner[l][w][b]) : l \in Level, w \in Wire, b \in Bit}
  <2>1. Once!InFlight = UNION (A \cup B \cup C \cup D)
    BY DEF Once!InFlight, Level, Stage, Wire, Bit, Once!Level, Once!Stage, Once!Wire,
           Once!Bit
  <2>a. (\E e \in A : q \in e) <=> \E l \in Stage, w \in Wire : q \in Once!ToSet(link[l][w])
    OBVIOUS
  <2>b. (\E e \in B : q \in e) <=> \E l \in Level, w \in Wire : q \in Once!ToSet(merge[l][w])
    OBVIOUS
  <2>c. (\E e \in C : q \in e)
          <=> \E l \in Level, w \in Wire : q \in {h.item : h \in Once!ToSet(dist[l][w])}
    <3> DEFINE H(l, w) == {h.item : h \in Once!ToSet(dist[l][w])}
    <3>1. C = {H(l, w) : l \in Level, w \in Wire}
      OBVIOUS
    <3>2. (\E l \in Level, w \in Wire : q \in {h.item : h \in Once!ToSet(dist[l][w])})
            <=> \E l \in Level, w \in Wire : q \in H(l, w)
      OBVIOUS
    <3> HIDE DEF H, C
    <3> QED
      BY <3>1, <3>2
  <2>d. (\E e \in D : q \in e)
          <=> \E l \in Level, w \in Wire, b \in Bit : q \in Once!ToSet(inner[l][w][b])
    OBVIOUS
  <2> HIDE DEF A, B, C, D
  <2>3. q \in UNION (A \cup B \cup C \cup D) <=>
          \/ \E e \in A : q \in e
          \/ \E e \in B : q \in e
          \/ \E e \in C : q \in e
          \/ \E e \in D : q \in e
    OBVIOUS
  <2> QED
    BY <2>1, <2>a, <2>b, <2>c, <2>d, <2>3
<1> QED
  BY <1>3, <1>4

LEMMA InKinds ==
  ASSUME NEW P
  PROVE  \A q : q \in In(P) <=>
    \/ \E l \in Stage, w \in Wire : \E i \in DOMAIN P[LinkAt(l, w)] : P[LinkAt(l, w)][i] = q
    \/ \E l \in Level, w \in Wire : \E i \in DOMAIN P[MergeAt(l, w)] : P[MergeAt(l, w)][i] = q
    \/ \E l \in Level, w \in Wire : \E i \in DOMAIN P[DistAt(l, w)] : P[DistAt(l, w)][i] = q
    \/ \E l \in Level, w \in Wire, b \in Bit :
         \E i \in DOMAIN P[InnerAt(l, w, b)] : P[InnerAt(l, w, b)][i] = q
<1> TAKE q
<1>1. q \in In(P) <=> \E p \in Place : \E i \in DOMAIN P[p] : P[p][i] = q
  BY InAt
<1> DEFINE F(p) == \E i \in DOMAIN P[p] : P[p][i] = q
<1> HIDE DEF F
<1>2. (\E p \in Place : F(p)) <=>
         \/ \E l \in Stage, w \in Wire : F(LinkAt(l, w))
         \/ \E l \in Level, w \in Wire : F(MergeAt(l, w))
         \/ \E l \in Level, w \in Wire : F(DistAt(l, w))
         \/ \E l \in Level, w \in Wire, b \in Bit : F(InnerAt(l, w, b))
  BY DEF Place
<1> QED
  BY <1>1, <1>2 DEF F

LEMMA FlightIsIn == ASSUME NEW P, IsNet(P) PROVE Once!InFlight = In(P)
<1> SUFFICES ASSUME NEW q PROVE q \in Once!InFlight <=> q \in In(P)
  OBVIOUS
<1> DEFINE F(s) == \E i \in DOMAIN s : s[i] = q
           G(s) == \E i \in DOMAIN s : s[i].item = q
<1>1. \A l \in Level, w \in Wire : F(P[DistAt(l, w)]) <=> G(dist[l][w])
  <2> TAKE l \in Level, w \in Wire
  <2>1. P[DistAt(l, w)] = Items(dist[l][w])
    BY DEF IsNet, OfDist
  <2>2. /\ DOMAIN Items(dist[l][w]) = DOMAIN dist[l][w]
        /\ \A i \in DOMAIN dist[l][w] : Items(dist[l][w])[i] = dist[l][w][i].item
    BY DEF Items
  <2> QED
    BY <2>1, <2>2
<1>2. q \in Once!InFlight <=>
        \/ \E l \in Stage, w \in Wire : F(link[l][w])
        \/ \E l \in Level, w \in Wire : F(merge[l][w])
        \/ \E l \in Level, w \in Wire : G(dist[l][w])
        \/ \E l \in Level, w \in Wire, b \in Bit : F(inner[l][w][b])
  BY FlightAt
<1>3. q \in In(P) <=>
        \/ \E l \in Stage, w \in Wire : F(P[LinkAt(l, w)])
        \/ \E l \in Level, w \in Wire : F(P[MergeAt(l, w)])
        \/ \E l \in Level, w \in Wire : F(P[DistAt(l, w)])
        \/ \E l \in Level, w \in Wire, b \in Bit : F(P[InnerAt(l, w, b)])
  BY InKinds
<1>4. /\ \A l \in Stage, w \in Wire : P[LinkAt(l, w)] = link[l][w]
      /\ \A l \in Level, w \in Wire, b \in Bit : P[InnerAt(l, w, b)] = inner[l][w][b]
      /\ \A l \in Level, w \in Wire : P[MergeAt(l, w)] = merge[l][w]
  BY DEF IsNet, OfLinks, OfInner, OfMerge
<1> HIDE DEF F, G
<1> QED
  BY <1>1, <1>2, <1>3, <1>4

LEMMA FlightIsInAlways == \A P : IsNet(P) => Once!InFlight = In(P)
BY FlightIsIn

LEMMA FlightIsInNext == \A P : IsNet(P)' => Once!InFlight' = In(P)
<1>1. (\A P : IsNet(P) => Once!InFlight = In(P))'
  BY FlightIsInAlways, PTL
<1> QED
  BY <1>1

\* What is in the network was put in and not taken, and is in one place.
Pooled(P) ==
  IsNet(P) /\ EachOnce(P) /\ In(P) \cup taken \subseteq put /\ In(P) \cap taken = {}

PoolInv ==
  /\ NetShape(Query) /\ steal \in [Level -> [Wire -> Bit]]
  /\ \E P \in [Place -> Seq(Query)] : Pooled(P)

\* A step inside of the network leaves the pool as it is.
LEMMA PoolInside ==
  ASSUME PoolInv, UNCHANGED <<put, taken>>, steal' \in [Level -> [Wire -> Bit]],
         NEW P \in [Place -> Seq(Query)], Pooled(P),
         NEW p \in Place, NEW r \in Place, p # r, P[p] # <<>>,
         NEW R, R = Onward(P, p, r), NetShape(Query)', IsNet(R)'
  PROVE  PoolInv' /\ UNCHANGED Once!Pool!vars
<1>1. R \in [Place -> Seq(Query)] /\ EachOnce(R) /\ In(R) = In(P)
  BY OnwardOnce DEF Pooled
<1>2. Once!InFlight = In(P) /\ Once!InFlight' = In(R)
  BY FlightIsIn, FlightIsInNext DEF Pooled
<1>3. UNCHANGED Once!Pool!vars
  BY <1>1, <1>2 DEF Once!Pool!vars
<1>4. PoolInv'
  BY <1>1 DEF PoolInv, Pooled
<1> QED
  BY <1>3, <1>4

\* The port a distributor chooses is a port, whatever the state of the FIFOs.
LEMMA PortIsBit ==
  ASSUME steal \in [Level -> [Wire -> Bit]], NEW l \in Level, NEW w \in Wire
  PROVE  Once!StealPort(l, w) \in Bit
<1>1. steal[l][w] \in Bit /\ 1 - steal[l][w] \in Bit
  BY DEF Bit
<1> DEFINE full == [b \in Bit |-> Full(inner[l][w][b])]
<1>2. full[0] \in BOOLEAN /\ full[1] \in BOOLEAN
  BY DEF Full, Bit
<1>3. full[0] # full[1] => \E b \in Bit : ~full[b]
  BY <1>2 DEF Bit
<1>4. (\E b \in Bit : ~full[b]) => (CHOOSE b \in Bit : ~full[b]) \in Bit
  OBVIOUS
<1>5. Once!StealPort(l, w) = IF full[0] = full[1] THEN 1 - steal[l][w]
                             ELSE CHOOSE b \in Bit : ~full[b]
  BY DEF Once!StealPort, Once!Full, Full, Once!Bit, Bit
<1> HIDE DEF full
<1> QED
  BY <1>1, <1>3, <1>4, <1>5

LEMMA PoolSteals ==
  ASSUME PoolInv, NEW l \in Level, NEW w \in Wire, Once!ws_distribute_package(l, w),
         UNCHANGED <<put, taken>>
  PROVE  PoolInv' /\ UNCHANGED Once!Pool!vars
<1>P. PICK P \in [Place -> Seq(Query)] : Pooled(P)
  BY DEF PoolInv
<1>b. PICK b : b = Once!StealPort(l, w)
  OBVIOUS
<1>p. PICK p : p = LinkAt(l, w)
  OBVIOUS
<1>r. PICK r : r = DistAt(l, w)
  OBVIOUS
<1>R. PICK R : R = Onward(P, p, r)
  OBVIOUS
<1>1. b \in Bit
  BY <1>b, PortIsBit DEF PoolInv
<1>2. DistributeTo(l, w, b) /\ steal' = [steal EXCEPT ![l][w] = b]
  BY <1>b DEF Once!ws_distribute_package, Once!StealFlag, Once!DistributeTo, DistributeTo,
              Once!Empty, Empty
<1>3. steal' \in [Level -> [Wire -> Bit]]
  BY <1>1, <1>2 DEF PoolInv
<1>4. NetShape(Query) /\ IsNet(P)
  BY <1>P DEF PoolInv, Pooled
<1>5. NetShape(Query)' /\ IsNet(R)' /\ p \in Place /\ r \in Place /\ p # r /\ P[p] # <<>>
  BY <1>1, <1>2, <1>4, <1>p, <1>r, <1>R, DistributeToMoves
<1> QED
  BY <1>P, <1>R, <1>3, <1>5, PoolInside

LEMMA PoolDistributeWrites ==
  ASSUME PoolInv, NEW l \in Level, NEW w \in Wire, DistributeWrite(l, w),
         UNCHANGED <<steal, put, taken>>
  PROVE  PoolInv' /\ UNCHANGED Once!Pool!vars
<1>P. PICK P \in [Place -> Seq(Query)] : Pooled(P)
  BY DEF PoolInv
<1>p. PICK p : p = DistAt(l, w)
  OBVIOUS
<1>4. NetShape(Query) /\ IsNet(P) /\ steal' \in [Level -> [Wire -> Bit]]
  BY <1>P DEF PoolInv, Pooled
<1>m. PICK h \in HeldOf(Query), r \in Place : \E R :
        /\ dist[l][w] = <<h>> /\ r = InnerAt(l, w, h.port) /\ R = Onward(P, p, r)
        /\ NetShape(Query)' /\ IsNet(R)'
        /\ p \in Place /\ p # r /\ P[p] # <<>> /\ P[p] = <<h.item>>
  BY <1>4, <1>p, DistributeWriteMoves
<1>R. PICK R : R = Onward(P, p, r) /\ IsNet(R)'
  BY <1>m
<1> QED
  BY <1>P, <1>R, <1>4, <1>m, PoolInside

LEMMA PoolMerges ==
  ASSUME PoolInv, NEW l \in Level, NEW w \in Wire, merge_package(l, w),
         UNCHANGED <<steal, put, taken>>
  PROVE  PoolInv' /\ UNCHANGED Once!Pool!vars
<1>P. PICK P \in [Place -> Seq(Query)] : Pooled(P)
  BY DEF PoolInv
<1>r. PICK r : r = MergeAt(l, w)
  OBVIOUS
<1>4. NetShape(Query) /\ IsNet(P) /\ steal' \in [Level -> [Wire -> Bit]]
  BY <1>P DEF PoolInv, Pooled
<1>m. PICK c \in Bit, p \in Place : \E R :
        /\ p = InnerAt(l, Turn(w, l, c), w[l]) /\ R = Onward(P, p, r)
        /\ NetShape(Query)' /\ IsNet(R)'
        /\ r \in Place /\ p # r /\ P[p] # <<>>
  BY <1>4, <1>r, MergePackageMoves
<1>R. PICK R : R = Onward(P, p, r) /\ IsNet(R)'
  BY <1>m
<1> QED
  BY <1>P, <1>R, <1>4, <1>m, PoolInside

LEMMA PoolMergeWrites ==
  ASSUME PoolInv, NEW l \in Level, NEW w \in Wire, MergeWrite(l, w),
         UNCHANGED <<steal, put, taken>>
  PROVE  PoolInv' /\ UNCHANGED Once!Pool!vars
<1>P. PICK P \in [Place -> Seq(Query)] : Pooled(P)
  BY DEF PoolInv
<1>p. PICK p : p = MergeAt(l, w)
  OBVIOUS
<1>r. PICK r : r = LinkAt(l + 1, w)
  OBVIOUS
<1>R. PICK R : R = Onward(P, p, r)
  OBVIOUS
<1>4. NetShape(Query) /\ IsNet(P) /\ steal' \in [Level -> [Wire -> Bit]]
  BY <1>P DEF PoolInv, Pooled
<1>5. NetShape(Query)' /\ IsNet(R)' /\ p \in Place /\ r \in Place /\ p # r /\ P[p] # <<>>
  BY <1>4, <1>p, <1>r, <1>R, MergeWriteMoves
<1> QED
  BY <1>P, <1>R, <1>4, <1>5, PoolInside

\* FeedQuery: the query enters the pool.
LEMMA PoolFeeds ==
  ASSUME PoolInv, Home \in [Query -> Feeders], Feeders \subseteq Wire,
         NEW q \in Query, Once!FeedQuery(q)
  PROVE  PoolInv' /\ Once!Pool!Put(q)
<1>P. PICK P \in [Place -> Seq(Query)] : Pooled(P)
  BY DEF PoolInv
<1>w. PICK w \in Wire : w = Home[q]
  OBVIOUS
<1>p. PICK p : p = LinkAt(1, w)
  OBVIOUS
<1>R. PICK R : R = Put(P, p, Append(P[p], q))
  OBVIOUS
<1>1. /\ q \notin put /\ WriteLink(w, q) /\ put' = put \cup {q}
      /\ UNCHANGED <<steal, taken>>
  BY <1>w DEF Once!FeedQuery, Once!WriteLink, WriteLink, Once!Full, Full
<1>2. NetShape(Query) /\ IsNet(P) /\ p \in Place
  BY <1>P, <1>p, PlacesIn, LevelStage DEF PoolInv, Pooled
<1>3. NetShape(Query)' /\ IsNet(R)' /\ R \in [Place -> Seq(Query)]
  BY <1>1, <1>2, <1>p, <1>R, WriteLinkMoves
<1>4. EachOnce(R) /\ In(R) = In(P) \cup {q}
  <2>1. q \notin In(P) /\ EachOnce(P)
    BY <1>1, <1>P DEF Pooled
  <2> QED
    BY <1>2, <1>R, <2>1, PutOnce
<1>5. Once!InFlight = In(P) /\ Once!InFlight' = In(R)
  BY <1>2, <1>3, FlightIsIn, FlightIsInNext
<1>6. Once!Pool!Put(q)
  BY <1>1, <1>4, <1>5, <1>P DEF Once!Pool!Put, Pooled
<1>7. PoolInv'
  <2>1. Pooled(R)'
    BY <1>1, <1>3, <1>4, <1>P DEF Pooled
  <2> QED
    BY <1>1, <1>3, <2>1 DEF PoolInv
<1> QED
  BY <1>6, <1>7

\* DrainQuery: the query is taken out of the pool.
LEMMA PoolDrains ==
  ASSUME PoolInv, NEW w \in Wire, Once!DrainQuery(w)
  PROVE  PoolInv' /\ \E q \in Query : Once!Pool!Take(q)
<1>P. PICK P \in [Place -> Seq(Query)] : Pooled(P)
  BY DEF PoolInv
<1>p. PICK p : p = LinkAt(K + 1, w)
  OBVIOUS
<1>R. PICK R : R = Put(P, p, Tail(P[p]))
  OBVIOUS
<1>q. PICK q : q = Head(link[K + 1][w])
  OBVIOUS
<1>1. ReadLink(w) /\ taken' = taken \cup {q} /\ UNCHANGED <<steal, put>>
  BY <1>q DEF Once!DrainQuery, Once!ReadLink, ReadLink, Once!Empty, Empty
<1>2. NetShape(Query) /\ IsNet(P)
  BY <1>P DEF PoolInv, Pooled
<1>3. /\ NetShape(Query)' /\ IsNet(R)' /\ R \in [Place -> Seq(Query)]
      /\ p \in Place /\ P[p] # <<>> /\ P[p] = link[K + 1][w]
  BY <1>1, <1>2, <1>p, <1>R, ReadLinkMoves
<1>4. EachOnce(R) /\ q \in In(P) /\ In(R) = In(P) \ {q}
  <2>1. EachOnce(P)
    BY <1>P DEF Pooled
  <2> QED
    BY <1>3, <1>q, <1>R, <2>1, TakeOnce
<1>5. Once!InFlight = In(P) /\ Once!InFlight' = In(R)
  BY <1>2, <1>3, FlightIsIn, FlightIsInNext
<1>6. q \in Query
  <2>1. P[p] \in Seq(Query)
    BY <1>3
  <2> QED
    BY <1>3, <1>q, <2>1, ReadSeq
<1>7. Once!Pool!Take(q)
  BY <1>1, <1>4, <1>5 DEF Once!Pool!Take
<1>8. PoolInv'
  <2>1. Pooled(R)'
    BY <1>1, <1>3, <1>4, <1>P DEF Pooled
  <2> QED
    BY <1>1, <1>3, <2>1 DEF PoolInv
<1> QED
  BY <1>6, <1>7, <1>8

LEMMA PoolStarts == Once!OnceInit => PoolInv /\ Once!Pool!Init
<1> SUFFICES ASSUME Once!OnceInit PROVE PoolInv /\ Once!Pool!Init
  OBVIOUS
<1>1. NetInit /\ steal = [l \in Level |-> [w \in Wire |-> 0]] /\ put = {} /\ taken = {}
  BY DEF Once!OnceInit, Once!StealInit, Once!NetInit, NetInit, Once!Level, Level,
         Once!Wire, Wire, Once!Bit, Bit, Once!Stage, Stage
<1>2. PICK P \in [Place -> Seq(Query)] :
        NetShape(Query) /\ IsNet(P) /\ \A p \in Place : P[p] = <<>>
  BY <1>1, NetStarts
<1>3. \A p \in Place : DOMAIN P[p] = {}
  BY <1>2
<1>4. In(P) = {} /\ EachOnce(P)
  BY <1>3 DEF In, EachOnce
<1>5. Once!InFlight = {}
  BY <1>2, <1>4, FlightIsIn
<1>6. steal \in [Level -> [Wire -> Bit]]
  BY <1>1 DEF Bit
<1> QED
  BY <1>1, <1>2, <1>4, <1>5, <1>6 DEF PoolInv, Pooled, Once!Pool!Init

LEMMA PoolStep ==
  ASSUME Home \in [Query -> Feeders], Feeders \subseteq Wire
  PROVE  PoolInv /\ [Once!OnceNext]_(Once!onceVars)
           => PoolInv' /\ [Once!Pool!Next]_(Once!Pool!vars)
<1> SUFFICES ASSUME PoolInv, [Once!OnceNext]_(Once!onceVars)
             PROVE  PoolInv' /\ [Once!Pool!Next]_(Once!Pool!vars)
  OBVIOUS
<1>1. CASE \E q \in Query : Once!FeedQuery(q)
  BY <1>1, PoolFeeds DEF Once!Pool!Next
<1>2. CASE \E w \in Wire : Once!DrainQuery(w)
  BY <1>2, PoolDrains DEF Once!Pool!Next
<1>3. ASSUME NEW l \in Level, NEW w \in Wire, Once!Step(l, w)
      PROVE  PoolInv' /\ UNCHANGED Once!Pool!vars
  <2>1. UNCHANGED <<put, taken>> /\ Once!StealStep(l, w)
    BY <1>3 DEF Once!Step
  <2>2. CASE Once!ws_distribute_package(l, w)
    BY <2>1, <2>2, PoolSteals
  <2>3. CASE Once!DistributeWrite(l, w) /\ UNCHANGED steal
    <3>1. DistributeWrite(l, w)
      BY <2>3 DEF Once!DistributeWrite, DistributeWrite, Once!Empty, Empty, Once!Full, Full
    <3> QED
      BY <2>1, <2>3, <3>1, PoolDistributeWrites
  <2>4. CASE Once!merge_package(l, w) /\ UNCHANGED steal
    <3>1. merge_package(l, w)
      BY <2>4 DEF Once!merge_package, merge_package, Once!Empty, Empty, Once!Serves, Serves,
                  Once!Serve, Serve, Once!MergeInput, MergeInput, Once!Turn, Turn,
                  Once!Bit, Bit
    <3> QED
      BY <2>1, <2>4, <3>1, PoolMerges
  <2>5. CASE Once!MergeWrite(l, w) /\ UNCHANGED steal
    <3>1. MergeWrite(l, w)
      BY <2>5 DEF Once!MergeWrite, MergeWrite, Once!Empty, Empty, Once!Full, Full
    <3> QED
      BY <2>1, <2>5, <3>1, PoolMergeWrites
  <2> QED
    BY <2>1, <2>2, <2>3, <2>4, <2>5 DEF Once!StealStep
<1>4. CASE UNCHANGED Once!onceVars
  <2>1. /\ link' = link /\ dist' = dist /\ inner' = inner /\ merge' = merge
        /\ steal' = steal /\ put' = put /\ taken' = taken
    BY <1>4 DEF Once!onceVars, Once!vars
  <2>P. PICK P \in [Place -> Seq(Query)] : Pooled(P)
    BY DEF PoolInv
  <2>2. NetShape(Query)'
    BY <2>1 DEF PoolInv, NetShape
  <2>3. IsNet(P)'
    BY <2>1, <2>P DEF Pooled, IsNet, OfLinks, OfDist, OfInner, OfMerge
  <2>4. Pooled(P)'
    BY <2>1, <2>3, <2>P DEF Pooled
  <2>5. PoolInv'
    BY <2>1, <2>2, <2>4 DEF PoolInv
  <2>6. Once!InFlight' = Once!InFlight
    BY <2>3, <2>P, FlightIsIn, FlightIsInNext DEF Pooled
  <2> QED
    BY <2>1, <2>5, <2>6 DEF Once!Pool!vars
<1>5. Level = Once!Level /\ Wire = Once!Wire
  BY DEF Once!Level, Level, Once!Wire, Wire, Once!Bit, Bit
<1> QED
  BY <1>1, <1>2, <1>3, <1>4, <1>5 DEF Once!OnceNext, Once!Served

\* StealingIsPool: fairness apart, the work-stealing network implements the pool of
\* WorkPool: a query that was put in is in the network once until it is taken out.
THEOREM StealingIsPool ==
  ASSUME Once!HomeAssumption, Once!FeedersAssumption
  PROVE  Once!OnceSpec => Once!Pool!Init /\ [][Once!Pool!Next]_(Once!Pool!vars)
<1>1. Home \in [Query -> Feeders] /\ Feeders \subseteq Wire
  BY DEF Once!HomeAssumption, Once!FeedersAssumption, Once!Wire, Wire, Once!Level, Level,
         Once!Bit, Bit
<1>2. PoolInv /\ [Once!OnceNext]_(Once!onceVars)
        => PoolInv' /\ [Once!Pool!Next]_(Once!Pool!vars)
  BY <1>1, PoolStep
<1> QED
  BY <1>2, PoolStarts, PTL DEF Once!OnceSpec
=============================================================================
