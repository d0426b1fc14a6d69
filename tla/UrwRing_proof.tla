---------------------------- MODULE UrwRing_proof ----------------------------
(***************************************************************************)
(* For every set of queries and lanes, lengths of walks, number of credits *)
(* and depths:                                                             *)
(*                                                                         *)
(*  - a walk of length n makes n + 1 steps (ExactLength).  The step of a   *)
(*    walk adds one to a count that every package of the same query is     *)
(*    measured by, so the invariant says that there is only one: each      *)
(*    query has a home, which is the stream it is in;                      *)
(*  - neither credits nor time-outs leave their bounds (TypeOK);           *)
(*  - the ring holds no more walks than the credits stand for              *)
(*    (RingBounded), at every point between a walk that ends and the       *)
(*    credit it gives back;                                                *)
(*  - every step is one of the abstract pool (Pool) or leaves it alone.    *)
(***************************************************************************)
EXTENDS UrwRing, SequenceTheorems, FiniteSetTheorems, TLAPS

OutWalk == [query : Query, left : Nat, via : Lane]

\* The homes: 1 to 5 with a lane are the streams new, hold, out, ret and old.
Home == (0..6) \X (Lane \cup {0})
AtLoader == <<0, 0>>
AtEnd == <<6, 0>>

Els(s) == {s[i] : i \in 1..Len(s)}
Distinct(s) == \A i, j \in 1..Len(s) : s[i].query = s[j].query => i = j

\* A package is taken from, or written to, the stream of lane l; a query moves.
Took(f, l) == [f EXCEPT ![l] = Tail(@)]
Put(f, l, x) == [f EXCEPT ![l] = Append(@, x)]
Moved(home, q, h) == [home EXCEPT ![q] = h]

\* The streams of f hold packages of g, none of query q, and perhaps x.
Less(f, g, q) ==
  \A l \in Lane : \A e \in Els(f[l]) : e \in Els(g[l]) /\ e.query \in Query /\ e.query # q
More(f, g, x) ==
  \A l \in Lane : \A e \in Els(f[l]) :
    \/ e \in Els(g[l]) /\ e.query \in Query /\ e.query # x.query
    \/ e = x

\* The streams of f are home k of their queries.
Placed(k, f, home) ==
  \A l \in Lane : Distinct(f[l]) /\ \A e \in Els(f[l]) : home[e.query] = <<k, l>>

AllPlaced(home) ==
  /\ Placed(1, new, home) /\ Placed(2, hold, home) /\ Placed(3, out, home)
  /\ Placed(4, ret, home) /\ Placed(5, old, home)
  /\ \A q \in fresh : home[q] = AtLoader
  /\ \A q \in finished : home[q] = AtEnd

\* A walk has made the steps it no longer has to make; d is 1 behind the step.
Right(st, f, d) ==
  \A l \in Lane : \A e \in Els(f[l]) : st[e.query] = WalkLen[e.query] - e.left + d

Fresh(st, f) == \A l \in Lane : \A e \in Els(f[l]) : st[e.query] = 0

AllRight ==
  /\ Right(steps, new, 0) /\ Right(steps, hold, 0) /\ Right(steps, out, 0)
  /\ Right(steps, ret, 1) /\ Right(steps, old, 1)
  /\ Fresh(steps, new)
  /\ \A q \in fresh : steps[q] = 0
  /\ \A q \in finished : steps[q] = WalkLen[q] + 1

IInv == TypeOK /\ AllRight /\ \E home \in [Query -> Home] : AllPlaced(home)

-----------------------------------------------------------------------------
(* Streams *)

\* What is left when the head of a stream has been taken.
LEMMA Taken ==
  ASSUME NEW T, NEW s \in Seq(T), s # <<>>
  PROVE  /\ Tail(s) \in Seq(T) /\ Head(s) \in T /\ Head(s) \in Els(s)
         /\ Els(Tail(s)) \subseteq Els(s)
         /\ Distinct(s) => /\ Distinct(Tail(s))
                           /\ \A e \in Els(Tail(s)) : e.query # Head(s).query
<1>1. /\ Tail(s) \in Seq(T) /\ Len(Tail(s)) = Len(s) - 1
      /\ \A i \in 1..Len(Tail(s)) : Tail(s)[i] = s[i + 1]
      /\ Len(s) \in Nat \ {0} /\ Head(s) = s[1] /\ Head(s) \in T
  BY HeadTailProperties, EmptySeq
<1>2. /\ \A i \in 1..Len(Tail(s)) : i + 1 \in 1..Len(s) /\ i + 1 # 1
      /\ \A i, j \in 1..Len(Tail(s)) : i + 1 = j + 1 => i = j
      /\ 1 \in 1..Len(s)
  BY <1>1
<1> QED
  BY <1>1, <1>2 DEF Els, Distinct

\* A stream to which a package has been written.
LEMMA Written ==
  ASSUME NEW T, NEW s \in Seq(T), NEW x \in T
  PROVE  /\ Append(s, x) \in Seq(T) /\ Els(Append(s, x)) = Els(s) \cup {x}
         /\ (Distinct(s) /\ \A e \in Els(s) : e.query # x.query) => Distinct(Append(s, x))
<1>1. /\ Append(s, x) \in Seq(T) /\ Len(Append(s, x)) = Len(s) + 1
      /\ \A i \in 1..Len(s) : Append(s, x)[i] = s[i]
      /\ Append(s, x)[Len(s) + 1] = x /\ Len(s) \in Nat
  BY LenProperties, AppendProperties
<1>2. \A i : i \in 1..(Len(s) + 1) <=> i \in 1..Len(s) \/ i = Len(s) + 1
  BY <1>1
<1> QED
  BY <1>1, <1>2 DEF Els, Distinct

LEMMA Nothing ==
  \A T : <<>> \in Seq(T) /\ Els(<<>>) = {} /\ Distinct(<<>>)
BY DEF Els, Distinct

-----------------------------------------------------------------------------
(* The streams of all lanes *)

\* Package w is the head of stream l of f, the streams of home k.
Source(T, f, l, w, k, home) ==
  /\ f \in [Lane -> Seq(T)] /\ l \in Lane /\ f[l] # <<>> /\ w = Head(f[l])
  /\ (\A x \in T : x.query \in Query)
  /\ home \in [Query -> Home] /\ Placed(k, f, home)

\* It leaves the stream for home h.
LEMMA Leaves ==
  ASSUME NEW T, NEW f, NEW l, NEW w, NEW k, NEW home, Source(T, f, l, w, k, home),
         NEW h \in Home
  PROVE  /\ Took(f, l) \in [Lane -> Seq(T)]
         /\ Placed(k, Took(f, l), Moved(home, w.query, h))
         /\ Less(Took(f, l), f, w.query)
         /\ w \in T /\ w \in Els(f[l])
         /\ home[w.query] = <<k, l>>
<1> DEFINE g == Took(f, l)
           q == w.query
<1> USE DEF Source
<1>1. f[l] \in Seq(T)
  OBVIOUS
<1>2. /\ Tail(f[l]) \in Seq(T) /\ Head(f[l]) \in T /\ Head(f[l]) \in Els(f[l])
      /\ Els(Tail(f[l])) \subseteq Els(f[l])
      /\ Distinct(f[l]) => /\ Distinct(Tail(f[l]))
                           /\ \A e \in Els(Tail(f[l])) : e.query # q
  BY <1>1, Taken
<1>3. home[q] = <<k, l>> /\ q \in Query
  BY <1>2 DEF Placed
<1>4. \A m \in Lane : Distinct(g[m]) /\ \A e \in Els(g[m]) :
              e \in Els(f[m]) /\ e.query \in Query /\ e.query # q
  <2>1. TAKE m \in Lane
  <2>2. \A e \in Els(f[m]) : e.query \in Query
    BY DEF Els
  <2>3. CASE m = l
    BY <1>2, <2>2, <2>3 DEF Placed, Took
  <2>4. CASE m # l
    <3>1. g[m] = f[m] /\ <<k, m>> # <<k, l>>
      BY <2>4 DEF Took
    <3> QED
      BY <1>3, <2>2, <3>1 DEF Placed
  <2> QED
    BY <2>3, <2>4
<1>5. Placed(k, g, Moved(home, q, h))
  BY <1>4 DEF Placed, Moved
<1>6. g \in [Lane -> Seq(T)]
  BY <1>2 DEF Took
<1> QED
  BY <1>2, <1>3, <1>4, <1>5, <1>6 DEF Less

\* A query that is elsewhere comes to stream m of g.
LEMMA Comes ==
  ASSUME NEW T, NEW g \in [Lane -> Seq(T)], NEW m \in Lane, NEW x \in T,
         \A y \in T : y.query \in Query,
         NEW home \in [Query -> Home], NEW k, Placed(k, g, home),
         \A l \in Lane : home[x.query] # <<k, l>>
  PROVE  /\ Put(g, m, x) \in [Lane -> Seq(T)]
         /\ Placed(k, Put(g, m, x), Moved(home, x.query, <<k, m>>))
         /\ More(Put(g, m, x), g, x)
<1> DEFINE f == Put(g, m, x)
<1>1. \A l \in Lane : \A e \in Els(g[l]) : e.query \in Query /\ e.query # x.query
  BY DEF Els, Placed
<1>2. g[m] \in Seq(T)
  OBVIOUS
<1>3. /\ Append(g[m], x) \in Seq(T) /\ Els(Append(g[m], x)) = Els(g[m]) \cup {x}
      /\ (Distinct(g[m]) /\ \A e \in Els(g[m]) : e.query # x.query) => Distinct(Append(g[m], x))
  BY <1>2, Written
<1>4. Distinct(Append(g[m], x))
  BY <1>1, <1>3 DEF Placed
<1>5. \A l \in Lane : f[l] = IF l = m THEN Append(g[m], x) ELSE g[l]
  BY DEF Put
<1>6. \A l \in Lane : \A e \in Els(f[l]) :
        \/ e \in Els(g[l]) /\ e.query \in Query /\ e.query # x.query
        \/ e = x /\ l = m
  BY <1>1, <1>3, <1>5
<1>7. x.query \in Query
  OBVIOUS
<1>8. Placed(k, f, Moved(home, x.query, <<k, m>>))
  BY <1>4, <1>5, <1>6, <1>7 DEF Placed, Moved
<1>9. f \in [Lane -> Seq(T)]
  BY <1>3, <1>5 DEF Put
<1> QED
  BY <1>6, <1>8, <1>9 DEF More

\* Streams that a query which changes its home is not in.
LEMMA Stays ==
  ASSUME NEW T, NEW f \in [Lane -> Seq(T)], \A y \in T : y.query \in Query,
         NEW home \in [Query -> Home], NEW k, Placed(k, f, home),
         NEW q \in Query, \A l \in Lane : home[q] # <<k, l>>, NEW h \in Home
  PROVE  /\ Placed(k, f, Moved(home, q, h))
         /\ Less(f, f, q)
<1>1. \A l \in Lane : \A e \in Els(f[l]) : e.query \in Query /\ e.query # q
  BY DEF Els, Placed
<1> QED
  BY <1>1 DEF Placed, Moved, Less

-----------------------------------------------------------------------------
(* The invariant holds initially and every action keeps it. *)

LEMMA Packages ==
  /\ \A x \in Walk : x.query \in Query
  /\ \A x \in OutWalk : x.query \in Query
  /\ \A k \in 1..5 : \A l : AtLoader # <<k, l>> /\ AtEnd # <<k, l>>
  /\ \A i, j : i # j => \A l, m : <<i, l>> # <<j, m>>
  /\ \A k \in 1..5 : \A l \in Lane : <<k, l>> \in Home
  /\ AtLoader \in Home /\ AtEnd \in Home /\ AtLoader # AtEnd
BY DEF Walk, OutWalk, AtLoader, AtEnd, Home

\* What the invariant says of the types.
LEMMA Types ==
  TypeOK <=> /\ fresh \subseteq Query /\ finished \subseteq Query
             /\ new \in [Lane -> Seq(Walk)] /\ hold \in [Lane -> Seq(Walk)]
             /\ ret \in [Lane -> Seq(Walk)] /\ old \in [Lane -> Seq(Walk)]
             /\ out \in [Lane -> Seq(OutWalk)]
             /\ counter \in [Lane -> 0..Ahead] /\ timeout \in [Lane -> 0..Timeout]
             /\ steps \in [Query -> Nat] /\ granted \in Nat
BY DEF TypeOK, OutWalk

LEMMA InitIInv == Init => IInv
<1> SUFFICES ASSUME Init PROVE IInv
  OBVIOUS
<1> DEFINE home == [q \in Query |-> AtLoader]
<1>1. home \in [Query -> Home]
  BY Packages
<1>2. \A l \in Lane : /\ new[l] = <<>> /\ hold[l] = <<>> /\ out[l] = <<>>
                      /\ ret[l] = <<>> /\ old[l] = <<>>
  BY DEF Init
<1>3. TypeOK
  <2>1. new \in [Lane -> Seq(Walk)] /\ new \in [Lane -> Seq(OutWalk)]
    BY Nothing DEF Init
  <2> QED
    BY <2>1, RingAssumption, Types DEF Init
<1>4. AllRight
  BY <1>2, Nothing DEF AllRight, Right, Fresh, Init
<1>5. AllPlaced(home)
  BY <1>2, Nothing DEF AllPlaced, Placed, Init
<1> QED
  BY <1>1, <1>3, <1>4, <1>5 DEF IInv

\* The counts stay right: other streams, and a stream that gets package x.
LEMMA RightLess ==
  ASSUME NEW st, NEW st2, NEW f, NEW g, NEW q, NEW d, Right(st, f, d), Less(g, f, q),
         \A p \in Query : p # q => st2[p] = st[p]
  PROVE  Right(st2, g, d)
BY DEF Right, Less

LEMMA RightMore ==
  ASSUME NEW st, NEW st2, NEW f, NEW g, NEW x, NEW d, Right(st, f, d), More(g, f, x),
         \A p \in Query : p # x.query => st2[p] = st[p],
         st2[x.query] = WalkLen[x.query] - x.left + d
  PROVE  Right(st2, g, d)
BY DEF Right, More

LEMMA FreshLess ==
  ASSUME NEW st, NEW st2, NEW f, NEW g, NEW q, Fresh(st, f), Less(g, f, q),
         \A p \in Query : p # q => st2[p] = st[p]
  PROVE  Fresh(st2, g)
BY DEF Fresh, Less

\* A query that moves from stream to stream is neither fresh nor finished.
Streaming(home, q) ==
  /\ TypeOK /\ home \in [Query -> Home] /\ AllPlaced(home) /\ q \in Query
  /\ \E k \in 1..5, l \in Lane : home[q] = <<k, l>>

LEMMA Between ==
  ASSUME NEW home, NEW q, Streaming(home, q), NEW h \in Home
  PROVE  /\ q \notin fresh /\ q \notin finished
         /\ Moved(home, q, h) \in [Query -> Home]
         /\ \A p \in fresh : Moved(home, q, h)[p] = AtLoader
         /\ \A p \in finished : Moved(home, q, h)[p] = AtEnd
<1>1. fresh \subseteq Query /\ finished \subseteq Query
  BY Types DEF Streaming
<1>2. (\A p \in fresh : home[p] = AtLoader) /\ \A p \in finished : home[p] = AtEnd
  BY DEF AllPlaced, Streaming
<1>3. home[q] # AtLoader /\ home[q] # AtEnd
  BY DEF Streaming, AtLoader, AtEnd
<1> QED
  BY <1>1, <1>2, <1>3 DEF Moved, Streaming

LEMMA LoadStep ==
  ASSUME IInv, NEW q \in Query, NEW l \in Lane, Load(q, l)
  PROVE  IInv'
<1>1. PICK home \in [Query -> Home] : AllPlaced(home)
  BY DEF IInv
<1>11. PICK x \in Walk : x = [query |-> q, left |-> WalkLen[q]]
  BY RingAssumption DEF Walk
<1> DEFINE hh == Moved(home, q, <<1, l>>)
<1>2. /\ TypeOK /\ AllRight
      /\ new' = Put(new, l, x) /\ fresh' = fresh \ {q} /\ q \in fresh
      /\ UNCHANGED <<hold, out, ret, old, counter, timeout, finished, steps, granted>>
  BY <1>11 DEF IInv, Load, Put
<1>3. x.query = q /\ x.left = WalkLen[q] /\ WalkLen[q] \in Nat
  BY <1>11, RingAssumption
<1>4. home[q] = AtLoader /\ steps[q] = 0
  BY <1>1, <1>2 DEF AllPlaced, AllRight
<1>5. new' \in [Lane -> Seq(Walk)] /\ Placed(1, new', hh) /\ More(new', new, x)
  <2>1. new \in [Lane -> Seq(Walk)] /\ Placed(1, new, home)
    BY <1>1, <1>2, Types DEF AllPlaced
  <2>2. \A m \in Lane : home[x.query] # <<1, m>>
    BY <1>3, <1>4 DEF AtLoader
  <2>3. \A y \in Walk : y.query \in Query
    BY Packages
  <2>4. /\ Put(new, l, x) \in [Lane -> Seq(Walk)]
        /\ Placed(1, Put(new, l, x), Moved(home, x.query, <<1, l>>))
        /\ More(Put(new, l, x), new, x)
    BY <2>1, <2>2, <2>3, Comes, Zenon
  <2> QED
    BY <1>2, <1>3, <2>4
<1>6. /\ Placed(2, hold, hh) /\ Placed(3, out, hh)
      /\ Placed(4, ret, hh) /\ Placed(5, old, hh)
  <2>1. \A m \in Lane : /\ home[q] # <<2, m>> /\ home[q] # <<3, m>>
                        /\ home[q] # <<4, m>> /\ home[q] # <<5, m>>
    BY <1>4 DEF AtLoader
  <2>2. /\ hold \in [Lane -> Seq(Walk)] /\ ret \in [Lane -> Seq(Walk)]
        /\ old \in [Lane -> Seq(Walk)] /\ out \in [Lane -> Seq(OutWalk)]
        /\ <<1, l>> \in Home
        /\ (\A y \in Walk : y.query \in Query) /\ \A y \in OutWalk : y.query \in Query
    BY <1>2, Packages, Types
  <2>3. Placed(2, hold, hh)
    BY <1>1, <2>1, <2>2, Stays, Zenon DEF AllPlaced
  <2>4. Placed(3, out, hh)
    BY <1>1, <2>1, <2>2, Stays, Zenon DEF AllPlaced
  <2>5. Placed(4, ret, hh)
    BY <1>1, <2>1, <2>2, Stays, Zenon DEF AllPlaced
  <2>6. Placed(5, old, hh)
    BY <1>1, <2>1, <2>2, Stays, Zenon DEF AllPlaced
  <2> QED
    BY <2>3, <2>4, <2>5, <2>6
<1>7. hh \in [Query -> Home]
  BY Packages DEF Moved
<1>8. AllPlaced(hh)'
  <2>1. (\A p \in fresh' : hh[p] = AtLoader) /\ (\A p \in finished : hh[p] = AtEnd)
    BY <1>1, <1>2, <1>4, Packages, Types DEF AllPlaced, Moved
  <2> QED
    BY <1>2, <1>5, <1>6, <2>1 DEF AllPlaced
<1>9. AllRight'
  <2>1. Right(steps, new', 0) /\ Fresh(steps, new')
    BY <1>2, <1>3, <1>4, <1>5 DEF AllRight, Right, Fresh, More
  <2> QED
    BY <1>2, <2>1 DEF AllRight
<1>10. TypeOK'
  <2>1. fresh' \subseteq Query
    BY <1>2, Types
  <2> QED
    BY <1>2, <1>5, <2>1 DEF TypeOK, Walk
<1> QED
  BY <1>7, <1>8, <1>9, <1>10 DEF IInv

LEMMA FinishStep ==
  ASSUME IInv, NEW l \in Lane, MergeOld(l), LastStep(Head(old[l]))
  PROVE  IInv'
<1>1. PICK home \in [Query -> Home] : AllPlaced(home)
  BY DEF IInv
<1>11. PICK w \in Walk : w = Head(old[l])
  BY Taken, Types DEF IInv, MergeOld, Empty
<1> DEFINE q == w.query
           hh == Moved(home, q, AtEnd)
<1>2. /\ TypeOK /\ AllRight
      /\ old[l] # <<>> /\ old' = Took(old, l) /\ finished' = finished \cup {q}
      /\ counter' = [counter EXCEPT ![l] = Credit(@)] /\ timeout' = [timeout EXCEPT ![l] = 0]
      /\ UNCHANGED <<hold, fresh, new, out, ret, steps, granted>>
  BY <1>11 DEF IInv, MergeOld, Took, Empty
<1>3. /\ new \in [Lane -> Seq(Walk)] /\ hold \in [Lane -> Seq(Walk)]
      /\ ret \in [Lane -> Seq(Walk)] /\ old \in [Lane -> Seq(Walk)]
      /\ out \in [Lane -> Seq(OutWalk)] /\ AtEnd \in Home
      /\ (\A y \in Walk : y.query \in Query) /\ \A y \in OutWalk : y.query \in Query
  BY <1>2, Packages, Types
<1>4. /\ old' \in [Lane -> Seq(Walk)] /\ Placed(5, old', hh) /\ Less(old', old, q)
      /\ w \in Els(old[l]) /\ home[q] = <<5, l>>
  <2>1. Placed(5, old, home)
    BY <1>1 DEF AllPlaced
  <2>2. /\ Took(old, l) \in [Lane -> Seq(Walk)] /\ Placed(5, Took(old, l), hh)
        /\ Less(Took(old, l), old, q)
        /\ w \in Els(old[l]) /\ home[q] = <<5, l>>
    <3>1. Source(Walk, old, l, w, 5, home)
      BY <1>2, <1>11, <1>3, <2>1 DEF Source
    <3> QED
      BY <1>3, <3>1, Leaves
  <2> QED
    BY <1>2, <2>2
<1>5. q \in Query
  BY <1>3, <1>4
<1>6. /\ Placed(1, new, hh) /\ Placed(2, hold, hh) /\ Placed(3, out, hh) /\ Placed(4, ret, hh)
      /\ Less(new, new, q) /\ Less(hold, hold, q) /\ Less(out, out, q) /\ Less(ret, ret, q)
  <2>1. \A m \in Lane : /\ home[q] # <<1, m>> /\ home[q] # <<2, m>>
                        /\ home[q] # <<3, m>> /\ home[q] # <<4, m>>
    BY <1>4
  <2>2. Placed(1, new, hh) /\ Less(new, new, q)
    BY <1>1, <1>3, <1>5, <2>1, Stays, Zenon DEF AllPlaced
  <2>3. Placed(2, hold, hh) /\ Less(hold, hold, q)
    BY <1>1, <1>3, <1>5, <2>1, Stays, Zenon DEF AllPlaced
  <2>4. Placed(3, out, hh) /\ Less(out, out, q)
    BY <1>1, <1>3, <1>5, <2>1, Stays, Zenon DEF AllPlaced
  <2>5. Placed(4, ret, hh) /\ Less(ret, ret, q)
    BY <1>1, <1>3, <1>5, <2>1, Stays, Zenon DEF AllPlaced
  <2> QED
    BY <2>2, <2>3, <2>4, <2>5
<1>7. /\ q \notin fresh /\ hh \in [Query -> Home]
      /\ \A p \in fresh : hh[p] = AtLoader
      /\ \A p \in finished : hh[p] = AtEnd
  <2>1. Streaming(home, q)
    BY <1>1, <1>2, <1>4, <1>5 DEF Streaming
  <2> QED
    BY <1>3, <2>1, Between
<1>8. AllPlaced(hh)'
  <2>1. \A p \in finished' : hh[p] = AtEnd
    BY <1>1, <1>2, <1>5, <1>7 DEF Moved
  <2> QED
    BY <1>2, <1>4, <1>6, <1>7, <2>1 DEF AllPlaced
<1>9. AllRight'
  <2>1. Right(steps, old', 1)
    BY <1>2, <1>4, RightLess DEF AllRight
  <2>2. steps[q] = WalkLen[q] + 1
    <3>1. PICK n \in Nat : n = WalkLen[q]
      BY <1>5, RingAssumption
    <3>2. w.left = 0
      BY <1>11 DEF LastStep
    <3>3. steps[q] = n - 0 + 1
      BY <1>2, <1>4, <3>1, <3>2 DEF AllRight, Right
    <3> QED
      BY <3>1, <3>3
  <2> QED
    BY <1>2, <2>1, <2>2 DEF AllRight
<1>10. TypeOK'
  <2>1. counter' \in [Lane -> 0..Ahead]
    <3>1. counter \in [Lane -> 0..Ahead]
      BY <1>2, Types
    <3>2. \A c \in 0..Ahead : Credit(c) \in 0..Ahead
      BY RingAssumption DEF Credit
    <3> QED
      BY <1>2, <3>1, <3>2
  <2>2. timeout' \in [Lane -> 0..Timeout]
    <3>1. timeout \in [Lane -> 0..Timeout]
      BY <1>2, Types
    <3> QED
      BY <1>2, <3>1, RingAssumption
  <2>3. finished' \subseteq Query
    BY <1>2, <1>5, Types
  <2> QED
    BY <1>2, <1>4, <2>1, <2>2, <2>3 DEF TypeOK, Walk
<1> QED
  BY <1>7, <1>8, <1>9, <1>10 DEF IInv

-----------------------------------------------------------------------------
(* A walk moves from a stream to a later one: what all other actions do. *)

Streams == <<new, hold, out, ret, old>>
Kind(k) == IF k = 3 THEN OutWalk ELSE Walk
Behind(k) == IF k <= 3 THEN 0 ELSE 1

Good(S, home) ==
  /\ home \in [Query -> Home]
  /\ \A k \in 1..5 : S[k] \in [Lane -> Seq(Kind(k))] /\ Placed(k, S[k], home)

Others(R, S, j, q) == \A k \in 1..5 : k # j => Less(R[k], S[k], q)

\* R is S after package w moved from lane l of stream i to lane m of stream j, as x.
Move(S, R, i, l, w, j, m, x) ==
  /\ i \in 1..5 /\ j \in 2..5 /\ i # j /\ l \in Lane /\ m \in Lane
  /\ S[i][l] # <<>> /\ w = Head(S[i][l]) /\ x \in Kind(j) /\ x.query = w.query
  /\ R[i] = Took(S[i], l) /\ R[j] = Put(S[j], m, x)
  /\ \A k \in 1..5 : k # i /\ k # j => R[k] = S[k]

LEMMA MoveGood ==
  ASSUME NEW S, NEW R, NEW i, NEW l, NEW w, NEW j, NEW m, NEW x, NEW home,
         Move(S, R, i, l, w, j, m, x), Good(S, home)
  PROVE  /\ w \in Kind(i) /\ w.query \in Query /\ w \in Els(S[i][l])
         /\ home[w.query] = <<i, l>>
         /\ Good(R, Moved(home, w.query, <<j, m>>))
         /\ More(R[j], S[j], x) /\ Others(R, S, j, w.query)
<1> DEFINE hh == Moved(home, w.query, <<j, m>>)
<1>1. /\ i \in 1..5 /\ j \in 1..5 /\ i # j /\ l \in Lane /\ m \in Lane
      /\ home \in [Query -> Home] /\ <<j, m>> \in Home /\ x \in Kind(j) /\ x.query = w.query
  BY DEF Move, Good, Home
<1>2. \A k \in 1..5 : \A y \in Kind(k) : y.query \in Query
  BY DEF Kind, Walk, OutWalk
<1>3. /\ Took(S[i], l) \in [Lane -> Seq(Kind(i))] /\ Placed(i, Took(S[i], l), hh)
      /\ Less(Took(S[i], l), S[i], w.query)
      /\ w \in Kind(i) /\ w \in Els(S[i][l]) /\ home[w.query] = <<i, l>>
  <2>1. Source(Kind(i), S[i], l, w, i, home)
    BY <1>1, <1>2 DEF Source, Move, Good
  <2>2. <<j, m>> \in Home
    BY <1>1
  <2> QED
    BY <2>1, <2>2, Leaves
<1>4. w.query \in Query
  BY <1>1, <1>2, <1>3
<1>5. \A k \in 1..5 : k # i => \A n \in Lane : home[w.query] # <<k, n>>
  BY <1>3
<1>6. /\ Put(S[j], m, x) \in [Lane -> Seq(Kind(j))] /\ Placed(j, Put(S[j], m, x), hh)
      /\ More(Put(S[j], m, x), S[j], x)
  <2>1. S[j] \in [Lane -> Seq(Kind(j))] /\ Placed(j, S[j], home)
    BY <1>1 DEF Good
  <2>2. \A n \in Lane : home[x.query] # <<j, n>>
    BY <1>1, <1>5
  <2>3. \A y \in Kind(j) : y.query \in Query
    BY <1>1, <1>2
  <2>4. /\ Put(S[j], m, x) \in [Lane -> Seq(Kind(j))]
        /\ Placed(j, Put(S[j], m, x), Moved(home, x.query, <<j, m>>))
        /\ More(Put(S[j], m, x), S[j], x)
    BY <1>1, <2>1, <2>2, <2>3, Comes, Zenon
  <2> QED
    BY <1>1, <2>4
<1>7. \A k \in 1..5 : k # i /\ k # j => Placed(k, S[k], hh) /\ Less(S[k], S[k], w.query)
  <2>1. TAKE k \in 1..5
  <2>2. HAVE k # i /\ k # j
  <2>3. S[k] \in [Lane -> Seq(Kind(k))] /\ Placed(k, S[k], home)
    BY DEF Good
  <2>4. \A y \in Kind(k) : y.query \in Query
    BY <1>2
  <2>5. \A n \in Lane : home[w.query] # <<k, n>>
    BY <1>5, <2>2
  <2> QED
    BY <1>1, <1>4, <2>3, <2>4, <2>5, Stays, Zenon
<1>8. hh \in [Query -> Home]
  BY <1>1 DEF Moved
<1>9. \A k \in 1..5 : R[k] \in [Lane -> Seq(Kind(k))] /\ Placed(k, R[k], hh)
  BY <1>3, <1>6, <1>7 DEF Move, Good
<1>10. More(R[j], S[j], x) /\ Others(R, S, j, w.query)
  BY <1>3, <1>6, <1>7 DEF Move, Others
<1> QED
  BY <1>3, <1>4, <1>8, <1>9, <1>10 DEF Good

\* The invariant by streams.
StreamInv ==
  /\ \E home : /\ Good(Streams, home)
               /\ \A q \in fresh : home[q] = AtLoader
               /\ \A q \in finished : home[q] = AtEnd
  /\ \A k \in 1..5 : Right(steps, Streams[k], Behind(k))
  /\ Fresh(steps, Streams[1])
  /\ \A q \in fresh : steps[q] = 0
  /\ \A q \in finished : steps[q] = WalkLen[q] + 1
  /\ fresh \subseteq Query /\ finished \subseteq Query
  /\ counter \in [Lane -> 0..Ahead] /\ timeout \in [Lane -> 0..Timeout]
  /\ steps \in [Query -> Nat] /\ granted \in Nat

LEMMA ByStreams == IInv <=> StreamInv
<1>1. \A k : k \in 1..5 <=> k = 1 \/ k = 2 \/ k = 3 \/ k = 4 \/ k = 5
  OBVIOUS
<1>2. /\ Streams[1] = new /\ Streams[2] = hold /\ Streams[3] = out
      /\ Streams[4] = ret /\ Streams[5] = old
  BY DEF Streams
<1>3. /\ Kind(1) = Walk /\ Kind(2) = Walk /\ Kind(3) = OutWalk /\ Kind(4) = Walk
      /\ Kind(5) = Walk
      /\ Behind(1) = 0 /\ Behind(2) = 0 /\ Behind(3) = 0 /\ Behind(4) = 1 /\ Behind(5) = 1
  BY DEF Kind, Behind
<1>4. AllRight <=> /\ \A k \in 1..5 : Right(steps, Streams[k], Behind(k))
                   /\ Fresh(steps, Streams[1])
                   /\ \A q \in fresh : steps[q] = 0
                   /\ \A q \in finished : steps[q] = WalkLen[q] + 1
  BY <1>1, <1>2, <1>3 DEF AllRight
<1>5. \A home : Good(Streams, home) <=>
        /\ home \in [Query -> Home]
        /\ new \in [Lane -> Seq(Walk)] /\ hold \in [Lane -> Seq(Walk)]
        /\ ret \in [Lane -> Seq(Walk)] /\ old \in [Lane -> Seq(Walk)]
        /\ out \in [Lane -> Seq(OutWalk)]
        /\ Placed(1, new, home) /\ Placed(2, hold, home) /\ Placed(3, out, home)
        /\ Placed(4, ret, home) /\ Placed(5, old, home)
  BY <1>1, <1>2, <1>3 DEF Good
<1> QED
  BY <1>4, <1>5, Types DEF IInv, AllPlaced, StreamInv

LEMMA MoveStep ==
  ASSUME IInv, NEW i, NEW l, NEW w, NEW j, NEW m, NEW x,
         Move(Streams, Streams', i, l, w, j, m, x),
         w.query \in Query =>
           (steps[w.query] = WalkLen[w.query] - w.left + Behind(i) =>
              steps'[w.query] = WalkLen[w.query] - x.left + Behind(j)),
         \A p \in Query : p # w.query => steps'[p] = steps[p],
         UNCHANGED <<fresh, finished>>,
         steps' \in [Query -> Nat], counter' \in [Lane -> 0..Ahead],
         timeout' \in [Lane -> 0..Timeout], granted' \in Nat
  PROVE  IInv'
<1>1. PICK home : /\ Good(Streams, home)
                  /\ \A q \in fresh : home[q] = AtLoader
                  /\ \A q \in finished : home[q] = AtEnd
  BY ByStreams DEF StreamInv
<1> DEFINE hh == Moved(home, w.query, <<j, m>>)
<1>2. /\ w \in Kind(i) /\ w.query \in Query /\ w \in Els(Streams[i][l])
      /\ home[w.query] = <<i, l>> /\ Good(Streams', hh) /\ More(Streams'[j], Streams[j], x)
      /\ Others(Streams', Streams, j, w.query)
  <2>1. PICK S, R : S = Streams /\ R = Streams'
    OBVIOUS
  <2>2. Move(S, R, i, l, w, j, m, x) /\ Good(S, home)
    BY <1>1, <2>1
  <2>3. /\ w \in Kind(i) /\ w.query \in Query /\ w \in Els(S[i][l])
        /\ home[w.query] = <<i, l>> /\ Good(R, hh) /\ More(R[j], S[j], x)
        /\ Others(R, S, j, w.query)
    BY <2>2, MoveGood
  <2> QED
    BY <2>1, <2>3
<1>3. i \in 1..5 /\ j \in 2..5 /\ l \in Lane /\ x.query = w.query
  BY DEF Move
<1>4. \A k \in 1..5 : Right(steps, Streams[k], Behind(k))
  BY ByStreams DEF StreamInv
<1>5. steps[w.query] = WalkLen[w.query] - w.left + Behind(i)
  BY <1>2, <1>3, <1>4 DEF Right
<1>6. \A k \in 1..5 : Right(steps', Streams'[k], Behind(k))
  <2>1. Right(steps', Streams'[j], Behind(j))
    BY <1>2, <1>3, <1>4, <1>5, RightMore
  <2>2. ASSUME NEW k \in 1..5, k # j PROVE Right(steps', Streams'[k], Behind(k))
    BY <1>2, <1>4, <2>2, RightLess DEF Others
  <2> QED
    BY <2>1, <2>2
<1>7. Fresh(steps', Streams'[1])
  <2>1. Fresh(steps, Streams[1]) /\ Less(Streams'[1], Streams[1], w.query)
    BY <1>2, <1>3, ByStreams DEF StreamInv, Others
  <2> QED
    BY <2>1, FreshLess
<1>8. /\ \A q \in fresh : q \in Query /\ q # w.query /\ hh[q] = AtLoader /\ steps'[q] = 0
      /\ \A q \in finished : q \in Query /\ q # w.query /\ hh[q] = AtEnd
                             /\ steps'[q] = WalkLen[q] + 1
  <2>1. /\ fresh \subseteq Query /\ finished \subseteq Query
        /\ \A q \in fresh : steps[q] = 0
        /\ \A q \in finished : steps[q] = WalkLen[q] + 1
    BY ByStreams DEF StreamInv
  <2>2. home[w.query] # AtLoader /\ home[w.query] # AtEnd /\ home \in [Query -> Home]
    <3>1. <<i, l>> # <<0, 0>> /\ <<i, l>> # <<6, 0>>
      BY <1>3
    <3>2. home \in [Query -> Home]
      BY <1>1 DEF Good
    <3> QED
      BY <1>2, <3>1, <3>2 DEF AtLoader, AtEnd
  <2> QED
    BY <1>1, <2>1, <2>2 DEF Moved
<1>9. fresh' \subseteq Query /\ finished' \subseteq Query
  BY ByStreams DEF StreamInv
<1>10. StreamInv'
  BY <1>2, <1>6, <1>7, <1>8, <1>9 DEF StreamInv
<1> QED
  BY <1>10, ByStreams, PTL

-----------------------------------------------------------------------------
(* The actions that move a walk. *)

\* A lane of query_merge holds one package at most.
HoldsOne == \A l \in Lane : hold[l] = <<>> \/ \E x \in Walk : hold[l] = <<x>>

LEMMA One ==
  \A x : /\ Append(<<>>, x) = <<x>> /\ <<x>> # <<>>
         /\ Head(<<x>>) = x /\ Tail(<<x>>) = <<>>
OBVIOUS

\* The streams, their primes and what the invariant says of a head.
LEMMA Reading ==
  IInv => /\ Streams[1] = new /\ Streams[2] = hold /\ Streams[3] = out
          /\ Streams[4] = ret /\ Streams[5] = old
          /\ \A l \in Lane : /\ new[l] # <<>> => Head(new[l]) \in Walk
                             /\ hold[l] # <<>> => Head(hold[l]) \in Walk
                             /\ out[l] # <<>> => Head(out[l]) \in OutWalk
                             /\ ret[l] # <<>> => Head(ret[l]) \in Walk
                             /\ old[l] # <<>> => Head(old[l]) \in Walk
<1> SUFFICES ASSUME IInv PROVE Reading!2
  OBVIOUS
<1>1. \A T : \A s \in Seq(T) : s # <<>> => Head(s) \in T
  BY Taken
<1> QED
  BY <1>1, Types DEF IInv, Streams

LEMMA StreamsNext ==
  /\ Streams'[1] = new' /\ Streams'[2] = hold' /\ Streams'[3] = out'
  /\ Streams'[4] = ret' /\ Streams'[5] = old'
  /\ \A k \in 1..5 : k = 1 \/ k = 2 \/ k = 3 \/ k = 4 \/ k = 5
BY DEF Streams

\* counter and timeout keep their bounds.
LEMMA Bounds ==
  ASSUME IInv, NEW l \in Lane, MergeOld(l) \/ MergeNew(l)
  PROVE  /\ counter' \in [Lane -> 0..Ahead] /\ timeout' \in [Lane -> 0..Timeout]
         /\ granted' \in Nat
<1>1. /\ counter \in [Lane -> 0..Ahead] /\ timeout \in [Lane -> 0..Timeout] /\ granted \in Nat
      /\ Ahead \in Nat \ {0} /\ Timeout \in Nat
  BY Types, RingAssumption DEF IInv
<1>2. PICK c \in 0..Ahead, t \in 0..Timeout : c = counter[l] /\ t = timeout[l]
  BY <1>1
<1>3. CASE MergeOld(l)
  <2>1. timeout' = [timeout EXCEPT ![l] = 0] /\ granted' = granted
    BY <1>3 DEF MergeOld
  <2>2. counter' = counter \/ counter' = [counter EXCEPT ![l] = Credit(@)]
    BY <1>3 DEF MergeOld
  <2>3. Credit(c) \in 0..Ahead
    BY <1>1 DEF Credit
  <2> QED
    BY <1>1, <1>2, <2>1, <2>2, <2>3
<1>4. CASE MergeNew(l)
  <2> DEFINE used == IF MayInject(l) THEN counter[l] - 1 ELSE counter[l]
  <2>1. PICK u \in 0..Ahead : u = used
    BY <1>1, <1>2 DEF MayInject
  <2>2. \/ counter' = [counter EXCEPT ![l] = Ahead] /\ granted' = granted + (Ahead - u)
        \/ counter' = [counter EXCEPT ![l] = u] /\ granted' = granted
    BY <1>4, <2>1 DEF MergeNew
  <2>3. timeout' = [timeout EXCEPT ![l] = IF t < Timeout THEN t + 1 ELSE 0]
    BY <1>2, <1>4 DEF MergeNew
  <2>4. /\ (IF t < Timeout THEN t + 1 ELSE 0) \in 0..Timeout
        /\ Ahead \in 0..Ahead /\ granted + (Ahead - u) \in Nat
    BY <1>1
  <2> QED
    BY <1>1, <2>2, <2>3, <2>4
<1> QED
  BY <1>3, <1>4

LEMMA AgainStep ==
  ASSUME IInv, NEW l \in Lane, MergeOld(l), ~LastStep(Head(old[l]))
  PROVE  IInv'
<1>1. PICK w \in Walk : w = Head(old[l])
  BY Reading DEF MergeOld, Empty
<1>2. PICK x \in Walk : x = [w EXCEPT !.left = @ - 1]
  <2>1. w.left \in Nat /\ w.left # 0 /\ w.query \in Query
    BY <1>1 DEF LastStep, Walk
  <2>2. w.left - 1 \in Nat
    BY <2>1
  <2>3. [w EXCEPT !.left = @ - 1] = [query |-> w.query, left |-> w.left - 1]
    BY DEF Walk
  <2> QED
    BY <2>1, <2>2, <2>3 DEF Walk
<1>3. x.query = w.query /\ x.left = w.left - 1 /\ w.query \in Query /\ w.left \in Nat
  BY <1>2 DEF Walk
<1>4. Move(Streams, Streams', 5, l, w, 2, l, x)
  <2>1. /\ old[l] # <<>> /\ hold[l] = <<>> /\ old' = Took(old, l)
        /\ hold' = [hold EXCEPT ![l] = <<x>>] /\ UNCHANGED <<new, out, ret>>
    BY <1>1, <1>2 DEF MergeOld, Took, Empty
  <2>2. hold' = Put(hold, l, x)
    BY <2>1, One DEF Put
  <2>3. x \in Kind(2)
    BY DEF Kind
  <2> QED
    BY <1>1, <1>3, <2>1, <2>2, <2>3, Reading, StreamsNext DEF Move
<1>5. UNCHANGED <<fresh, finished, steps>> /\ steps \in [Query -> Nat]
  BY Types DEF IInv, MergeOld
<1>6. steps[w.query] = WalkLen[w.query] - w.left + Behind(5)
        => steps'[w.query] = WalkLen[w.query] - x.left + Behind(2)
  <2>1. PICK n \in Nat : n = WalkLen[w.query]
    BY <1>3, RingAssumption
  <2>2. Behind(5) = 1 /\ Behind(2) = 0
    BY DEF Behind
  <2>3. n - w.left + 1 = n - x.left + 0
    BY <1>3
  <2> QED
    BY <1>5, <2>1, <2>2, <2>3
<1> QED
  BY <1>4, <1>5, <1>6, Bounds, MoveStep

LEMMA InjectStep ==
  ASSUME IInv, NEW l \in Lane, MergeNew(l)
  PROVE  IInv'
<1>1. UNCHANGED <<fresh, out, ret, old, finished, steps>>
  BY DEF MergeNew
<1>2. CASE MayInject(l)
  <2>1. new[l] # <<>> /\ hold[l] = <<>>
    BY <1>2 DEF MergeNew, MayInject, Empty
  <2>2. PICK w \in Walk : w = Head(new[l])
    BY <2>1, Reading
  <2>3. Move(Streams, Streams', 1, l, w, 2, l, w)
    <3>1. new' = Took(new, l)
      BY <1>2 DEF MergeNew, NewLeft, Took
    <3>2. hold' = [hold EXCEPT ![l] = <<w>>]
      BY <1>2, <2>2 DEF MergeNew
    <3>3. hold' = Put(hold, l, w)
      BY <2>1, <3>2, One DEF Put
    <3>4. w \in Kind(2)
      BY DEF Kind
    <3> QED
      BY <1>1, <2>1, <2>2, <3>1, <3>3, <3>4, Reading, StreamsNext DEF Move
  <2>4. steps \in [Query -> Nat] /\ Behind(1) = Behind(2)
    BY Types DEF IInv, Behind
  <2> QED
    BY <1>1, <2>3, <2>4, Bounds, MoveStep
<1>3. CASE ~MayInject(l)
  <2>1. new \in [Lane -> Seq(Walk)] /\ hold \in [Lane -> Seq(Walk)]
    BY Types DEF IInv
  <2>2. new' = new /\ hold' = hold
    BY <1>3, <2>1 DEF MergeNew, NewLeft
  <2>3. Streams' = Streams
    BY <1>1, <2>2 DEF Streams
  <2>4. counter' \in [Lane -> 0..Ahead] /\ timeout' \in [Lane -> 0..Timeout] /\ granted' \in Nat
    BY Bounds
  <2>5. StreamInv'
    BY <1>1, <2>3, <2>4, ByStreams DEF StreamInv
  <2> QED
    BY <2>5, ByStreams, PTL
<1> QED
  BY <1>2, <1>3

\* Neither credits nor time-outs change.
Unmerged == UNCHANGED <<fresh, counter, timeout, finished, granted>>

LEMMA UnmergedTypes ==
  ASSUME IInv, Unmerged
  PROVE  /\ UNCHANGED <<fresh, finished>> /\ counter' \in [Lane -> 0..Ahead]
         /\ timeout' \in [Lane -> 0..Timeout] /\ granted' \in Nat
         /\ steps \in [Query -> Nat]
BY Types DEF IInv, Unmerged

LEMMA WriteStep ==
  ASSUME IInv, HoldsOne, NEW l \in Lane, NEW via \in Lane, MergeWrite(l, via)
  PROVE  IInv'
<1>1. hold[l] # <<>>
  BY DEF MergeWrite, Empty
<1>2. PICK w \in Walk : hold[l] = <<w>> /\ w = Head(hold[l])
  BY <1>1, One DEF HoldsOne
<1>3. PICK x \in OutWalk : x = [query |-> w.query, left |-> w.left, via |-> via]
  BY DEF Walk, OutWalk
<1>4. x.query = w.query /\ x.left = w.left
  BY <1>3
<1>5. Move(Streams, Streams', 2, l, w, 3, l, x)
  <2>1. hold' = [hold EXCEPT ![l] = <<>>] /\ out' = Put(out, l, x)
        /\ UNCHANGED <<new, ret, old>>
    BY <1>2, <1>3 DEF MergeWrite, Put
  <2>2. hold' = Took(hold, l)
    BY <1>2, <2>1, One DEF Took
  <2>3. x \in Kind(3)
    BY DEF Kind
  <2> QED
    BY <1>1, <1>2, <1>4, <2>1, <2>2, <2>3, Reading, StreamsNext DEF Move
<1>6. Unmerged /\ steps' = steps
  BY DEF MergeWrite, Unmerged
<1>7. Behind(2) = Behind(3)
  BY DEF Behind
<1> QED
  BY <1>4, <1>5, <1>6, <1>7, UnmergedTypes, MoveStep

LEMMA WalkStepStep ==
  ASSUME IInv, NEW l \in Lane, WalkStep(l)
  PROVE  IInv'
<1>1. out[l] # <<>>
  BY DEF WalkStep, Empty
<1>2. PICK w \in OutWalk : w = Head(out[l])
  BY <1>1, Reading
<1>3. PICK x \in Walk : x = [query |-> w.query, left |-> w.left]
  BY DEF Walk, OutWalk
<1>4. x.query = w.query /\ x.left = w.left /\ w.query \in Query /\ w.via \in Lane
      /\ w.left \in Nat
  BY <1>3 DEF OutWalk
<1>5. Move(Streams, Streams', 3, l, w, 4, w.via, x)
  <2>1. out' = Took(out, l) /\ ret' = Put(ret, w.via, x) /\ UNCHANGED <<new, hold, old>>
    BY <1>2, <1>3 DEF WalkStep, Put, Took
  <2>2. x \in Kind(4)
    BY DEF Kind
  <2> QED
    BY <1>1, <1>2, <1>4, <2>1, <2>2, Reading, StreamsNext DEF Move
<1>6. Unmerged /\ steps' = [steps EXCEPT ![w.query] = @ + 1]
  BY <1>2 DEF WalkStep, Unmerged
<1>7. /\ steps' \in [Query -> Nat] /\ \A p \in Query : p # w.query => steps'[p] = steps[p]
      /\ steps'[w.query] = steps[w.query] + 1
  BY <1>4, <1>6, UnmergedTypes
<1>8. steps[w.query] = WalkLen[w.query] - w.left + Behind(3)
        => steps'[w.query] = WalkLen[w.query] - x.left + Behind(4)
  <2>1. PICK n \in Nat : n = WalkLen[w.query]
    BY <1>4, RingAssumption
  <2>2. Behind(3) = 0 /\ Behind(4) = 1
    BY DEF Behind
  <2> QED
    BY <1>4, <1>7, <2>1, <2>2
<1> QED
  BY <1>5, <1>6, <1>7, <1>8, UnmergedTypes, MoveStep

LEMMA ReturnStep ==
  ASSUME IInv, NEW l \in Lane, NEW m \in Lane, Return(l, m)
  PROVE  IInv'
<1>1. ret[l] # <<>>
  BY DEF Return, Empty
<1>2. PICK w \in Walk : w = Head(ret[l])
  BY <1>1, Reading
<1>3. Move(Streams, Streams', 4, l, w, 5, m, w)
  <2>1. ret' = Took(ret, l) /\ old' = Put(old, m, w) /\ UNCHANGED <<new, hold, out>>
    BY <1>2 DEF Return, Put, Took
  <2>2. w \in Kind(5)
    BY DEF Kind
  <2> QED
    BY <1>1, <1>2, <2>1, <2>2, Reading, StreamsNext DEF Move
<1>4. Unmerged /\ steps' = steps
  BY DEF Return, Unmerged
<1>5. Behind(4) = Behind(5)
  BY DEF Behind
<1> QED
  BY <1>3, <1>4, <1>5, UnmergedTypes, MoveStep

-----------------------------------------------------------------------------
(* Theorems *)

LEMMA HoldsOneStep == TypeOK /\ HoldsOne /\ [Next]_vars => HoldsOne'
<1> SUFFICES ASSUME TypeOK, HoldsOne, [Next]_vars PROVE HoldsOne'
  OBVIOUS
<1>1. CASE hold' = hold
  BY <1>1 DEF HoldsOne
<1>2. CASE \E l \in Lane : \E h :
             /\ hold' = [hold EXCEPT ![l] = h]
             /\ h = hold[l] \/ h = <<>> \/ \E x \in Walk : h = <<x>>
  BY <1>2, Types DEF HoldsOne
<1>3. CASE \E q \in Query, l \in Lane : Load(q, l)
  BY <1>1, <1>3 DEF Load
<1>4. ASSUME NEW l \in Lane, MergeOld(l) PROVE HoldsOne'
  <2>1. PICK w \in Walk : w = Head(old[l])
    BY <1>4, Taken, Types DEF MergeOld, Empty
  <2>2. CASE LastStep(w)
    BY <1>1, <1>4, <2>1, <2>2 DEF MergeOld
  <2>3. CASE ~LastStep(w)
    <3>1. w.left \in Nat /\ w.left # 0 /\ w.query \in Query
      BY <2>3 DEF LastStep, Walk
    <3>2. w.left - 1 \in Nat
      BY <3>1
    <3>3. [w EXCEPT !.left = @ - 1] = [query |-> w.query, left |-> w.left - 1]
      BY DEF Walk
    <3>4. [w EXCEPT !.left = @ - 1] \in Walk
      BY <3>1, <3>2, <3>3 DEF Walk
    <3>5. hold' = [hold EXCEPT ![l] = <<[w EXCEPT !.left = @ - 1]>>]
      BY <1>4, <2>1, <2>3 DEF MergeOld
    <3> QED
      BY <1>2, <3>4, <3>5
  <2> QED
    BY <2>2, <2>3
<1>5. ASSUME NEW l \in Lane, MergeNew(l) PROVE HoldsOne'
  <2>1. hold' = [hold EXCEPT ![l] = IF MayInject(l) THEN <<Head(new[l])>> ELSE @]
    BY <1>5 DEF MergeNew
  <2>2. MayInject(l) => Head(new[l]) \in Walk
    BY Taken, Types DEF MayInject, Empty
  <2> QED
    BY <1>2, <2>1, <2>2
<1>6. ASSUME NEW l \in Lane, NEW m \in Lane, MergeWrite(l, m) PROVE HoldsOne'
  BY <1>2, <1>6 DEF MergeWrite
<1>7. ASSUME NEW l \in Lane, WalkStep(l) PROVE HoldsOne'
  BY <1>1, <1>7 DEF WalkStep
<1>8. ASSUME NEW l \in Lane, NEW m \in Lane, Return(l, m) PROVE HoldsOne'
  BY <1>1, <1>8 DEF Return
<1>9. CASE UNCHANGED vars
  BY <1>1, <1>9 DEF vars, ringVars
<1> QED
  BY <1>3, <1>4, <1>5, <1>6, <1>7, <1>8, <1>9 DEF Next

LEMMA IInvStep == IInv /\ HoldsOne /\ [Next]_vars => IInv'
<1> SUFFICES ASSUME IInv, HoldsOne, [Next]_vars PROVE IInv'
  OBVIOUS
<1>1. ASSUME NEW q \in Query, NEW l \in Lane, Load(q, l) PROVE IInv'
  BY <1>1, LoadStep
<1>2. ASSUME NEW l \in Lane, MergeOld(l) PROVE IInv'
  BY <1>2, FinishStep, AgainStep
<1>3. ASSUME NEW l \in Lane, MergeNew(l) PROVE IInv'
  BY <1>3, InjectStep
<1>4. ASSUME NEW l \in Lane, NEW m \in Lane, MergeWrite(l, m) PROVE IInv'
  BY <1>4, WriteStep
<1>5. ASSUME NEW l \in Lane, WalkStep(l) PROVE IInv'
  BY <1>5, WalkStepStep
<1>6. ASSUME NEW l \in Lane, NEW m \in Lane, Return(l, m) PROVE IInv'
  BY <1>6, ReturnStep
<1>7. CASE UNCHANGED vars
  <2>1. Streams' = Streams
    BY <1>7 DEF Streams, vars, ringVars
  <2>2. StreamInv'
    BY <1>7, <2>1, ByStreams DEF StreamInv, vars
  <2> QED
    BY <2>2, ByStreams, PTL
<1> QED
  BY <1>1, <1>2, <1>3, <1>4, <1>5, <1>6, <1>7 DEF Next

LEMMA Invariant == Spec => [](IInv /\ HoldsOne)
<1>1. Init => HoldsOne
  BY DEF Init, HoldsOne
<1>2. IInv => TypeOK
  BY DEF IInv
<1> QED
  BY <1>1, <1>2, InitIInv, IInvStep, HoldsOneStep, PTL DEF Spec

\* WalksExact: at any time a walk has made the steps it no longer has to make,
\* wherever it is, and a finished one has made one step more than its length
\* (old_first_merge_instance counts down only walks it sends on).
THEOREM WalksExact == Spec => []ExactLength
<1>1. IInv => ExactLength
  <2> SUFFICES ASSUME IInv PROVE ExactLength
    OBVIOUS
  <2>1. AllRight /\ TypeOK
    BY DEF IInv
  <2>2. \A T : \A s \in Seq(T) : \A i \in DOMAIN s : s[i] \in Els(s) /\ s[i] \in T
    BY LenProperties, ElementOfSeq DEF Els
  <2>3. \A l \in Lane : \A i \in DOMAIN new[l] : steps[new[l][i].query] = 0
    BY <2>1, <2>2, Types DEF AllRight, Fresh
  <2>4. \A f \in {hold, out} :
          Right(steps, f, 0) /\ \E T : f \in [Lane -> Seq(T)] /\ T \in {Walk, OutWalk}
    BY <2>1, Types DEF AllRight
  <2>5. \A f \in {ret, old} : Right(steps, f, 1) /\ f \in [Lane -> Seq(Walk)]
    BY <2>1, Types DEF AllRight
  <2>6. \A q \in Query : WalkLen[q] \in Nat
    BY RingAssumption
  <2>7. \A x : x \in Walk \/ x \in OutWalk => x.query \in Query /\ x.left \in Nat
    BY DEF Walk, OutWalk
  <2>8. ASSUME NEW l \in Lane, NEW f \in {hold, out}, NEW i \in DOMAIN f[l]
        PROVE  steps[f[l][i].query] = WalkLen[f[l][i].query] - f[l][i].left
    <3>1. PICK T \in {Walk, OutWalk} : f \in [Lane -> Seq(T)]
      BY <2>4
    <3>2. PICK x \in T : x = f[l][i] /\ x \in Els(f[l])
      BY <2>2, <3>1
    <3>3. steps[x.query] = WalkLen[x.query] - x.left + 0
      BY <2>4, <3>2 DEF Right
    <3>4. PICK n \in Nat, k \in Nat : n = WalkLen[x.query] /\ k = x.left
      BY <2>6, <2>7
    <3> QED
      BY <3>2, <3>3, <3>4
  <2>9. \A l \in Lane : \A f \in {ret, old} : \A i \in DOMAIN f[l] :
          steps[f[l][i].query] = WalkLen[f[l][i].query] - f[l][i].left + 1
    BY <2>2, <2>5 DEF Right
  <2>10. \A q \in finished : steps[q] = WalkLen[q] + 1
    BY <2>1 DEF AllRight
  <2> QED
    BY <2>3, <2>8, <2>9, <2>10 DEF ExactLength
<1> QED
  BY <1>1, Invariant, PTL

\* RingTypeCorrect: no lane spends a credit it does not have or gathers more
\* than AHEAD_COUNTER, and no walk is counted down below zero.
THEOREM RingTypeCorrect == Spec => []TypeOK
<1>1. IInv => TypeOK
  BY DEF IInv
<1> QED
  BY <1>1, Invariant, PTL

-----------------------------------------------------------------------------
(* The ring is bounded.  Credits do not go back to the lane that spent them, *)
(* so no count of one lane bounds its queries; the credits spent on all      *)
(* lanes, with those that time-outs granted, bound the queries of all.       *)

\* The credits that have been spent, by lane and number.
Debt(c) == {p \in Lane \X (1..Ahead) : p[2] <= Ahead - c[p[1]]}

WithinDebt == Cardinality(Outstanding) <= Cardinality(Debt(counter)) + granted

LEMMA DebtFinite ==
  ASSUME NEW c
  PROVE  IsFiniteSet(Debt(c)) /\ Cardinality(Debt(c)) \in Nat
         /\ Cardinality(Debt(c)) <= Ahead * Cardinality(Lane)
<1>1. IsFiniteSet(Lane) /\ Ahead \in Nat /\ Cardinality(Lane) \in Nat
  BY RingAssumption, FS_CardinalityType
<1>2. IsFiniteSet(1..Ahead) /\ Cardinality(1..Ahead) = Ahead
  BY <1>1, FS_Interval
<1>3. /\ IsFiniteSet(Lane \X (1..Ahead))
      /\ Cardinality(Lane \X (1..Ahead)) = Cardinality(Lane) * Ahead
  BY <1>1, <1>2, FS_Product
<1>4. Debt(c) \in SUBSET (Lane \X (1..Ahead))
  BY DEF Debt
<1>5. IsFiniteSet(Debt(c)) /\ Cardinality(Debt(c)) <= Cardinality(Lane \X (1..Ahead))
  BY <1>3, <1>4, FS_Subset
<1>6. Cardinality(Lane) * Ahead = Ahead * Cardinality(Lane)
  BY <1>1
<1> QED
  BY <1>3, <1>5, <1>6, FS_CardinalityType

\* A credit more or less on lane l, and all of its credits at once.
LEMMA DebtChanges ==
  ASSUME NEW c \in [Lane -> 0..Ahead], NEW l \in Lane
  PROVE  /\ c[l] > 0 =>
              Cardinality(Debt([c EXCEPT ![l] = c[l] - 1])) = Cardinality(Debt(c)) + 1
         /\ c[l] < Ahead =>
              Cardinality(Debt([c EXCEPT ![l] = c[l] + 1])) = Cardinality(Debt(c)) - 1
         /\ Cardinality(Debt(c))
              <= Cardinality(Debt([c EXCEPT ![l] = Ahead])) + (Ahead - c[l])
<1>1. Ahead \in Nat \ {0} /\ c[l] \in 0..Ahead /\ \A m \in Lane : c[m] \in 0..Ahead
  BY RingAssumption
<1>2. ASSUME c[l] > 0
      PROVE  Cardinality(Debt([c EXCEPT ![l] = c[l] - 1])) = Cardinality(Debt(c)) + 1
  <2> DEFINE p == <<l, Ahead - c[l] + 1>>
  <2>1. Debt([c EXCEPT ![l] = c[l] - 1]) = Debt(c) \cup {p} /\ p \notin Debt(c)
    BY <1>1, <1>2 DEF Debt
  <2> QED
    BY <2>1, DebtFinite, FS_AddElement
<1>3. ASSUME c[l] < Ahead
      PROVE  Cardinality(Debt([c EXCEPT ![l] = c[l] + 1])) = Cardinality(Debt(c)) - 1
  <2> DEFINE p == <<l, Ahead - c[l]>>
  <2>1. Debt([c EXCEPT ![l] = c[l] + 1]) = Debt(c) \ {p} /\ p \in Debt(c)
    BY <1>1, <1>3 DEF Debt
  <2>2. IsFiniteSet(Debt(c))
    BY DebtFinite
  <2>3. Cardinality(Debt(c) \ {p}) = Cardinality(Debt(c)) - 1
    BY <2>1, <2>2, FS_RemoveElement
  <2> QED
    BY <2>1, <2>3
<1>4. Cardinality(Debt(c)) <= Cardinality(Debt([c EXCEPT ![l] = Ahead])) + (Ahead - c[l])
  <2> DEFINE D == Debt([c EXCEPT ![l] = Ahead])
             own == {l} \X (1..(Ahead - c[l]))
  <2>1. Debt(c) \in SUBSET (D \cup own)
    BY <1>1 DEF Debt
  <2>2. IsFiniteSet(own) /\ Cardinality(own) = Ahead - c[l]
    <3>1. Ahead - c[l] \in Nat
      BY <1>1
    <3>2. IsFiniteSet(1..(Ahead - c[l])) /\ Cardinality(1..(Ahead - c[l])) = Ahead - c[l]
      BY <3>1, FS_Interval
    <3>3. IsFiniteSet({l}) /\ Cardinality({l}) = 1
      BY FS_Singleton
    <3>4. PICK S, T : S = {l} /\ T = 1..(Ahead - c[l]) /\ own = S \X T
      OBVIOUS
    <3> HIDE DEF own
    <3>5. IsFiniteSet(own) /\ Cardinality(own) = Cardinality(S) * Cardinality(T)
      BY <3>2, <3>3, <3>4, FS_Product
    <3>6. Cardinality(S) = 1 /\ Cardinality(T) = Ahead - c[l]
      BY <3>2, <3>3, <3>4
    <3> QED
      BY <3>1, <3>5, <3>6
  <2>3. IsFiniteSet(D) /\ Cardinality(D) \in Nat
    BY DebtFinite
  <2> HIDE DEF D, own
  <2>4. /\ IsFiniteSet(D \cup own) /\ IsFiniteSet(D \cap own)
        /\ Cardinality(D \cup own) = Cardinality(D) + Cardinality(own) - Cardinality(D \cap own)
    BY <2>2, <2>3, FS_Union, FS_Intersection
  <2>5. Cardinality(D \cap own) \in Nat
    BY <2>4, FS_CardinalityType
  <2>6. Cardinality(Debt(c)) <= Cardinality(D \cup own)
    BY <2>1, <2>4, FS_Subset
  <2>7. Cardinality(Debt(c)) \in Nat /\ Cardinality(own) \in Nat
    BY <1>1, <2>2, DebtFinite, FS_CardinalityType
  <2>8. Cardinality(Debt(c)) <= Cardinality(D) + (Ahead - c[l])
    BY <2>2, <2>3, <2>4, <2>5, <2>6, <2>7
  <2> QED
    BY <2>8 DEF D
<1> QED
  BY <1>2, <1>3, <1>4

-----------------------------------------------------------------------------
(* Which queries are outstanding *)

LEMMA InStreams ==
  ASSUME NEW f \in [Lane -> Seq(Walk)], NEW q
  PROVE  q \in InRing(f) <=> \E l \in Lane : \E e \in Els(f[l]) : e.query = q
<1>1. \A l \in Lane : DOMAIN f[l] = 1..Len(f[l])
  BY LenProperties
<1> QED
  BY <1>1 DEF InRing, Els

LEMMA OutstandingFinite ==
  /\ IsFiniteSet(Outstanding) /\ Cardinality(Outstanding) \in Nat
  /\ Outstanding \subseteq Query /\ IsFiniteSet(Query)
<1>1. Outstanding \in SUBSET Query /\ IsFiniteSet(Query)
  BY RingAssumption DEF Outstanding
<1> QED
  BY <1>1, FS_Subset, FS_CardinalityType

\* A walk that comes back is outstanding, and was loaded.
LEMMA BackIsOutstanding ==
  ASSUME IInv, NEW l \in Lane, old[l] # <<>>
  PROVE  Head(old[l]).query \in Outstanding
<1>1. PICK home \in [Query -> Home] : AllPlaced(home)
  BY DEF IInv
<1>2. PICK w \in Walk : w = Head(old[l]) /\ w \in Els(old[l])
  BY Taken, Types DEF IInv
<1>3. w.query \in Query /\ home[w.query] = <<5, l>>
  BY <1>1, <1>2, Packages DEF AllPlaced, Placed
<1>4. w.query \notin fresh /\ w.query \notin finished
  BY <1>1, <1>3 DEF AllPlaced, AtLoader, AtEnd
<1>5. w.query \notin InRing(new)
  <2>1. \A m \in Lane : \A e \in Els(new[m]) : home[e.query] = <<1, m>>
    BY <1>1 DEF AllPlaced, Placed
  <2>2. new \in [Lane -> Seq(Walk)]
    BY Types DEF IInv
  <2>3. \A m : <<1, m>> # <<5, l>>
    OBVIOUS
  <2>4. w.query \in InRing(new) <=> \E m \in Lane : \E e \in Els(new[m]) : e.query = w.query
    BY <2>2, InStreams
  <2> QED
    BY <1>3, <2>1, <2>3, <2>4
<1> QED
  BY <1>2, <1>3, <1>4, <1>5 DEF Outstanding

\* A lane that injects has one query less in new.
LEMMA InjectOutstanding ==
  ASSUME IInv, NEW l \in Lane, MergeNew(l), MayInject(l)
  PROVE  Outstanding' \subseteq Outstanding \cup {Head(new[l]).query}
<1>1. /\ new \in [Lane -> Seq(Walk)] /\ new[l] # <<>> /\ new[l] \in Seq(Walk)
      /\ new' = [new EXCEPT ![l] = Tail(new[l])] /\ UNCHANGED <<fresh, finished>>
  BY Types DEF IInv, MergeNew, MayInject, NewLeft, Empty
<1>2. /\ Tail(new[l]) \in Seq(Walk) /\ Len(Tail(new[l])) = Len(new[l]) - 1
      /\ \A i \in 1..Len(Tail(new[l])) : Tail(new[l])[i] = new[l][i + 1]
      /\ Len(new[l]) \in Nat \ {0} /\ Head(new[l]) = new[l][1]
  BY <1>1, HeadTailProperties, EmptySeq, LenProperties
<1>3. \A e \in Els(new[l]) : e = Head(new[l]) \/ e \in Els(Tail(new[l]))
  <2>1. TAKE e \in Els(new[l])
  <2>2. PICK i \in 1..Len(new[l]) : e = new[l][i]
    BY DEF Els
  <2>3. i # 1 => i - 1 \in 1..Len(Tail(new[l])) /\ (i - 1) + 1 = i
    BY <1>2
  <2> QED
    BY <1>2, <2>2, <2>3 DEF Els
<1>4. new' \in [Lane -> Seq(Walk)]
  BY <1>1, <1>2
<1>5. ASSUME NEW q, q \in InRing(new), q # Head(new[l]).query PROVE q \in InRing(new')
  <2>1. PICK m \in Lane : \E e \in Els(new[m]) : e.query = q
    BY <1>1, <1>5, InStreams
  <2>2. \E e \in Els(new'[m]) : e.query = q
    BY <1>1, <1>3, <1>5, <2>1
  <2> QED
    BY <1>4, <2>2, InStreams
<1> QED
  BY <1>1, <1>5 DEF Outstanding

-----------------------------------------------------------------------------
(* Each step *)

LEMMA LoadDebt ==
  ASSUME IInv, WithinDebt, NEW q \in Query, NEW l \in Lane, Load(q, l) PROVE WithinDebt'
<1>1. PICK x \in Walk : x = [query |-> q, left |-> WalkLen[q]]
  BY RingAssumption DEF Walk
<1>2. /\ new' = [new EXCEPT ![l] = Append(new[l], x)] /\ fresh' = fresh \ {q}
      /\ UNCHANGED <<finished, counter, granted>>
      /\ new \in [Lane -> Seq(Walk)] /\ new[l] \in Seq(Walk)
  BY <1>1, Types DEF IInv, Load
<1>3. Append(new[l], x) \in Seq(Walk) /\ Els(Append(new[l], x)) = Els(new[l]) \cup {x}
  BY <1>2, Written
<1>4. new' \in [Lane -> Seq(Walk)] /\ x \in Els(new'[l])
      /\ \A m \in Lane : Els(new[m]) \subseteq Els(new'[m])
  BY <1>2, <1>3
<1>5. q \in InRing(new') /\ InRing(new) \subseteq InRing(new')
  <2>1. \A p : p \in InRing(new) <=> \E m \in Lane : \E e \in Els(new[m]) : e.query = p
    BY <1>2, InStreams
  <2>2. \A p : p \in InRing(new') <=> \E m \in Lane : \E e \in Els(new'[m]) : e.query = p
    BY <1>4, InStreams
  <2> QED
    BY <1>1, <1>4, <2>1, <2>2
<1>6. Outstanding' \in SUBSET Outstanding
  BY <1>2, <1>5 DEF Outstanding
<1>7. Cardinality(Outstanding') <= Cardinality(Outstanding) /\ Cardinality(Outstanding') \in Nat
  BY <1>6, OutstandingFinite, FS_Subset, FS_CardinalityType
<1>8. granted \in Nat /\ Cardinality(Debt(counter)) \in Nat
  BY Types, DebtFinite DEF IInv
<1> QED
  BY <1>2, <1>7, <1>8, OutstandingFinite DEF WithinDebt

\* A walk that ends is one less outstanding, and gives a credit back to some lane.
LEMMA MergeOldDebt ==
  ASSUME IInv, WithinDebt, NEW l \in Lane, MergeOld(l) PROVE WithinDebt'
<1>1. /\ old[l] # <<>> /\ UNCHANGED <<fresh, new, granted>>
      /\ counter \in [Lane -> 0..Ahead] /\ granted \in Nat /\ Ahead \in Nat \ {0}
  BY Types, RingAssumption DEF IInv, MergeOld, Empty
<1>2. CASE ~LastStep(Head(old[l]))
  BY <1>1, <1>2 DEF MergeOld, WithinDebt, Outstanding
<1>3. CASE LastStep(Head(old[l]))
  <2> DEFINE q == Head(old[l]).query
  <2>1. finished' = finished \cup {q} /\ counter' = [counter EXCEPT ![l] = Credit(@)]
    BY <1>3 DEF MergeOld
  <2>2. Outstanding' = Outstanding \ {q} /\ q \in Outstanding
    BY <1>1, <2>1, BackIsOutstanding DEF Outstanding
  <2>3. Cardinality(Outstanding') = Cardinality(Outstanding) - 1
    BY <2>2, OutstandingFinite, FS_RemoveElement
  <2>4. Cardinality(Debt(counter)) \in Nat /\ Cardinality(Outstanding) \in Nat
    BY DebtFinite, OutstandingFinite
  <2>5. CASE counter[l] < Ahead
    <3>1. counter' = [counter EXCEPT ![l] = counter[l] + 1]
      BY <1>1, <2>1, <2>5 DEF Credit
    <3>2. Cardinality(Debt(counter')) = Cardinality(Debt(counter)) - 1
      BY <1>1, <2>5, <3>1, DebtChanges
    <3> QED
      BY <1>1, <2>3, <2>4, <3>2 DEF WithinDebt
  <2>6. CASE ~(counter[l] < Ahead)
    <3>1. counter' = counter
      BY <1>1, <2>1, <2>6 DEF Credit
    <3> QED
      BY <1>1, <2>3, <2>4, <3>1 DEF WithinDebt
  <2> QED
    BY <2>5, <2>6
<1> QED
  BY <1>2, <1>3

\* A query is injected with a credit of the lane, or with what a time-out grants.
LEMMA MergeNewDebt ==
  ASSUME IInv, WithinDebt, NEW l \in Lane, MergeNew(l) PROVE WithinDebt'
<1>1. /\ counter \in [Lane -> 0..Ahead] /\ granted \in Nat /\ Ahead \in Nat \ {0}
      /\ UNCHANGED <<fresh, finished>>
  BY Types, RingAssumption DEF IInv, MergeNew
<1> DEFINE c == counter[l]
           used == IF MayInject(l) THEN c - 1 ELSE c
           out1 == Cardinality(Outstanding')
           debt == Cardinality(Debt(counter))
<1>2. c \in 0..Ahead /\ debt \in Nat /\ Cardinality(Outstanding) \in Nat
  BY <1>1, DebtFinite, OutstandingFinite
<1>3. MayInject(l) => c > 0
  BY <1>2 DEF MayInject
<1>4. out1 \in Nat /\ out1 <= Cardinality(Outstanding) + (c - used)
  <2>1. CASE MayInject(l)
    <3> DEFINE q == Head(new[l]).query
    <3>1. Outstanding' \in SUBSET (Outstanding \cup {q})
      BY <2>1, InjectOutstanding
    <3>2. /\ IsFiniteSet(Outstanding \cup {q})
          /\ \/ Cardinality(Outstanding \cup {q}) = Cardinality(Outstanding)
             \/ Cardinality(Outstanding \cup {q}) = Cardinality(Outstanding) + 1
      BY OutstandingFinite, FS_AddElement
    <3>3. out1 <= Cardinality(Outstanding \cup {q}) /\ out1 \in Nat
      BY <3>1, <3>2, FS_Subset, FS_CardinalityType
    <3>4. c - used = 1
      BY <1>2, <2>1
    <3> QED
      BY <1>2, <3>2, <3>3, <3>4
  <2>2. CASE ~MayInject(l)
    <3>1. new' = new
      BY <2>2, Types DEF IInv, MergeNew, NewLeft
    <3>2. Outstanding' = Outstanding
      BY <1>1, <3>1 DEF Outstanding
    <3>3. c - used = 0
      BY <1>2, <2>2
    <3> QED
      BY <1>2, <3>2, <3>3
  <2> QED
    BY <2>1, <2>2
<1>5. Cardinality(Outstanding) <= debt + granted
  BY DEF WithinDebt
<1>6. used \in Int /\ used <= c
  BY <1>2
<1>7. CASE Expired(l)
  <2>1. counter' = [counter EXCEPT ![l] = Ahead] /\ granted' = granted + (Ahead - used)
    BY <1>7 DEF MergeNew
  <2>2. debt <= Cardinality(Debt(counter')) + (Ahead - c)
    BY <1>1, <2>1, DebtChanges
  <2>3. Cardinality(Debt(counter')) \in Nat
    BY DebtFinite
  <2> HIDE DEF c, used, out1, debt
  <2>4. out1 <= Cardinality(Debt(counter')) + granted'
    BY <1>1, <1>2, <1>4, <1>5, <1>6, <2>1, <2>2, <2>3
  <2> QED
    BY <2>4 DEF WithinDebt, out1
<1>8. CASE ~Expired(l)
  <2>1. counter' = [counter EXCEPT ![l] = used] /\ granted' = granted
    BY <1>8 DEF MergeNew
  <2>2. Cardinality(Debt(counter')) = debt + (c - used)
    <3>1. CASE MayInject(l)
      <4>1. counter' = [counter EXCEPT ![l] = c - 1] /\ c - used = 1
        BY <1>2, <2>1, <3>1
      <4> QED
        BY <1>1, <1>3, <3>1, <4>1, DebtChanges
    <3>2. CASE ~MayInject(l)
      <4>1. counter' = counter /\ c - used = 0
        BY <1>1, <1>2, <2>1, <3>2
      <4> QED
        BY <1>2, <4>1
    <3> QED
      BY <3>1, <3>2
  <2> HIDE DEF c, used, out1, debt
  <2>3. out1 <= Cardinality(Debt(counter')) + granted'
    BY <1>1, <1>2, <1>4, <1>5, <1>6, <2>1, <2>2
  <2> QED
    BY <2>3 DEF WithinDebt, out1
<1> QED
  BY <1>7, <1>8

LEMMA DebtStep == IInv /\ WithinDebt /\ [Next]_vars => WithinDebt'
<1> SUFFICES ASSUME IInv, WithinDebt, [Next]_vars PROVE WithinDebt'
  OBVIOUS
<1>1. CASE UNCHANGED <<fresh, new, finished, counter, granted>>
  BY <1>1 DEF WithinDebt, Outstanding
<1>2. ASSUME NEW l \in Lane, NEW m \in Lane, MergeWrite(l, m) \/ WalkStep(l) \/ Return(l, m)
      PROVE  WithinDebt'
  BY <1>1, <1>2 DEF MergeWrite, WalkStep, Return
<1>3. CASE UNCHANGED vars
  BY <1>1, <1>3 DEF vars, ringVars
<1> QED
  BY <1>2, <1>3, LoadDebt, MergeOldDebt, MergeNewDebt DEF Next

LEMMA InitDebt == Init => WithinDebt
<1> SUFFICES ASSUME Init PROVE WithinDebt
  OBVIOUS
<1>1. Outstanding = {}
  BY DEF Init, Outstanding
<1>2. Cardinality(Debt(counter)) \in Nat /\ granted = 0
  BY DebtFinite DEF Init
<1> QED
  BY <1>1, <1>2, FS_EmptySet DEF WithinDebt

\* RingBounded: the walks in the ring are at most AHEAD_COUNTER per lane and what
\* time-outs granted on top (old_first_merge_instance gives the credit of a walk that
\* ends to the lane it ends on, which need not be the lane that injected it).
THEOREM RingStaysBounded == Spec => []RingBounded
<1>1. IInv /\ WithinDebt => RingBounded
  <2> SUFFICES ASSUME IInv, WithinDebt PROVE RingBounded
    OBVIOUS
  <2>1. granted \in Nat /\ Ahead * Cardinality(Lane) \in Nat
    BY Types, RingAssumption, FS_CardinalityType DEF IInv
  <2> QED
    BY <2>1, DebtFinite, OutstandingFinite DEF WithinDebt, RingBounded
<1> QED
  BY <1>1, Invariant, InitDebt, DebtStep, PTL DEF Spec

\* The safety part of ImplementsPool: a query goes into the pool once, when it is loaded,
\* and is taken out once, when old_first_merge_instance finds its walk ended.
THEOREM RingIsPool == Spec => Pool!Init /\ [][Pool!Next]_(Pool!vars)
<1>1. Init => Pool!Init
  BY DEF Init, Pool!Init
<1>2. IInv /\ [Next]_vars => [Pool!Next]_(Pool!vars)
  <2> SUFFICES ASSUME IInv, [Next]_vars PROVE [Pool!Next]_(Pool!vars)
    OBVIOUS
  <2>1. CASE UNCHANGED <<fresh, finished>>
    BY <2>1 DEF Pool!vars
  <2>2. ASSUME NEW q \in Query, NEW l \in Lane, Load(q, l) PROVE Pool!Put(q)
    <3>1. PICK home \in [Query -> Home] : AllPlaced(home)
      BY DEF IInv
    <3>2. q \in fresh /\ fresh' = fresh \ {q} /\ finished' = finished
      BY <2>2 DEF Load
    <3>3. q \notin finished
      BY <3>1, <3>2, Packages DEF AllPlaced
    <3> QED
      BY <3>2, <3>3 DEF Pool!Put
  <2>3. ASSUME NEW l \in Lane, MergeOld(l), LastStep(Head(old[l]))
        PROVE  \E q \in Query : Pool!Take(q)
    <3> DEFINE q == Head(old[l]).query
    <3>1. finished' = finished \cup {q} /\ fresh' = fresh /\ old[l] # <<>>
      BY <2>3 DEF MergeOld, Empty
    <3>2. q \in Query /\ q \notin fresh /\ q \notin finished
      BY <3>1, BackIsOutstanding DEF Outstanding
    <3> QED
      BY <3>1, <3>2 DEF Pool!Take
  <2>4. ASSUME NEW l \in Lane, MergeOld(l), ~LastStep(Head(old[l]))
        PROVE  UNCHANGED <<fresh, finished>>
    BY <2>4 DEF MergeOld
  <2>5. ASSUME NEW l \in Lane, NEW m \in Lane,
               MergeNew(l) \/ MergeWrite(l, m) \/ WalkStep(l) \/ Return(l, m)
        PROVE  UNCHANGED <<fresh, finished>>
    BY <2>5 DEF MergeNew, MergeWrite, WalkStep, Return
  <2>6. CASE UNCHANGED vars
    BY <2>1, <2>6 DEF vars
  <2> QED
    BY <2>1, <2>2, <2>3, <2>4, <2>5, <2>6 DEF Next, Pool!Next
<1> QED
  BY <1>1, <1>2, Invariant, PTL DEF Spec
=============================================================================
