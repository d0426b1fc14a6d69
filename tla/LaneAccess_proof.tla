--------------------------- MODULE LaneAccess_proof ---------------------------
(***************************************************************************)
(* For every set of queries, every placement in the two channels, every    *)
(* depth and any number of restarts: the two streams of a channel stay in  *)
(* step, and a query leaves with its own word.  Neither Paired, which says *)
(* nothing about what is still in the lane, nor InStep, which only counts, *)
(* is inductive.  Aligned is: the words of a channel that rpa_out has not  *)
(* paired are, one by one, those its query states ask for. Last, the lane  *)
(* is a pool: WayInv lines up the queries of all streams and registers on  *)
(* one way (IsWay) and says that none is on it twice (Once); a step of the *)
(* lane passes the head of one place to the end of the next, so a query    *)
(* leaves once.                                                            *)
(***************************************************************************)
EXTENDS MCLaneAccess, SequenceTheorems, TLAPS

\* Pairs of a query and its own word.
Right == {a \in Answer : a.word = Word(a.query)}

\* The addresses queries of channel c ask for.
AddrOf(c) == {Addr[q] : q \in {p \in Query : Chn[p] = c}}

\* What a loop body holds between its read and its write.
Register(S) == {<<>>} \cup {<<e>> : e \in S}

Types ==
  /\ asked \subseteq Query /\ input \in Seq(Query)
  /\ holding \in Register([query : Query, sent : BOOLEAN])
  /\ cmd \in [Channel -> Seq(UNION {AddrOf(c) : c \in Channel})]
  /\ \A c \in Channel : cmd[c] \in Seq(AddrOf(c))
  /\ vds \in [Channel -> Seq(Query)]
  /\ engine \in [Channel -> {"off", "loop", "ctrl"}]
  /\ fetched \in [Channel -> Register(AllWords)]
  /\ data \in [Channel -> Seq(AllWords)]
  /\ word \in [Channel -> Register(AllWords)]
  /\ ctrl \in [Channel -> Nat]
  /\ flag \in Channel
  /\ host \in {"idle", "running", "ending", "joining"}
  /\ runs \in 0..Runs

\* What rpa_out has paired is right.
PairedInside ==
  /\ pair \in [Channel -> Register(Right)] /\ inner \in [Channel -> Seq(Right)]
  /\ merge \in Register(Right) /\ out \in Seq(Right) /\ answers \subseteq Right

\* An engine that is about to return holds no word and has a token to read.
NothingHeld ==
  \A c \in Channel : engine[c] = "ctrl" => fetched[c] = <<>> /\ ctrl[c] > 0

Maps(f, S, T) == \A e \in S : f[e] \in T

\* f applied to each element of s.
Each(f, s) == [i \in 1..Len(s) |-> f[s[i]]]

\* The words a sequence of addresses of channel c, or of queries, asks for.
Load(c, s) == Each(Bank[c], s)
Asks(s)    == Each([q \in Query |-> Word(q)], s)

\* Names for concatenations: the provers match a lemma on a name more readily
\* than on \o.
One(e)     == <<e>>
Cons(e, s) == <<e>> \o s
Snoc(s, e) == s \o <<e>>
Join(s, t) == s \o t

\* Words on their way through channel c, the one that arrives next first.
Queue(w, d, f, m)    == w \o (d \o (f \o m))
QueueLen(w, d, f, m) == Len(w) + (Len(d) + (Len(f) + Len(m)))
Transit(c) == Queue(word[c], data[c], fetched[c], Load(c, cmd[c]))

\* The word whose query state rpa_in has yet to write.
Owed(c) == IF BetweenWrites(c) THEN <<Word(Head(holding).query)>> ELSE <<>>

AlignedIn(c) == Transit(c) = Asks(vds[c]) \o Owed(c)

Aligned == \A c \in Channel : AlignedIn(c)

IInv == Types /\ PairedInside /\ NothingHeld /\ Aligned

-----------------------------------------------------------------------------
LEMMA ConsParts ==
  ASSUME NEW S, NEW e \in S, NEW s \in Seq(S)
  PROVE  Head(<<e>> \o s) = e /\ Tail(<<e>> \o s) = s
<1>1. <<e>> \in Seq(S) /\ Len(<<e>>) = 1 /\ <<e>>[1] = e
  OBVIOUS
<1>2. /\ <<e>> \o s \in Seq(S) /\ Len(<<e>> \o s) = Len(s) + 1
      /\ \A i \in 1..Len(s) + 1 : (<<e>> \o s)[i] = IF i <= 1 THEN e ELSE s[i - 1]
  BY <1>1, ConcatProperties
<1>3. <<e>> \o s # <<>>
  BY <1>2
<1>4. Head(<<e>> \o s) = e
  BY <1>2, <1>3
<1>5. Tail(<<e>> \o s) = s
  <2>1. /\ Tail(<<e>> \o s) \in Seq(S) /\ Len(Tail(<<e>> \o s)) = Len(s)
        /\ \A i \in 1..Len(s) : Tail(<<e>> \o s)[i] = (<<e>> \o s)[i + 1]
    BY <1>2, <1>3, HeadTailProperties
  <2>2. \A i \in 1..Len(s) : Tail(<<e>> \o s)[i] = s[i]
    BY <1>2, <2>1
  <2> QED BY <2>1, <2>2, SeqEqual
<1> QED BY <1>4, <1>5

LEMMA Uncons ==
  ASSUME NEW S, NEW s \in Seq(S), s # <<>>
  PROVE  s = <<Head(s)>> \o Tail(s) /\ Head(s) \in S /\ Tail(s) \in Seq(S)
<1> DEFINE t == <<Head(s)>> \o Tail(s)
<1>1. /\ Head(s) \in S /\ Head(s) = s[1] /\ Tail(s) \in Seq(S)
      /\ Len(Tail(s)) = Len(s) - 1 /\ Len(s) \in Nat \ {0}
      /\ \A i \in 1..Len(Tail(s)) : Tail(s)[i] = s[i + 1]
  BY HeadTailProperties, EmptySeq
<1>2. <<Head(s)>> \in Seq(S) /\ Len(<<Head(s)>>) = 1 /\ <<Head(s)>>[1] = s[1]
  BY <1>1
<1>3. /\ t \in Seq(S) /\ Len(t) = Len(s)
      /\ \A i \in 1..Len(s) : t[i] = IF i <= 1 THEN s[1] ELSE Tail(s)[i - 1]
  BY <1>1, <1>2, ConcatProperties
<1>4. \A i \in 1..Len(s) : t[i] = s[i]
  BY <1>1, <1>3
<1> QED BY <1>1, <1>3, <1>4, SeqEqual

LEMMA EachSeq ==
  ASSUME NEW S, NEW T, NEW f, Maps(f, S, T), NEW s \in Seq(S)
  PROVE  Each(f, s) \in Seq(T) /\ Len(Each(f, s)) = Len(s)
         /\ \A i \in 1..Len(s) : Each(f, s)[i] = f[s[i]]
BY DEF Each, Maps

LEMMA EachAppend ==
  ASSUME NEW S, NEW T, NEW f, Maps(f, S, T), NEW s \in Seq(S), NEW e \in S
  PROVE  Each(f, Append(s, e)) = Append(Each(f, s), f[e])
<1>1. /\ Append(s, e) \in Seq(S) /\ Len(Append(s, e)) = Len(s) + 1
      /\ \A i \in 1..Len(s) : Append(s, e)[i] = s[i]
      /\ Append(s, e)[Len(s) + 1] = e /\ Len(s) \in Nat
  BY AppendProperties, LenProperties
<1>2. /\ Each(f, Append(s, e)) \in Seq(T) /\ Len(Each(f, Append(s, e))) = Len(s) + 1
      /\ \A i \in 1..Len(s) + 1 : Each(f, Append(s, e))[i] = f[Append(s, e)[i]]
  <2> DEFINE t == Append(s, e)
  <2>1. t \in Seq(S)
    BY <1>1
  <2> HIDE DEF t
  <2>2. Each(f, t) \in Seq(T) /\ Len(Each(f, t)) = Len(t)
        /\ \A i \in 1..Len(t) : Each(f, t)[i] = f[t[i]]
    BY <2>1, EachSeq
  <2> QED BY <1>1, <2>2 DEF t
<1>3. /\ Append(Each(f, s), f[e]) \in Seq(T) /\ Len(Append(Each(f, s), f[e])) = Len(s) + 1
      /\ \A i \in 1..Len(s) : Append(Each(f, s), f[e])[i] = f[s[i]]
      /\ Append(Each(f, s), f[e])[Len(s) + 1] = f[e]
  <2>1. /\ Each(f, s) \in Seq(T) /\ Len(Each(f, s)) = Len(s)
        /\ \A i \in 1..Len(s) : Each(f, s)[i] = f[s[i]]
    BY EachSeq
  <2> QED BY <2>1, AppendProperties DEF Maps
<1>4. \A i \in 1..Len(s) + 1 : Each(f, Append(s, e))[i] = Append(Each(f, s), f[e])[i]
  <2> SUFFICES ASSUME NEW i \in 1..Len(s) + 1
               PROVE  Each(f, Append(s, e))[i] = Append(Each(f, s), f[e])[i]
    OBVIOUS
  <2>1. CASE i = Len(s) + 1
    BY <1>1, <1>2, <1>3, <2>1
  <2>2. CASE i # Len(s) + 1
    <3>1. i \in 1..Len(s)
      BY <1>1, <2>2
    <3> QED BY <1>1, <1>2, <1>3, <3>1
  <2> QED BY <2>1, <2>2
<1> QED BY <1>2, <1>3, <1>4, SeqEqual

LEMMA EachUncons ==
  ASSUME NEW S, NEW T, NEW f, Maps(f, S, T), NEW s \in Seq(S), s # <<>>
  PROVE  Each(f, s) = <<f[Head(s)]>> \o Each(f, Tail(s))
<1>1. Each(f, s) \in Seq(T) /\ Len(Each(f, s)) = Len(s)
      /\ \A i \in 1..Len(s) : Each(f, s)[i] = f[s[i]]
  BY EachSeq
<1>2. Tail(s) \in Seq(S) /\ Len(s) \in Nat \ {0} /\ Len(Tail(s)) = Len(s) - 1
      /\ \A i \in 1..Len(Tail(s)) : Tail(s)[i] = s[i + 1]
  BY HeadTailProperties, EmptySeq
<1>3. Each(f, s) # <<>> /\ Head(Each(f, s)) = f[Head(s)]
  BY <1>1, <1>2
<1>4. Tail(Each(f, s)) = Each(f, Tail(s))
  <2>1. Each(f, Tail(s)) \in Seq(T) /\ Len(Each(f, Tail(s))) = Len(s) - 1
        /\ \A i \in 1..Len(s) - 1 : Each(f, Tail(s))[i] = f[s[i + 1]]
    <3> DEFINE t == Tail(s)
    <3>1. t \in Seq(S)
      BY <1>2
    <3> HIDE DEF t
    <3>2. Each(f, t) \in Seq(T) /\ Len(Each(f, t)) = Len(t)
          /\ \A i \in 1..Len(t) : Each(f, t)[i] = f[t[i]]
      BY <3>1, EachSeq
    <3> QED BY <1>2, <3>2 DEF t
  <2>2. Tail(Each(f, s)) \in Seq(T) /\ Len(Tail(Each(f, s))) = Len(s) - 1
        /\ \A i \in 1..Len(s) - 1 : Tail(Each(f, s))[i] = f[s[i + 1]]
    BY <1>1, <1>2, <1>3, HeadTailProperties
  <2> QED BY <2>1, <2>2, SeqEqual
<1> QED BY <1>1, <1>3, <1>4, Uncons

-----------------------------------------------------------------------------
LEMMA Memory ==
  /\ \A c \in Channel : Maps(Bank[c], AddrOf(c), AllWords)
  /\ Maps([q \in Query |-> Word(q)], Query, AllWords)
  /\ \A q \in Query : /\ Chn[q] \in Channel /\ Addr[q] \in AddrOf(Chn[q])
                      /\ Word(q) \in AllWords /\ Bank[Chn[q]][Addr[q]] = Word(q)
BY LaneAssumption DEF Maps, AddrOf, AllWords, Word

LEMMA LoadFacts ==
  ASSUME NEW c \in Channel, NEW s \in Seq(AddrOf(c))
  PROVE  /\ Load(c, s) \in Seq(AllWords) /\ Len(Load(c, s)) = Len(s)
         /\ \A a \in AddrOf(c) : Load(c, Append(s, a)) = Append(Load(c, s), Bank[c][a])
         /\ s # <<>> => /\ Head(s) \in AddrOf(c) /\ Bank[c][Head(s)] \in AllWords
                        /\ Tail(s) \in Seq(AddrOf(c))
                        /\ Load(c, s) = <<Bank[c][Head(s)]>> \o Load(c, Tail(s))
<1>1. Maps(Bank[c], AddrOf(c), AllWords)
  BY Memory
<1>2. Load(c, s) \in Seq(AllWords) /\ Len(Load(c, s)) = Len(s)
  BY <1>1, EachSeq DEF Load
<1>3. \A a \in AddrOf(c) : Load(c, Append(s, a)) = Append(Load(c, s), Bank[c][a])
  BY <1>1, EachAppend DEF Load
<1>4. ASSUME s # <<>>
      PROVE  /\ Head(s) \in AddrOf(c) /\ Bank[c][Head(s)] \in AllWords
             /\ Tail(s) \in Seq(AddrOf(c))
             /\ Load(c, s) = <<Bank[c][Head(s)]>> \o Load(c, Tail(s))
  <2>1. Head(s) \in AddrOf(c) /\ Tail(s) \in Seq(AddrOf(c))
    BY <1>4, HeadTailProperties
  <2>2. Load(c, s) = <<Bank[c][Head(s)]>> \o Load(c, Tail(s))
    BY <1>1, <1>4, EachUncons DEF Load
  <2> QED BY <1>1, <2>1, <2>2 DEF Maps
<1> QED BY <1>2, <1>3, <1>4

LEMMA AsksFacts ==
  ASSUME NEW s \in Seq(Query)
  PROVE  /\ Asks(s) \in Seq(AllWords) /\ Len(Asks(s)) = Len(s)
         /\ \A q \in Query : Asks(Append(s, q)) = Append(Asks(s), Word(q))
         /\ s # <<>> => /\ Head(s) \in Query /\ Tail(s) \in Seq(Query)
                        /\ Asks(s) = <<Word(Head(s))>> \o Asks(Tail(s))
<1> DEFINE f == [q \in Query |-> Word(q)]
<1>1. Maps(f, Query, AllWords) /\ \A q \in Query : f[q] = Word(q)
  BY Memory
<1>2. \A t : Asks(t) = Each(f, t)
  BY DEF Asks
<1> HIDE DEF f
<1>3. Asks(s) \in Seq(AllWords) /\ Len(Asks(s)) = Len(s)
  BY <1>1, <1>2, EachSeq
<1>4. \A q \in Query : Asks(Append(s, q)) = Append(Asks(s), Word(q))
  <2> SUFFICES ASSUME NEW q \in Query
               PROVE  Asks(Append(s, q)) = Append(Asks(s), Word(q))
    OBVIOUS
  <2>1. Each(f, Append(s, q)) = Append(Each(f, s), f[q])
    BY <1>1, EachAppend
  <2> QED BY <1>1, <1>2, <2>1
<1>5. ASSUME s # <<>>
      PROVE  /\ Head(s) \in Query /\ Tail(s) \in Seq(Query)
             /\ Asks(s) = <<Word(Head(s))>> \o Asks(Tail(s))
  <2>1. Head(s) \in Query /\ Tail(s) \in Seq(Query)
    BY <1>5, HeadTailProperties
  <2>2. Asks(s) = <<f[Head(s)]>> \o Asks(Tail(s))
    BY <1>1, <1>2, <1>5, EachUncons
  <2> QED BY <1>1, <2>1, <2>2
<1> QED BY <1>3, <1>4, <1>5

LEMMA RegisterSeq ==
  ASSUME NEW S, NEW r \in Register(S)
  PROVE  r \in Seq(S) /\ Len(r) \in 0..1 /\ (r # <<>> => r = <<Head(r)>> /\ Head(r) \in S)
<1>1. CASE r = <<>>
  BY <1>1
<1>2. CASE r # <<>>
  <2>1. PICK e \in S : r = <<e>>
    BY <1>2 DEF Register
  <2>2. <<e>> \in Seq(S) /\ Len(<<e>>) = 1 /\ Head(<<e>>) = e
    OBVIOUS
  <2> QED BY <2>1, <2>2
<1> QED BY <1>1, <1>2

LEMMA Parts ==
  ASSUME Types, NEW c \in Channel
  PROVE  /\ word[c] \in Seq(AllWords) /\ data[c] \in Seq(AllWords)
         /\ fetched[c] \in Seq(AllWords) /\ Load(c, cmd[c]) \in Seq(AllWords)
         /\ Asks(vds[c]) \in Seq(AllWords) /\ Owed(c) \in Seq(AllWords)
<1>1. word[c] \in Seq(AllWords) /\ data[c] \in Seq(AllWords) /\ fetched[c] \in Seq(AllWords)
  BY RegisterSeq DEF Types
<1>2. Load(c, cmd[c]) \in Seq(AllWords)
  BY LoadFacts DEF Types
<1>3. Asks(vds[c]) \in Seq(AllWords)
  BY AsksFacts DEF Types
<1>4. Owed(c) \in Seq(AllWords)
  <2>1. CASE BetweenWrites(c)
    <3>1. holding # <<>>
      BY <2>1 DEF BetweenWrites, Empty
    <3>2. Head(holding) \in [query : Query, sent : BOOLEAN]
      BY <3>1, RegisterSeq DEF Types
    <3>3. Word(Head(holding).query) \in AllWords
      BY <3>2, Memory
    <3> QED BY <2>1, <3>3 DEF Owed
  <2>2. CASE ~BetweenWrites(c)
    BY <2>2 DEF Owed
  <2> QED BY <2>1, <2>2
<1> QED BY <1>1, <1>2, <1>3, <1>4

-----------------------------------------------------------------------------
LEMMA QueueLength ==
  ASSUME NEW w \in Seq(AllWords), NEW d \in Seq(AllWords),
         NEW f \in Seq(AllWords), NEW m \in Seq(AllWords)
  PROVE  Len(Queue(w, d, f, m)) = QueueLen(w, d, f, m)
<1>1. f \o m \in Seq(AllWords) /\ Len(f \o m) = Len(f) + Len(m)
  BY ConcatProperties
<1>2. d \o (f \o m) \in Seq(AllWords) /\ Len(d \o (f \o m)) = Len(d) + Len(f \o m)
  BY <1>1, ConcatProperties
<1>3. /\ w \o (d \o (f \o m)) \in Seq(AllWords)
      /\ Len(w \o (d \o (f \o m))) = Len(w) + Len(d \o (f \o m))
  BY <1>2, ConcatProperties
<1> QED BY <1>1, <1>2, <1>3 DEF Queue, QueueLen

\* A word that moves on to the next part of a channel keeps its place.
LEMMA MoveOn ==
  ASSUME NEW e \in AllWords, NEW w \in Seq(AllWords), NEW d \in Seq(AllWords),
         NEW f \in Seq(AllWords), NEW m \in Seq(AllWords)
  PROVE  /\ Queue(w, d, <<>>, Cons(e, m)) = Queue(w, d, One(e), m)
         /\ Queue(w, d, One(e), m) = Queue(w, Snoc(d, e), <<>>, m)
         /\ Queue(<<>>, Cons(e, d), f, m) = Queue(One(e), d, f, m)
         /\ Queue(One(e), d, f, m) = Cons(e, Queue(<<>>, d, f, m))
<1>1. /\ <<e>> \in Seq(AllWords) /\ <<e>> \o m \in Seq(AllWords) /\ f \o m \in Seq(AllWords)
      /\ <<>> \in Seq(AllWords)
  BY ConcatProperties
<1>2. Queue(w, d, <<>>, <<e>> \o m) = Queue(w, d, <<e>>, m)
  BY <1>1, ConcatEmptySeq DEF Queue
<1>3. Queue(w, d, <<e>>, m) = Queue(w, d \o <<e>>, <<>>, m)
  <2>1. <<>> \o m = m
    BY ConcatEmptySeq
  <2>2. d \o (<<e>> \o m) = (d \o <<e>>) \o m
    BY <1>1, ConcatAssociative
  <2> QED BY <2>1, <2>2 DEF Queue
<1>4. /\ d \o (f \o m) \in Seq(AllWords)
      /\ <<e>> \o (d \o (f \o m)) \in Seq(AllWords)
  BY <1>1, ConcatProperties
<1>5. (<<e>> \o d) \o (f \o m) = <<e>> \o (d \o (f \o m))
  BY <1>1, ConcatAssociative
<1>6. <<>> \o (<<e>> \o (d \o (f \o m))) = <<e>> \o (d \o (f \o m))
      /\ <<>> \o (d \o (f \o m)) = d \o (f \o m)
  BY <1>4, ConcatEmptySeq
<1> QED BY <1>2, <1>3, <1>5, <1>6 DEF Queue, One, Cons, Snoc

\* A new command comes last.
LEMMA ComesLast ==
  ASSUME NEW e \in AllWords, NEW w \in Seq(AllWords), NEW d \in Seq(AllWords),
         NEW f \in Seq(AllWords), NEW m \in Seq(AllWords)
  PROVE  Queue(w, d, f, Snoc(m, e)) = Snoc(Queue(w, d, f, m), e)
<1>1. <<e>> \in Seq(AllWords)
  OBVIOUS
<1>2. f \o m \in Seq(AllWords) /\ d \o (f \o m) \in Seq(AllWords)
  BY ConcatProperties
<1>3. f \o (m \o <<e>>) = (f \o m) \o <<e>>
  BY <1>1, ConcatAssociative
<1>4. d \o ((f \o m) \o <<e>>) = (d \o (f \o m)) \o <<e>>
  BY <1>1, <1>2, ConcatAssociative
<1>5. w \o ((d \o (f \o m)) \o <<e>>) = (w \o (d \o (f \o m))) \o <<e>>
  <2> DEFINE x == d \o (f \o m)
  <2>1. x \in Seq(AllWords)
    BY <1>2
  <2> HIDE DEF x
  <2>2. w \o (x \o <<e>>) = (w \o x) \o <<e>>
    BY <1>1, <2>1, ConcatAssociative
  <2> QED BY <2>2 DEF x
<1> QED BY <1>3, <1>4, <1>5 DEF Queue, Snoc

\* The first word belongs to the first query state, the rest to the rest.
LEMMA ComesFirst ==
  ASSUME NEW e \in AllWords, NEW g \in AllWords, NEW r \in Seq(AllWords),
         NEW a \in Seq(AllWords), NEW o \in Seq(AllWords),
         Cons(e, r) = Join(Cons(g, a), o)
  PROVE  e = g /\ r = Join(a, o)
<1>1. <<g>> \in Seq(AllWords) /\ a \o o \in Seq(AllWords)
  BY ConcatProperties
<1>2. (<<g>> \o a) \o o = <<g>> \o (a \o o)
  BY <1>1, ConcatAssociative
<1>3. Head(<<e>> \o r) = e /\ Tail(<<e>> \o r) = r
  BY ConsParts
<1>4. Head(<<g>> \o (a \o o)) = g /\ Tail(<<g>> \o (a \o o)) = a \o o
  BY <1>1, ConsParts
<1> QED BY <1>2, <1>3, <1>4 DEF Cons, Join

-----------------------------------------------------------------------------
\* InStep counts what Aligned compares.
LEMMA AlignedCounts == Types /\ Aligned => InStep
<1> SUFFICES ASSUME Types, Aligned, NEW c \in Channel
             PROVE  Len(cmd[c]) + Len(fetched[c]) + Len(data[c]) + Len(word[c])
                      = Len(vds[c]) + (IF BetweenWrites(c) THEN 1 ELSE 0)
  BY DEF InStep
<1> DEFINE m == Load(c, cmd[c])
           a == Asks(vds[c])
<1>1. /\ word[c] \in Seq(AllWords) /\ data[c] \in Seq(AllWords)
      /\ fetched[c] \in Seq(AllWords) /\ m \in Seq(AllWords)
      /\ a \in Seq(AllWords) /\ Owed(c) \in Seq(AllWords)
  BY Parts
<1>2. Len(m) = Len(cmd[c]) /\ Len(a) = Len(vds[c])
  BY LoadFacts, AsksFacts DEF Types
<1> HIDE DEF m, a
<1>3. Len(Transit(c)) = Len(word[c]) + (Len(data[c]) + (Len(fetched[c]) + Len(m)))
  <2>1. Transit(c) = Queue(word[c], data[c], fetched[c], m)
    BY DEF Transit, m
  <2>2. Len(Queue(word[c], data[c], fetched[c], m)) = QueueLen(word[c], data[c], fetched[c], m)
    BY <1>1, QueueLength, Zenon
  <2> QED BY <2>1, <2>2 DEF QueueLen
<1>4. Len(a \o Owed(c)) = Len(a) + Len(Owed(c))
  BY <1>1, ConcatProperties
<1>5. Transit(c) = a \o Owed(c)
  BY DEF Aligned, AlignedIn, a
<1>6. Len(Owed(c)) = IF BetweenWrites(c) THEN 1 ELSE 0
  BY DEF Owed
<1>7. /\ Len(word[c]) \in Nat /\ Len(data[c]) \in Nat /\ Len(fetched[c]) \in Nat
      /\ Len(cmd[c]) \in Nat
  BY <1>1, <1>2
<1>8. Len(cmd[c]) + Len(fetched[c]) + Len(data[c]) + Len(word[c])
        = Len(word[c]) + (Len(data[c]) + (Len(fetched[c]) + Len(cmd[c])))
  <2>1. \A i, j, k, l \in Nat : i + j + k + l = l + (k + (j + i))
    OBVIOUS
  <2> QED BY <1>7, <2>1
<1> QED BY <1>2, <1>3, <1>4, <1>5, <1>6, <1>8

LEMMA InitInv == Init => IInv
<1> SUFFICES ASSUME Init PROVE IInv
  OBVIOUS
<1> USE DEF Init, PerChannel
<1>1. Types
  BY LaneAssumption DEF Types, Channel, Register
<1>2. PairedInside
  BY DEF PairedInside, Register
<1>3. NothingHeld
  BY DEF NothingHeld
<1>4. Aligned
  BY DEF Aligned, AlignedIn, Transit, Queue, Owed, Load, Asks, Each, BetweenWrites, Empty
<1> QED BY <1>1, <1>2, <1>3, <1>4 DEF IInv

-----------------------------------------------------------------------------
LEMMA RegisterValues ==
  ASSUME NEW S PROVE <<>> \in Register(S) /\ \A e \in S : <<e>> \in Register(S)
BY DEF Register

LEMMA Unmoved ==
  ASSUME NEW c \in Channel, AlignedIn(c), word'[c] = word[c], data'[c] = data[c],
         fetched'[c] = fetched[c], cmd'[c] = cmd[c], vds'[c] = vds[c],
         Owed(c)' = Owed(c)
  PROVE  AlignedIn(c)'
BY DEF AlignedIn, Transit

LEMMA NoneMoved ==
  ASSUME Aligned, UNCHANGED <<word, data, fetched, cmd, vds>>,
         \A c \in Channel : Owed(c)' = Owed(c)
  PROVE  Aligned'
BY Unmoved DEF Aligned

LEMMA OwedKept ==
  ASSUME UNCHANGED holding PROVE \A c \in Channel : Owed(c)' = Owed(c)
BY DEF Owed, BetweenWrites, Empty

-----------------------------------------------------------------------------
LEMMA ArriveInv ==
  ASSUME IInv, NEW q \in Query, Arrive(q) PROVE IInv'
<1> USE DEF IInv, Arrive, inVars, engineVars, outVars, hostVars
<1>1. Types'
  BY AppendProperties DEF Types
<1>2. Aligned'
  BY NoneMoved, OwedKept
<1> QED BY <1>1, <1>2 DEF PairedInside, NothingHeld

LEMMA TakeInv ==
  ASSUME IInv, rpa_in PROVE IInv'
<1> USE DEF IInv, rpa_in, inVars, engineVars, outVars, hostVars
<1>1. Types'
  <2>1. Head(input) \in Query /\ input' \in Seq(Query)
    BY HeadTailProperties DEF Types, Empty
  <2>2. holding' \in Register([query : Query, sent : BOOLEAN])
    BY <2>1, RegisterValues
  <2> QED BY <2>1, <2>2 DEF Types
<1>2. \A c \in Channel : Owed(c)' = Owed(c)
  BY DEF Owed, BetweenWrites, Empty
<1>3. Aligned'
  BY <1>2, NoneMoved
<1> QED BY <1>1, <1>3 DEF PairedInside, NothingHeld

LEMMA WriteCmdInv ==
  ASSUME IInv, WriteCmd PROVE IInv'
<1>0. Types /\ PairedInside /\ NothingHeld /\ Aligned
  BY DEF IInv
<1>1. PICK q \in Query : Head(holding).query = q
  <2>1. Head(holding) \in [query : Query, sent : BOOLEAN]
    BY <1>0, RegisterSeq DEF Types, WriteCmd, Empty
  <2> QED BY <2>1
<1>2. PICK c \in Channel :
        /\ c = Chn[q] /\ Addr[q] \in AddrOf(c) /\ Bank[c][Addr[q]] = Word(q)
        /\ Word(q) \in AllWords
  BY Memory
<1>3. /\ cmd' = [cmd EXCEPT ![c] = Append(cmd[c], Addr[q])]
      /\ holding' = <<[query |-> q, sent |-> TRUE]>>
      /\ UNCHANGED <<asked, input, vds, engineVars, ctrl, data, outVars, answers, hostVars>>
  BY <1>1, <1>2 DEF WriteCmd
<1>4. Owed(c) = <<>> /\ Owed(c)' = <<Word(q)>>
      /\ \A x \in Channel : x # c => Owed(x)' = Owed(x)
  BY <1>1, <1>2, <1>3 DEF WriteCmd, Owed, BetweenWrites, Empty
<1>5. Types'
  <2>1. Append(cmd[c], Addr[q]) \in Seq(AddrOf(c))
    BY <1>0, <1>2, AppendProperties DEF Types
  <2>2. Append(cmd[c], Addr[q]) \in Seq(UNION {AddrOf(x) : x \in Channel})
    BY <1>2, <2>1, SeqMonotonic
  <2>3. /\ cmd' \in [Channel -> Seq(UNION {AddrOf(x) : x \in Channel})]
        /\ \A x \in Channel : cmd'[x] \in Seq(AddrOf(x))
    BY <1>0, <1>2, <1>3, <2>1, <2>2 DEF Types
  <2>4. [query |-> q, sent |-> TRUE] \in [query : Query, sent : BOOLEAN]
    BY <1>1
  <2>5. holding' \in Register([query : Query, sent : BOOLEAN])
    BY <1>3, <2>4, RegisterValues
  <2> QED BY <1>0, <1>3, <2>3, <2>5 DEF Types, engineVars, outVars, hostVars
<1>6. AlignedIn(c)'
  <2>1. cmd'[c] = Append(cmd[c], Addr[q]) /\ cmd[c] \in Seq(AddrOf(c))
    BY <1>0, <1>2, <1>3 DEF Types
  <2>2. Load(c, cmd'[c]) = Append(Load(c, cmd[c]), Word(q))
    <3>1. \A a \in AddrOf(c) :
            Load(c, Append(cmd[c], a)) = Append(Load(c, cmd[c]), Bank[c][a])
      BY <2>1, LoadFacts
    <3> QED BY <1>2, <2>1, <3>1
  <2>3. /\ word[c] \in Seq(AllWords) /\ data[c] \in Seq(AllWords)
        /\ fetched[c] \in Seq(AllWords) /\ Load(c, cmd[c]) \in Seq(AllWords)
        /\ Asks(vds[c]) \in Seq(AllWords)
    BY <1>0, <1>2, Parts
  <2>4. Queue(word[c], data[c], fetched[c], Snoc(Load(c, cmd[c]), Word(q)))
          = Snoc(Queue(word[c], data[c], fetched[c], Load(c, cmd[c])), Word(q))
    BY <1>2, <2>3, ComesLast
  <2>5. Append(Load(c, cmd[c]), Word(q)) = Snoc(Load(c, cmd[c]), Word(q))
    BY <1>2, <2>3, AppendIsConcat DEF Snoc
  <2>6. Transit(c)' = Transit(c) \o <<Word(q)>>
    BY <1>3, <2>2, <2>4, <2>5 DEF Transit, Snoc, engineVars, outVars
  <2>7. Transit(c) = Asks(vds[c])
    BY <1>0, <1>2, <1>4, <2>3, ConcatEmptySeq DEF Aligned, AlignedIn
  <2> QED BY <1>3, <1>4, <2>6, <2>7 DEF AlignedIn
<1>7. ASSUME NEW x \in Channel, x # c PROVE AlignedIn(x)'
  <2>1. cmd'[x] = cmd[x]
    BY <1>0, <1>3, <1>7 DEF Types
  <2> QED BY <1>0, <1>3, <1>4, <1>7, <2>1, Unmoved DEF Aligned, engineVars, outVars
<1>8. PairedInside' /\ NothingHeld'
  BY <1>0, <1>3 DEF PairedInside, NothingHeld, engineVars, outVars
<1> QED BY <1>2, <1>5, <1>6, <1>7, <1>8 DEF IInv, Aligned

LEMMA WriteVdsInv ==
  ASSUME IInv, WriteVds PROVE IInv'
<1>0. Types /\ PairedInside /\ NothingHeld /\ Aligned
  BY DEF IInv
<1>1. PICK q \in Query : Head(holding).query = q
  <2>1. Head(holding) \in [query : Query, sent : BOOLEAN]
    BY <1>0, RegisterSeq DEF Types, WriteVds, Empty
  <2> QED BY <2>1
<1>2. PICK c \in Channel :
        /\ c = Chn[q] /\ Addr[q] \in AddrOf(c) /\ Bank[c][Addr[q]] = Word(q)
        /\ Word(q) \in AllWords
  BY Memory
<1>3. /\ vds' = [vds EXCEPT ![c] = Append(vds[c], q)]
      /\ holding' = <<>>
      /\ UNCHANGED <<asked, input, cmd, engineVars, ctrl, data, outVars, answers, hostVars>>
  BY <1>1, <1>2 DEF WriteVds, VdsChannel
<1>4. Owed(c) = <<Word(q)>> /\ Owed(c)' = <<>>
      /\ \A x \in Channel : x # c => Owed(x)' = Owed(x)
  BY <1>1, <1>2, <1>3 DEF WriteVds, Owed, BetweenWrites, Empty
<1>5. Types'
  <2>1. vds' \in [Channel -> Seq(Query)]
    BY <1>0, <1>1, <1>2, <1>3, AppendProperties DEF Types
  <2>2. holding' \in Register([query : Query, sent : BOOLEAN])
    BY <1>3, RegisterValues
  <2> QED BY <1>0, <1>3, <2>1, <2>2 DEF Types, engineVars, outVars, hostVars
<1>6. AlignedIn(c)'
  <2>1. vds'[c] = Append(vds[c], q) /\ vds[c] \in Seq(Query)
    BY <1>0, <1>2, <1>3 DEF Types
  <2>2. Asks(vds'[c]) = Append(Asks(vds[c]), Word(q)) /\ Asks(vds[c]) \in Seq(AllWords)
    BY <1>1, <2>1, AsksFacts
  <2>3. Append(Asks(vds[c]), Word(q)) = Asks(vds[c]) \o <<Word(q)>>
        /\ Append(Asks(vds[c]), Word(q)) \in Seq(AllWords)
    BY <1>2, <2>2, AppendProperties, AppendIsConcat
  <2>4. Asks(vds'[c]) \o <<>> = Asks(vds[c]) \o <<Word(q)>>
    BY <2>2, <2>3, ConcatEmptySeq
  <2>5. Transit(c)' = Transit(c)
    BY <1>3 DEF Transit, engineVars, outVars
  <2> QED BY <1>0, <1>2, <1>4, <2>4, <2>5 DEF Aligned, AlignedIn
<1>7. ASSUME NEW x \in Channel, x # c PROVE AlignedIn(x)'
  <2>1. vds'[x] = vds[x]
    BY <1>0, <1>3, <1>7 DEF Types
  <2> QED BY <1>0, <1>3, <1>4, <1>7, <2>1, Unmoved DEF Aligned, engineVars, outVars
<1>8. PairedInside' /\ NothingHeld'
  BY <1>0, <1>3 DEF PairedInside, NothingHeld, engineVars, outVars
<1> QED BY <1>2, <1>5, <1>6, <1>7, <1>8 DEF IInv, Aligned

-----------------------------------------------------------------------------
\* The engines and rpa_out move one word of one channel.
LEMMA OneMoved ==
  ASSUME Aligned, NEW c \in Channel, AlignedIn(c)',
         \A x \in Channel : x # c =>
           /\ word'[x] = word[x] /\ data'[x] = data[x] /\ fetched'[x] = fetched[x]
           /\ cmd'[x] = cmd[x] /\ vds'[x] = vds[x],
         UNCHANGED holding
  PROVE  Aligned'
BY Unmoved, OwedKept DEF Aligned

LEMMA EngineReadInv ==
  ASSUME IInv, NEW c \in Channel, EngineRead(c) PROVE IInv'
<1>0. Types /\ PairedInside /\ NothingHeld /\ Aligned
  BY DEF IInv
<1>1. /\ engine[c] = "loop" /\ fetched[c] = <<>> /\ cmd[c] # <<>>
      /\ fetched' = [fetched EXCEPT ![c] = <<Bank[c][Head(cmd[c])]>>]
      /\ cmd' = [cmd EXCEPT ![c] = Tail(cmd[c])]
      /\ UNCHANGED <<asked, holding, input, vds, engine, ctrl, data, word, answers, hostVars>>
      /\ UNCHANGED outVars
  BY DEF EngineRead, Empty, inVars, outVars
<1>2. /\ Head(cmd[c]) \in AddrOf(c) /\ Bank[c][Head(cmd[c])] \in AllWords
      /\ Tail(cmd[c]) \in Seq(AddrOf(c))
      /\ Load(c, cmd[c]) = <<Bank[c][Head(cmd[c])]>> \o Load(c, Tail(cmd[c]))
  BY <1>0, <1>1, LoadFacts DEF Types
<1>3. PICK e \in AllWords : e = Bank[c][Head(cmd[c])]
  BY <1>2
<1>4. /\ fetched' \in [Channel -> Register(AllWords)] /\ fetched'[c] = One(e)
      /\ \A x \in Channel : x # c => fetched'[x] = fetched[x]
  BY <1>0, <1>1, <1>3, RegisterValues DEF Types, One
<1>5. /\ cmd' \in [Channel -> Seq(UNION {AddrOf(x) : x \in Channel})]
      /\ \A x \in Channel : cmd'[x] \in Seq(AddrOf(x))
      /\ cmd'[c] = Tail(cmd[c])
      /\ \A x \in Channel : x # c => cmd'[x] = cmd[x]
  <2>1. Tail(cmd[c]) \in Seq(UNION {AddrOf(x) : x \in Channel})
    BY <1>2, SeqMonotonic
  <2> QED BY <1>0, <1>1, <1>2, <2>1 DEF Types
<1>6. Types'
  BY <1>0, <1>1, <1>4, <1>5 DEF Types, outVars, hostVars
<1>7. AlignedIn(c)'
  <2>1. word[c] \in Seq(AllWords) /\ data[c] \in Seq(AllWords)
    BY <1>0, Parts
  <2>2. Load(c, Tail(cmd[c])) \in Seq(AllWords)
    BY <1>2, LoadFacts
  <2>3. Queue(word[c], data[c], <<>>, Cons(e, Load(c, Tail(cmd[c]))))
          = Queue(word[c], data[c], One(e), Load(c, Tail(cmd[c])))
    BY <2>1, <2>2, MoveOn
  <2>4. Load(c, cmd[c]) = Cons(e, Load(c, Tail(cmd[c])))
    BY <1>2, <1>3 DEF Cons
  <2>5. Transit(c)' = Transit(c)
    BY <1>1, <1>4, <1>5, <2>3, <2>4 DEF Transit
  <2>6. Owed(c)' = Owed(c) /\ vds' = vds
    BY <1>1, OwedKept
  <2> QED BY <1>0, <2>5, <2>6 DEF Aligned, AlignedIn
<1>8. Aligned'
  BY <1>0, <1>1, <1>4, <1>5, <1>7, OneMoved
<1>9. PairedInside' /\ NothingHeld'
  BY <1>0, <1>1, <1>4 DEF PairedInside, NothingHeld, outVars
<1> QED BY <1>6, <1>8, <1>9 DEF IInv

LEMMA EngineWriteInv ==
  ASSUME IInv, NEW c \in Channel, EngineWrite(c) PROVE IInv'
<1>0. Types /\ PairedInside /\ NothingHeld /\ Aligned
  BY DEF IInv
<1>1. /\ fetched[c] # <<>>
      /\ data' = [data EXCEPT ![c] = Append(data[c], Head(fetched[c]))]
      /\ fetched' = [fetched EXCEPT ![c] = <<>>]
      /\ UNCHANGED <<asked, holding, input, cmd, vds, engine, ctrl, word, answers, hostVars>>
      /\ UNCHANGED outVars
  BY DEF EngineWrite, Empty, inVars, outVars
<1>2. PICK e \in AllWords : e = Head(fetched[c]) /\ fetched[c] = One(e)
  <2>1. fetched[c] = <<Head(fetched[c])>> /\ Head(fetched[c]) \in AllWords
    BY <1>0, <1>1, RegisterSeq DEF Types
  <2> QED BY <2>1 DEF One
<1>3. /\ fetched' \in [Channel -> Register(AllWords)] /\ fetched'[c] = <<>>
      /\ \A x \in Channel : x # c => fetched'[x] = fetched[x]
  BY <1>0, <1>1, RegisterValues DEF Types
<1>4. data[c] \in Seq(AllWords) /\ Append(data[c], e) \in Seq(AllWords)
      /\ Append(data[c], e) = Snoc(data[c], e)
  BY <1>0, AppendProperties, AppendIsConcat DEF Types, Snoc
<1>5. /\ data' \in [Channel -> Seq(AllWords)] /\ data'[c] = Snoc(data[c], e)
      /\ \A x \in Channel : x # c => data'[x] = data[x]
  BY <1>0, <1>1, <1>2, <1>4 DEF Types
<1>6. Types'
  BY <1>0, <1>1, <1>3, <1>5 DEF Types, outVars, hostVars
<1>7. AlignedIn(c)'
  <2>1. word[c] \in Seq(AllWords) /\ Load(c, cmd[c]) \in Seq(AllWords)
    BY <1>0, Parts
  <2>2. Queue(word[c], data[c], One(e), Load(c, cmd[c]))
          = Queue(word[c], Snoc(data[c], e), <<>>, Load(c, cmd[c]))
    BY <1>4, <2>1, MoveOn
  <2>3. Transit(c)' = Transit(c)
    BY <1>1, <1>2, <1>3, <1>5, <2>2 DEF Transit
  <2>4. Owed(c)' = Owed(c) /\ vds' = vds
    BY <1>1, OwedKept
  <2> QED BY <1>0, <2>3, <2>4 DEF Aligned, AlignedIn
<1>8. Aligned'
  BY <1>0, <1>1, <1>3, <1>5, <1>7, OneMoved
<1>9. PairedInside' /\ NothingHeld'
  BY <1>0, <1>1, <1>3 DEF PairedInside, NothingHeld, outVars
<1> QED BY <1>6, <1>8, <1>9 DEF IInv

LEMMA FrpInv ==
  ASSUME IInv, NEW c \in Channel, rpa_out_frp(c) PROVE IInv'
<1>0. Types /\ PairedInside /\ NothingHeld /\ Aligned
  BY DEF IInv
<1>1. /\ word[c] = <<>> /\ data[c] # <<>>
      /\ word' = [word EXCEPT ![c] = <<Head(data[c])>>]
      /\ data' = [data EXCEPT ![c] = Tail(data[c])]
      /\ UNCHANGED <<asked, holding, input, cmd, vds, engine, fetched, ctrl, answers>>
      /\ UNCHANGED <<pair, inner, merge, flag, out, host, runs>>
  BY DEF rpa_out_frp, Empty, inVars, engineVars, hostVars
<1>2. PICK e \in AllWords : e = Head(data[c]) /\ data[c] = Cons(e, Tail(data[c]))
                            /\ Tail(data[c]) \in Seq(AllWords)
  BY <1>0, <1>1, Uncons DEF Types, Cons
<1>3. /\ word' \in [Channel -> Register(AllWords)] /\ word'[c] = One(e)
      /\ \A x \in Channel : x # c => word'[x] = word[x]
  BY <1>0, <1>1, <1>2, RegisterValues DEF Types, One
<1>4. /\ data' \in [Channel -> Seq(AllWords)] /\ data'[c] = Tail(data[c])
      /\ \A x \in Channel : x # c => data'[x] = data[x]
  BY <1>0, <1>1, <1>2 DEF Types
<1>5. Types'
  BY <1>0, <1>1, <1>3, <1>4 DEF Types
<1>6. AlignedIn(c)'
  <2>1. fetched[c] \in Seq(AllWords) /\ Load(c, cmd[c]) \in Seq(AllWords)
    BY <1>0, Parts
  <2>2. PICK t \in Seq(AllWords) : t = Tail(data[c])
    BY <1>2
  <2>3. Queue(<<>>, Cons(e, t), fetched[c], Load(c, cmd[c]))
          = Queue(One(e), t, fetched[c], Load(c, cmd[c]))
    BY <2>1, MoveOn
  <2>4. Transit(c)' = Transit(c)
    BY <1>1, <1>2, <1>3, <1>4, <2>2, <2>3 DEF Transit
  <2>5. Owed(c)' = Owed(c) /\ vds' = vds
    BY <1>1, OwedKept
  <2> QED BY <1>0, <2>4, <2>5 DEF Aligned, AlignedIn
<1>7. Aligned'
  BY <1>0, <1>1, <1>3, <1>4, <1>6, OneMoved
<1>8. PairedInside' /\ NothingHeld'
  BY <1>0, <1>1 DEF PairedInside, NothingHeld
<1> QED BY <1>5, <1>7, <1>8 DEF IInv

\* rpa_out pairs the first word with the first query state: by Aligned it is the
\* word that query asked for.
LEMMA ReadQsInv ==
  ASSUME IInv, NEW c \in Channel, ReadQs(c) PROVE IInv'
<1>0. Types /\ PairedInside /\ NothingHeld /\ Aligned
  BY DEF IInv
<1>1. /\ word[c] # <<>> /\ vds[c] # <<>>
      /\ pair' = [pair EXCEPT ![c] = <<[query |-> Head(vds[c]), word |-> Head(word[c])]>>]
      /\ word' = [word EXCEPT ![c] = <<>>]
      /\ vds' = [vds EXCEPT ![c] = Tail(vds[c])]
      /\ UNCHANGED <<asked, holding, input, cmd, engine, fetched, ctrl, data, answers>>
      /\ UNCHANGED <<inner, merge, flag, out, host, runs>>
  BY DEF ReadQs, Empty, inVars, engineVars, hostVars
<1>2. PICK e \in AllWords : e = Head(word[c]) /\ word[c] = One(e)
  <2>1. word[c] = <<Head(word[c])>> /\ Head(word[c]) \in AllWords
    BY <1>0, <1>1, RegisterSeq DEF Types
  <2> QED BY <2>1 DEF One
<1>3. /\ Head(vds[c]) \in Query /\ Tail(vds[c]) \in Seq(Query)
      /\ Asks(vds[c]) = <<Word(Head(vds[c]))>> \o Asks(Tail(vds[c]))
  BY <1>0, <1>1, AsksFacts DEF Types
<1>4. PICK q \in Query : q = Head(vds[c])
  BY <1>3
<1>5. PICK r \in Seq(AllWords) : r = Queue(<<>>, data[c], fetched[c], Load(c, cmd[c]))
  <2>1. /\ data[c] \in Seq(AllWords) /\ fetched[c] \in Seq(AllWords)
        /\ Load(c, cmd[c]) \in Seq(AllWords) /\ <<>> \in Seq(AllWords)
    BY <1>0, Parts
  <2> QED BY <2>1, ConcatProperties DEF Queue
<1>6. e = Word(q) /\ r = Asks(Tail(vds[c])) \o Owed(c)
  <2>1. /\ data[c] \in Seq(AllWords) /\ fetched[c] \in Seq(AllWords)
        /\ Load(c, cmd[c]) \in Seq(AllWords) /\ Owed(c) \in Seq(AllWords)
    BY <1>0, Parts
  <2>2. Transit(c) = Cons(e, r)
    BY <1>2, <1>5, <2>1, MoveOn DEF Transit
  <2>3. Asks(Tail(vds[c])) \in Seq(AllWords) /\ Word(q) \in AllWords
    BY <1>3, AsksFacts, Memory
  <2>4. <<e>> \o r = (<<Word(q)>> \o Asks(Tail(vds[c]))) \o Owed(c)
    BY <1>0, <1>3, <1>4, <2>2 DEF Aligned, AlignedIn, Cons
  <2>5. PICK a \in Seq(AllWords), o \in Seq(AllWords), g \in AllWords :
          a = Asks(Tail(vds[c])) /\ o = Owed(c) /\ g = Word(q)
    BY <2>1, <2>3
  <2>6. Cons(e, r) = Join(Cons(g, a), o)
    BY <2>4, <2>5 DEF Cons, Join
  <2>7. e = g /\ r = Join(a, o)
    BY <2>6, ComesFirst
  <2> QED BY <2>5, <2>7 DEF Join
<1>7. /\ word' \in [Channel -> Register(AllWords)] /\ word'[c] = <<>>
      /\ \A x \in Channel : x # c => word'[x] = word[x]
  BY <1>0, <1>1, RegisterValues DEF Types
<1>8. /\ vds' \in [Channel -> Seq(Query)] /\ vds'[c] = Tail(vds[c])
      /\ \A x \in Channel : x # c => vds'[x] = vds[x]
  BY <1>0, <1>1, <1>3 DEF Types
<1>9. Types'
  BY <1>0, <1>1, <1>7, <1>8 DEF Types
<1>10. Aligned'
  <2>1. Transit(c)' = r /\ Owed(c)' = Owed(c)
    BY <1>1, <1>5, <1>7, OwedKept DEF Transit
  <2>2. AlignedIn(c)'
    BY <1>6, <1>8, <2>1 DEF AlignedIn
  <2> QED BY <1>0, <1>1, <1>7, <1>8, <2>2, OneMoved
<1>11. PairedInside'
  <2>1. [query |-> q, word |-> e] \in Right
    BY <1>6 DEF Right, Answer
  <2>2. pair' \in [Channel -> Register(Right)]
    BY <1>0, <1>1, <1>2, <1>4, <2>1, RegisterValues DEF PairedInside
  <2> QED BY <1>0, <1>1, <2>2 DEF PairedInside
<1>12. NothingHeld'
  BY <1>0, <1>1 DEF NothingHeld
<1> QED BY <1>9, <1>10, <1>11, <1>12 DEF IInv

-----------------------------------------------------------------------------
LEMMA EngineSampleInv ==
  ASSUME IInv, NEW c \in Channel, EngineSample(c) PROVE IInv'
<1> USE DEF EngineSample, MayEnd, Empty, inVars, outVars, hostVars
<1>1. Types'
  BY DEF IInv, Types
<1>2. Aligned'
  BY NoneMoved, OwedKept DEF IInv
<1>3. NothingHeld'
  BY DEF IInv, Types, NothingHeld
<1> QED BY <1>1, <1>2, <1>3 DEF IInv, PairedInside

\* The engine holds no word when it returns, so none is lost.
LEMMA EngineEndInv ==
  ASSUME IInv, NEW c \in Channel, EngineEnd(c) PROVE IInv'
<1> USE DEF EngineEnd, CtrlAfterEnd, inVars, outVars, hostVars
<1>1. fetched[c] = <<>> /\ ctrl[c] > 0 /\ fetched' = fetched
  BY DEF IInv, Types, NothingHeld
<1>2. Types'
  <2>1. ctrl[c] - 1 \in Nat
    BY <1>1 DEF IInv, Types
  <2> QED BY <1>1, <2>1 DEF IInv, Types
<1>3. Aligned'
  BY <1>1, NoneMoved, OwedKept DEF IInv
<1>4. NothingHeld'
  BY <1>1 DEF IInv, Types, NothingHeld
<1> QED BY <1>2, <1>3, <1>4 DEF IInv, PairedInside

LEMMA WritePairInv ==
  ASSUME IInv, NEW c \in Channel, WritePair(c) PROVE IInv'
<1> USE DEF WritePair, Empty, inVars, engineVars, hostVars
<1>1. Types' /\ NothingHeld'
  BY DEF IInv, Types, NothingHeld
<1>2. Aligned'
  BY NoneMoved, OwedKept DEF IInv
<1>3. PairedInside'
  <2>1. Head(pair[c]) \in Right
    BY RegisterSeq DEF IInv, PairedInside
  <2>2. Append(inner[c], Head(pair[c])) \in Seq(Right)
    BY <2>1, AppendProperties DEF IInv, PairedInside
  <2> QED BY <2>2, RegisterValues DEF IInv, PairedInside
<1> QED BY <1>1, <1>2, <1>3 DEF IInv

LEMMA MergeInv ==
  ASSUME IInv, NEW c \in Channel, merge_package(c) PROVE IInv'
<1> USE DEF merge_package, Empty, inVars, engineVars, hostVars
<1>1. Types' /\ NothingHeld'
  BY DEF IInv, Types, NothingHeld
<1>2. Aligned'
  BY NoneMoved, OwedKept DEF IInv
<1>3. PairedInside'
  <2>1. Head(inner[c]) \in Right /\ Tail(inner[c]) \in Seq(Right)
    BY HeadTailProperties DEF IInv, PairedInside
  <2> QED BY <2>1, RegisterValues DEF IInv, PairedInside
<1> QED BY <1>1, <1>2, <1>3 DEF IInv

LEMMA WriteMergedInv ==
  ASSUME IInv, WriteMerged PROVE IInv'
<1> USE DEF WriteMerged, Empty, inVars, engineVars, hostVars
<1>1. Types' /\ NothingHeld'
  BY DEF IInv, Types, NothingHeld
<1>2. Aligned'
  BY NoneMoved, OwedKept DEF IInv
<1>3. PairedInside'
  <2>1. Head(merge) \in Right
    BY RegisterSeq DEF IInv, PairedInside
  <2> QED BY <2>1, RegisterValues, AppendProperties DEF IInv, PairedInside
<1> QED BY <1>1, <1>2, <1>3 DEF IInv

LEMMA LeaveInv ==
  ASSUME IInv, Leave PROVE IInv'
<1> USE DEF Leave, Empty, inVars, engineVars, hostVars
<1>1. Types' /\ NothingHeld'
  BY DEF IInv, Types, NothingHeld
<1>2. Aligned'
  BY NoneMoved, OwedKept DEF IInv
<1>3. PairedInside'
  <2>1. Head(out) \in Right /\ Tail(out) \in Seq(Right)
    BY HeadTailProperties DEF IInv, PairedInside
  <2> QED BY <2>1 DEF IInv, PairedInside
<1> QED BY <1>1, <1>2, <1>3 DEF IInv

LEMMA HostInv ==
  ASSUME IInv, HostStart \/ EndCtrl \/ HostJoin PROVE IInv'
<1> USE DEF inVars, engineVars, outVars, hostVars, PerChannel
<1>1. CASE HostStart
  <2>1. Types' /\ NothingHeld'
    BY <1>1, LaneAssumption DEF IInv, Types, NothingHeld, HostStart
  <2>2. Aligned'
    BY <1>1, NoneMoved, OwedKept DEF IInv, HostStart
  <2> QED BY <1>1, <2>1, <2>2 DEF IInv, PairedInside, HostStart
<1>2. CASE EndCtrl
  <2>1. ctrl' \in [Channel -> Nat] /\ \A c \in Channel : ctrl'[c] >= ctrl[c]
    BY <1>2 DEF IInv, Types, EndCtrl, Channel
  <2>2. host' \in {"ending", "joining"}
    BY <1>2 DEF EndCtrl
  <2>3. Types' /\ NothingHeld'
    <3>1. UNCHANGED <<asked, inVars, cmd, vds, engineVars, data, word, flag, runs>>
      BY <1>2 DEF EndCtrl
    <3>2. Types'
      BY <2>1, <2>2, <3>1 DEF IInv, Types
    <3>3. NothingHeld'
      <4>1. \A c \in Channel : ctrl[c] \in Nat /\ ctrl'[c] \in Nat
        BY <2>1 DEF IInv, Types
      <4> QED BY <2>1, <3>1, <4>1 DEF IInv, NothingHeld
    <3> QED BY <3>2, <3>3
  <2>4. Aligned'
    BY <1>2, NoneMoved, OwedKept DEF IInv, EndCtrl
  <2> QED BY <1>2, <2>3, <2>4 DEF IInv, PairedInside, EndCtrl
<1>3. CASE HostJoin
  <2>1. Types' /\ NothingHeld'
    BY <1>3 DEF IInv, Types, NothingHeld, HostJoin
  <2>2. Aligned'
    BY <1>3, NoneMoved, OwedKept DEF IInv, HostJoin
  <2> QED BY <1>3, <2>1, <2>2 DEF IInv, PairedInside, HostJoin
<1> QED BY <1>1, <1>2, <1>3

LEMMA StutterInv ==
  ASSUME IInv, UNCHANGED vars PROVE IInv'
<1> USE DEF vars, inVars, engineVars, outVars, hostVars
<1>1. Types' /\ NothingHeld' /\ PairedInside'
  BY DEF IInv, Types, NothingHeld, PairedInside
<1>2. Aligned'
  BY NoneMoved, OwedKept DEF IInv
<1> QED BY <1>1, <1>2 DEF IInv

LEMMA NextInv == IInv /\ [Next]_vars => IInv'
<1> SUFFICES ASSUME IInv, [Next]_vars PROVE IInv'
  OBVIOUS
<1>1. CASE \E q \in Query : Arrive(q)
  BY <1>1, ArriveInv
<1>2. CASE rpa_in \/ WriteCmd \/ WriteVds \/ WriteMerged \/ Leave
  BY <1>2, TakeInv, WriteCmdInv, WriteVdsInv, WriteMergedInv, LeaveInv
<1>3. ASSUME NEW c \in Channel,
             \/ EngineRead(c) \/ EngineWrite(c) \/ EngineSample(c) \/ EngineEnd(c)
             \/ rpa_out_frp(c) \/ ReadQs(c) \/ WritePair(c) \/ merge_package(c)
      PROVE  IInv'
  BY <1>3, EngineReadInv, EngineWriteInv, EngineSampleInv, EngineEndInv, FrpInv, ReadQsInv,
     WritePairInv, MergeInv
<1>4. CASE HostStart \/ EndCtrl \/ HostJoin
  BY <1>4, HostInv
<1>5. CASE Done \/ UNCHANGED vars
  BY <1>5, StutterInv DEF Done
<1> QED BY <1>1, <1>2, <1>3, <1>4, <1>5 DEF Next, Work

LEMMA Invariant == Spec => []IInv
BY InitInv, NextInv, PTL DEF Spec

-----------------------------------------------------------------------------
LEMMA TypesSuffice == Types /\ PairedInside => TypeOK
<1> SUFFICES ASSUME Types, PairedInside PROVE TypeOK
  OBVIOUS
<1>1. \A S : Register(S) \subseteq Seq(S)
  BY RegisterSeq
<1>2. /\ holding \in Seq([query : Query, sent : BOOLEAN])
      /\ {fetched, data, word} \subseteq [Channel -> Seq(AllWords)]
  BY <1>1 DEF Types
<1>3. cmd \in [Channel -> Seq(UNION {DOMAIN Bank[c] : c \in Channel})]
  <2>1. UNION {AddrOf(c) : c \in Channel} \subseteq UNION {DOMAIN Bank[c] : c \in Channel}
    BY LaneAssumption DEF AddrOf
  <2> QED BY <2>1, SeqMonotonic DEF Types
<1>4. Right \subseteq Answer
  BY DEF Right
<1>5. /\ pair \in [Channel -> Seq(Answer)] /\ inner \in [Channel -> Seq(Answer)]
      /\ {merge, out} \subseteq Seq(Answer)
  BY <1>1, <1>4, SeqMonotonic DEF PairedInside
<1> QED BY <1>2, <1>3, <1>4, <1>5 DEF Types, PairedInside, TypeOK

\* The streams of rpa_in, the engines and rpa_out keep their types.
THEOREM LaneTypeCorrect == Spec => []TypeOK
<1>1. IInv => TypeOK
  BY TypesSuffice DEF IInv
<1> QED BY <1>1, Invariant, PTL

\* A channel carries as many commands and words as query states, however often
\* the engines are started and ended: rpa_out never pairs across queries and no
\* query state is left without a word.
THEOREM StaysInStep == Spec => []InStep
<1>1. IInv => InStep
  BY AlignedCounts DEF IInv
<1> QED BY <1>1, Invariant, PTL

\* A query leaves rpa_out with the word its own address names.
THEOREM PairsRight == Spec => []Paired
<1>1. IInv => Paired
  BY DEF IInv, PairedInside, Right, Paired
<1> QED BY <1>1, Invariant, PTL

\* The word of a query as the host lays the vertices out: lane, channel and
\* address of a vertex, put together, are the vertex again.
LEMMA WordIsVertex ==
  ASSUME Lane \in 0 .. 7, Rows \in Nat, Query = MCQuery, Chn = MCChn, Addr = MCAddr,
         Bank = MCBank, NEW v \in Query
  PROVE  Word(v) = v
<1>1. v \in 0 .. (16 * Rows - 1) /\ (v % 16) \div 2 = Lane
  BY DEF MCQuery, rpa_dest
<1>2. Chn[v] = v % 2 /\ Addr[v] = v \div 16
  BY DEF MCChn, MCAddr, rpa_chn, rpa_addr
<1>3. v % 2 \in {0, 1} /\ v \div 16 \in 0 .. Rows - 1
  BY <1>1
<1>4. Word(v) = 16 * (v \div 16) + 2 * Lane + (v % 2)
  BY <1>2, <1>3 DEF Word, MCBank
<1>5. 16 * (v \div 16) + 2 * ((v % 16) \div 2) + (v % 2) = v
  BY <1>1
<1> QED BY <1>1, <1>4, <1>5

\* In every lane of a graph of any size a query leaves with the row pointer of
\* its own vertex: the split of the vertex id by rpa_input and rpa_in fits the
\* host's layout of the channels.
THEOREM RowIsOwn ==
  ASSUME Lane \in 0 .. 7, Rows \in Nat, Query = MCQuery, Chn = MCChn, Addr = MCAddr,
         Bank = MCBank
  PROVE  Spec => []OwnRow
<1>1. IInv => OwnRow
  <2>1. SUFFICES ASSUME IInv, NEW a \in answers PROVE a.word = a.query
    BY DEF OwnRow
  <2>2. a.query \in Query /\ a.word = Word(a.query)
    BY <2>1 DEF IInv, PairedInside, Right, Answer
  <2> QED BY <2>2, WordIsVertex
<1> QED BY <1>1, Invariant, PTL

-----------------------------------------------------------------------------
\* The host has written the end token of engine c in this run.
TokenSent(c) == host = "joining" \/ (host = "ending" /\ c = 0)

\* An engine that runs after its token was sent has it before it; one that is
\* off has read it, or was not started.
Tokens ==
  \A c \in Channel :
    /\ ctrl[c] = IF TokenSent(c) /\ engine[c] # "off" THEN 1 ELSE 0
    /\ engine[c] = "off" => host = "idle" \/ TokenSent(c)
    /\ host = "idle" => engine[c] = "off"

LEMMA TokensInit == Init => Tokens
BY DEF Init, Tokens, TokenSent, PerChannel

LEMMA TokensNext == IInv /\ Tokens /\ [Next]_vars => Tokens'
<1> SUFFICES ASSUME IInv, Tokens, [Next]_vars PROVE Tokens'
  OBVIOUS
<1>0. /\ engine \in [Channel -> {"off", "loop", "ctrl"}] /\ ctrl \in [Channel -> Nat]
  BY DEF IInv, Types
<1>1. ASSUME UNCHANGED <<engine, ctrl, hostVars>> PROVE Tokens'
  BY <1>1 DEF Tokens, TokenSent, hostVars
<1>2. CASE (\E q \in Query : Arrive(q)) \/ rpa_in \/ WriteCmd \/ WriteVds \/ WriteMerged
           \/ Leave \/ Done \/ UNCHANGED vars
  BY <1>1, <1>2 DEF Arrive, rpa_in, WriteCmd, WriteVds, WriteMerged, Leave, Done, vars,
                    engineVars
<1>3. ASSUME NEW c \in Channel,
             EngineRead(c) \/ EngineWrite(c) \/ rpa_out_frp(c) \/ ReadQs(c)
               \/ WritePair(c) \/ merge_package(c)
      PROVE  Tokens'
  BY <1>1, <1>3 DEF EngineRead, EngineWrite, rpa_out_frp, ReadQs, WritePair, merge_package,
                    engineVars
<1>4. ASSUME NEW c \in Channel, EngineSample(c) PROVE Tokens'
  BY <1>0, <1>4 DEF EngineSample, MayEnd, Tokens, TokenSent, hostVars
<1>5. ASSUME NEW c \in Channel, EngineEnd(c) PROVE Tokens'
  <2>1. ctrl[c] = 1 /\ TokenSent(c) /\ host # "idle"
    BY <1>0, <1>5 DEF IInv, NothingHeld, EngineEnd, Tokens, TokenSent
  <2> QED BY <1>0, <1>5, <2>1 DEF EngineEnd, CtrlAfterEnd, Tokens, TokenSent, hostVars
<1>6. CASE HostStart
  BY <1>0, <1>6 DEF HostStart, Tokens, TokenSent, PerChannel
<1>7. CASE EndCtrl
  BY <1>0, <1>7 DEF EndCtrl, Tokens, TokenSent, Channel, engineVars
<1>8. CASE HostJoin
  BY <1>0, <1>8 DEF HostJoin, Tokens, TokenSent, PerChannel, engineVars
<1> QED BY <1>2, <1>3, <1>4, <1>5, <1>6, <1>7, <1>8 DEF Next, Work

\* When the host has joined the engines no end token is left that would end an
\* engine of the next run.
THEOREM TokensMatchStarts == Spec => []NoStaleToken
<1>1. Tokens => NoStaleToken
  BY DEF Tokens, TokenSent, NoStaleToken
<1> QED BY <1>1, TokensInit, TokensNext, Invariant, PTL DEF Spec

-----------------------------------------------------------------------------
(* The lane is a pool: no query is in two places. *)

\* The queries of a sequence of records.
Names(s) == [i \in DOMAIN s |-> s[i].query]
Els(s) == {s[i] : i \in DOMAIN s}

\* The parts of the lane on the way of a query, and the queries in them.
Places == 1..10
Way == [Places -> Seq(Query)]
IsWay(P) ==
  /\ P[1] = input /\ P[2] = Names(holding)
  /\ \A c \in Channel : /\ P[3 + c] = vds[c] /\ P[5 + c] = Names(pair[c])
                        /\ P[7 + c] = Names(inner[c])
  /\ P[9] = Names(merge) /\ P[10] = Names(out)

In(P) == UNION {Els(P[p]) : p \in Places}

\* No query is in two places of P.
Once(P) ==
  \A p, r \in Places : \A i \in DOMAIN P[p], j \in DOMAIN P[r] :
    P[p][i] = P[r][j] => p = r /\ i = j

\* The head of part p goes to the end of part r.
Onward(P, p, r) == [P EXCEPT ![p] = Tail(P[p]), ![r] = Append(P[r], Head(P[p]))]

\* rpa_out_frp reads the next word after it has written the pair.
Apart == \A c \in Channel : word[c] # <<>> => pair[c] = <<>>

Answered == {a.query : a \in answers}
OnWay(P) == P \in Way /\ IsWay(P) /\ Once(P) /\ In(P) \cup Answered \subseteq asked

WayInv == Apart /\ \E P \in Way : OnWay(P)

LEMMA NamesEls == ASSUME NEW s PROVE Els(Names(s)) = {s[i].query : i \in DOMAIN s}
<1>1. DOMAIN Names(s) = DOMAIN s /\ \A i \in DOMAIN s : Names(s)[i] = s[i].query
  BY DEF Names
<1> QED
  BY <1>1 DEF Els

LEMMA WayIsInside == ASSUME NEW P, IsWay(P) PROVE Inside = In(P)
<1>1. \A c \in Channel : /\ Els(P[3 + c]) = {vds[c][i] : i \in DOMAIN vds[c]}
                         /\ Els(P[5 + c]) = {pair[c][i].query : i \in DOMAIN pair[c]}
                         /\ Els(P[7 + c]) = {inner[c][i].query : i \in DOMAIN inner[c]}
  <2> TAKE c \in Channel
  <2>1. P[3 + c] = vds[c] /\ P[5 + c] = Names(pair[c]) /\ P[7 + c] = Names(inner[c])
    BY DEF IsWay
  <2>2. Els(P[3 + c]) = {vds[c][i] : i \in DOMAIN vds[c]}
    BY <2>1 DEF Els
  <2>3. Els(Names(pair[c])) = {pair[c][i].query : i \in DOMAIN pair[c]}
    BY NamesEls
  <2>4. Els(Names(inner[c])) = {inner[c][i].query : i \in DOMAIN inner[c]}
    BY NamesEls
  <2> QED
    BY <2>1, <2>2, <2>3, <2>4
<1>2. /\ P[1] = input /\ P[2] = Names(holding)
      /\ P[9] = Names(merge) /\ P[10] = Names(out)
  BY DEF IsWay
<1>3. /\ Els(P[1]) = {input[i] : i \in DOMAIN input}
      /\ Els(P[2]) = {holding[i].query : i \in DOMAIN holding}
      /\ Els(P[9]) = {merge[i].query : i \in DOMAIN merge}
      /\ Els(P[10]) = {out[i].query : i \in DOMAIN out}
  <2>1. Els(P[1]) = {input[i] : i \in DOMAIN input}
    BY <1>2 DEF Els
  <2>2. Els(Names(holding)) = {holding[i].query : i \in DOMAIN holding}
    BY NamesEls
  <2>3. Els(Names(merge)) = {merge[i].query : i \in DOMAIN merge}
    BY NamesEls
  <2>4. Els(Names(out)) = {out[i].query : i \in DOMAIN out}
    BY NamesEls
  <2> QED
    BY <1>2, <2>1, <2>2, <2>3, <2>4
<1>4. /\ UNION {{vds[c][i] : i \in DOMAIN vds[c]} : c \in Channel} = Els(P[3]) \cup Els(P[4])
      /\ UNION {{pair[c][i].query : i \in DOMAIN pair[c]} : c \in Channel}
           = Els(P[5]) \cup Els(P[6])
      /\ UNION {{inner[c][i].query : i \in DOMAIN inner[c]} : c \in Channel}
           = Els(P[7]) \cup Els(P[8])
  BY <1>1 DEF Channel
<1>5. In(P) = Els(P[1]) \cup Els(P[2]) \cup Els(P[3]) \cup Els(P[4]) \cup Els(P[5])
                \cup Els(P[6]) \cup Els(P[7]) \cup Els(P[8]) \cup Els(P[9]) \cup Els(P[10])
  <2>1. \A p : p \in Places <=> p \in {1, 2, 3, 4, 5, 6, 7, 8, 9, 10}
    BY DEF Places
  <2> QED
    BY <2>1 DEF In
<1> QED
  <2> DEFINE a == {input[i] : i \in DOMAIN input}
             b == {holding[i].query : i \in DOMAIN holding}
             d == UNION {{vds[c][i] : i \in DOMAIN vds[c]} : c \in Channel}
             e == UNION {{pair[c][i].query : i \in DOMAIN pair[c]} : c \in Channel}
             f == UNION {{inner[c][i].query : i \in DOMAIN inner[c]} : c \in Channel}
             g == {merge[i].query : i \in DOMAIN merge}
             h == {out[i].query : i \in DOMAIN out}
  <2>1. Inside = a \cup b \cup d \cup e \cup f \cup g \cup h
    BY DEF Inside
  <2>2. /\ a = Els(P[1]) /\ b = Els(P[2]) /\ g = Els(P[9]) /\ h = Els(P[10])
        /\ d = Els(P[3]) \cup Els(P[4]) /\ e = Els(P[5]) \cup Els(P[6])
        /\ f = Els(P[7]) \cup Els(P[8])
    BY <1>3, <1>4
  <2> HIDE DEF a, b, d, e, f, g, h
  <2> QED
    BY <1>5, <2>1, <2>2

\* Reading and writing a sequence of queries.
LEMMA TailEls ==
  ASSUME NEW s \in Seq(Query), s # <<>>
  PROVE  /\ Head(s) \in Query /\ Tail(s) \in Seq(Query) /\ 1 \in DOMAIN s /\ Head(s) = s[1]
         /\ \A i \in DOMAIN Tail(s) : i + 1 \in DOMAIN s /\ i + 1 # 1 /\ Tail(s)[i] = s[i + 1]
         /\ \A i, j \in DOMAIN Tail(s) : i + 1 = j + 1 => i = j
         /\ Els(s) = Els(Tail(s)) \cup {Head(s)}
<1>1. /\ Tail(s) \in Seq(Query) /\ Len(Tail(s)) = Len(s) - 1
      /\ \A i \in 1..Len(Tail(s)) : Tail(s)[i] = s[i + 1]
      /\ Len(s) \in Nat \ {0} /\ Head(s) = s[1] /\ Head(s) \in Query
  BY HeadTailProperties, EmptySeq
<1>2. DOMAIN s = 1..Len(s) /\ DOMAIN Tail(s) = 1..Len(s) - 1
  BY <1>1, LenProperties
<1>3. /\ \A i \in 1..Len(s) - 1 : i + 1 \in 1..Len(s) /\ i + 1 # 1
      /\ \A i, j \in 1..Len(s) - 1 : i + 1 = j + 1 => i = j
      /\ 1 \in 1..Len(s)
      /\ \A i \in 1..Len(s) : i = 1 \/ \E j \in 1..Len(s) - 1 : i = j + 1
  <2>1. \A i \in 1..Len(s) : i = 1 \/ (i - 1 \in 1..Len(s) - 1 /\ i = (i - 1) + 1)
    BY <1>1
  <2> QED
    BY <1>1, <2>1
<1>4. Els(s) = Els(Tail(s)) \cup {Head(s)}
  <2>1. \A e \in Els(s) : e \in Els(Tail(s)) \cup {Head(s)}
    <3> SUFFICES ASSUME NEW i \in 1..Len(s), i # 1 PROVE s[i] \in Els(Tail(s))
      BY <1>1, <1>2 DEF Els
    <3>1. PICK j \in 1..Len(s) - 1 : i = j + 1
      BY <1>3
    <3>2. Tail(s)[j] = s[i] /\ j \in DOMAIN Tail(s)
      BY <1>1, <1>2, <3>1
    <3> QED
      BY <3>2 DEF Els
  <2>2. \A e \in Els(Tail(s)) \cup {Head(s)} : e \in Els(s)
    BY <1>1, <1>2, <1>3 DEF Els
  <2> QED
    BY <2>1, <2>2
<1> QED
  BY <1>1, <1>2, <1>3, <1>4

LEMMA AppendEls ==
  ASSUME NEW s \in Seq(Query), NEW q \in Query
  PROVE  /\ Append(s, q) \in Seq(Query) /\ Els(Append(s, q)) = Els(s) \cup {q}
         /\ \E n : /\ n \notin DOMAIN s /\ DOMAIN Append(s, q) = DOMAIN s \cup {n}
                   /\ Append(s, q)[n] = q
         /\ \A i \in DOMAIN s : Append(s, q)[i] = s[i]
<1>1. /\ Append(s, q) \in Seq(Query) /\ Len(Append(s, q)) = Len(s) + 1
      /\ \A i \in 1..Len(s) : Append(s, q)[i] = s[i]
      /\ Append(s, q)[Len(s) + 1] = q /\ Len(s) \in Nat
  BY LenProperties, AppendProperties
<1>2. DOMAIN s = 1..Len(s) /\ DOMAIN Append(s, q) = 1..Len(s) + 1
  BY <1>1, LenProperties
<1>3. Len(s) + 1 \notin 1..Len(s) /\ 1..Len(s) + 1 = 1..Len(s) \cup {Len(s) + 1}
  BY <1>1
<1> QED
  BY <1>1, <1>2, <1>3 DEF Els

\* A query that goes on is still in one place, and the lane holds what it held.
LEMMA GoesOn ==
  ASSUME NEW P \in Way, NEW p \in Places, NEW r \in Places, p # r, P[p] # <<>>
  PROVE  /\ Onward(P, p, r) \in Way /\ In(Onward(P, p, r)) = In(P)
         /\ Once(P) => Once(Onward(P, p, r))
<1> DEFINE R == Onward(P, p, r)
           q == Head(P[p])
<1>1. P[p] \in Seq(Query) /\ P[r] \in Seq(Query)
  BY DEF Way
<1>2. /\ q \in Query /\ Tail(P[p]) \in Seq(Query) /\ 1 \in DOMAIN P[p] /\ q = P[p][1]
      /\ \A i \in DOMAIN Tail(P[p]) : /\ i + 1 \in DOMAIN P[p] /\ i + 1 # 1
                                      /\ Tail(P[p])[i] = P[p][i + 1]
      /\ \A i, j \in DOMAIN Tail(P[p]) : i + 1 = j + 1 => i = j
      /\ Els(P[p]) = Els(Tail(P[p])) \cup {q}
  BY <1>1, TailEls
<1>3. /\ Append(P[r], q) \in Seq(Query) /\ Els(Append(P[r], q)) = Els(P[r]) \cup {q}
      /\ \A i \in DOMAIN P[r] : Append(P[r], q)[i] = P[r][i]
  BY <1>1, <1>2, AppendEls
<1>4. PICK n : /\ n \notin DOMAIN P[r] /\ DOMAIN Append(P[r], q) = DOMAIN P[r] \cup {n}
               /\ Append(P[r], q)[n] = q
  BY <1>1, <1>2, AppendEls
<1>5. /\ R[p] = Tail(P[p]) /\ R[r] = Append(P[r], q)
      /\ \A x \in Places \ {p, r} : R[x] = P[x]
  BY DEF Onward, Way
<1>6. R \in Way
  BY <1>2, <1>3 DEF Onward, Way
<1>7. In(R) = In(P)
  <2>1. \A x \in Places : Els(R[x]) \subseteq In(P)
    BY <1>2, <1>3, <1>5 DEF In
  <2>2. ASSUME NEW x \in Places PROVE Els(P[x]) \subseteq In(R)
    <3>1. q \in In(R)
      BY <1>3, <1>5 DEF In
    <3>2. CASE x = p
      BY <1>2, <1>5, <3>1, <3>2 DEF In
    <3>3. CASE x # p
      BY <1>3, <1>5, <3>3 DEF In
    <3> QED
      BY <3>2, <3>3
  <2> QED
    BY <2>1, <2>2 DEF In
<1>8. ASSUME Once(P) PROVE Once(R)
  \* Where an element of R comes from.
  <2> DEFINE Old(x, i) == IF x = p THEN <<p, i + 1>>
                          ELSE IF x = r /\ i = n THEN <<p, 1>> ELSE <<x, i>>
  <2>1. \A x \in Places : \A i \in DOMAIN R[x] :
          /\ Old(x, i)[1] \in Places /\ Old(x, i)[2] \in DOMAIN P[Old(x, i)[1]]
          /\ R[x][i] = P[Old(x, i)[1]][Old(x, i)[2]]
    <3> SUFFICES ASSUME NEW x \in Places, NEW i \in DOMAIN R[x]
                 PROVE  /\ Old(x, i)[1] \in Places /\ Old(x, i)[2] \in DOMAIN P[Old(x, i)[1]]
                        /\ R[x][i] = P[Old(x, i)[1]][Old(x, i)[2]]
      OBVIOUS
    <3> HIDE DEF R
    <3>1. CASE x = p
      BY <1>2, <1>5, <3>1
    <3>2. CASE x = r
      BY <1>2, <1>3, <1>4, <1>5, <3>2
    <3>3. CASE x \in Places \ {p, r}
      BY <1>5, <3>3
    <3> QED
      BY <3>1, <3>2, <3>3
  <2>2. \A x, y \in Places : \A i \in DOMAIN R[x], j \in DOMAIN R[y] :
          Old(x, i) = Old(y, j) => x = y /\ i = j
    <3> SUFFICES ASSUME NEW x \in Places, NEW y \in Places, NEW i \in DOMAIN R[x],
                        NEW j \in DOMAIN R[y], Old(x, i) = Old(y, j)
                 PROVE  x = y /\ i = j
      OBVIOUS
    <3> HIDE DEF R
    <3>1. CASE x = p /\ y = p
      BY <1>2, <1>5, <3>1
    <3>2. CASE x = p /\ y # p
      BY <1>2, <1>4, <1>5, <3>2
    <3>3. CASE x # p /\ y = p
      BY <1>2, <1>4, <1>5, <3>3
    <3>4. CASE x # p /\ y # p
      BY <3>4
    <3> QED
      BY <3>1, <3>2, <3>3, <3>4
  <2> HIDE DEF Old, R
  <2>3. SUFFICES ASSUME NEW x \in Places, NEW y \in Places, NEW i \in DOMAIN R[x],
                        NEW j \in DOMAIN R[y], R[x][i] = R[y][j]
                 PROVE  x = y /\ i = j
    BY DEF Once
  <2>4. Old(x, i)[1] = Old(y, j)[1] /\ Old(x, i)[2] = Old(y, j)[2]
    BY <1>8, <2>1, <2>3 DEF Once
  <2>5. Old(x, i) = Old(y, j)
    BY <2>4 DEF Old
  <2> QED
    BY <2>2, <2>5
<1> QED
  BY <1>6, <1>7, <1>8

-----------------------------------------------------------------------------
LEMMA NamesShort == Names(<<>>) = <<>> /\ \A e : Names(<<e>>) = <<e.query>>
<1>1. Names(<<>>) = <<>>
  BY DEF Names
<1>2. ASSUME NEW e PROVE Names(<<e>>) = <<e.query>>
  <2>1. DOMAIN <<e>> = 1..1 /\ <<e>>[1] = e
    OBVIOUS
  <2>2. Names(<<e>>) = [i \in 1..1 |-> e.query]
    BY <2>1 DEF Names
  <2> QED
    BY <2>2
<1> QED
  BY <1>1, <1>2

LEMMA NamesRead ==
  ASSUME NEW S, \A e \in S : e.query \in Query, NEW s \in Seq(S), s # <<>>
  PROVE  /\ Names(s) \in Seq(Query) /\ Names(s) # <<>>
         /\ Head(Names(s)) = Head(s).query /\ Tail(Names(s)) = Names(Tail(s))
<1>1. /\ Tail(s) \in Seq(S) /\ Len(Tail(s)) = Len(s) - 1
      /\ \A i \in 1..Len(Tail(s)) : Tail(s)[i] = s[i + 1]
      /\ Len(s) \in Nat \ {0} /\ Head(s) = s[1] /\ DOMAIN s = 1..Len(s)
      /\ \A i \in 1..Len(s) : s[i] \in S
  BY HeadTailProperties, EmptySeq, ElementOfSeq, LenProperties
<1>2. DOMAIN Tail(s) = 1..Len(s) - 1
  BY <1>1, LenProperties
<1>3. /\ Names(s) \in Seq(Query) /\ Len(Names(s)) = Len(s)
      /\ \A i \in 1..Len(s) : Names(s)[i] = s[i].query
  BY <1>1 DEF Names
<1>4. /\ Names(Tail(s)) \in Seq(Query) /\ Len(Names(Tail(s))) = Len(s) - 1
      /\ \A i \in 1..Len(s) - 1 : Names(Tail(s))[i] = s[i + 1].query
  <2> DEFINE t == Tail(s)
  <2>1. \A i \in 1..Len(s) - 1 : t[i] = s[i + 1] /\ s[i + 1] \in S
    BY <1>1
  <2> HIDE DEF t
  <2> QED
    BY <1>1, <1>2, <2>1 DEF Names, t
<1>5. Names(s) # <<>> /\ Head(Names(s)) = Head(s).query
  BY <1>1, <1>3
<1>6. /\ Tail(Names(s)) \in Seq(Query) /\ Len(Tail(Names(s))) = Len(s) - 1
      /\ \A i \in 1..Len(s) - 1 : Tail(Names(s))[i] = s[i + 1].query
  BY <1>1, <1>3, <1>5, HeadTailProperties
<1> QED
  BY <1>3, <1>4, <1>5, <1>6, SeqEqual

LEMMA NamesWrite ==
  ASSUME NEW S, \A e \in S : e.query \in Query, NEW s \in Seq(S), NEW x \in S
  PROVE  Names(Append(s, x)) = Append(Names(s), x.query)
<1>1. /\ Append(s, x) \in Seq(S) /\ Len(Append(s, x)) = Len(s) + 1
      /\ \A i \in 1..Len(s) : Append(s, x)[i] = s[i]
      /\ Append(s, x)[Len(s) + 1] = x /\ Len(s) \in Nat /\ DOMAIN s = 1..Len(s)
      /\ \A i \in 1..Len(s) : s[i] \in S
  BY LenProperties, AppendProperties, ElementOfSeq
<1>2. /\ Names(s) \in Seq(Query) /\ Len(Names(s)) = Len(s)
      /\ \A i \in 1..Len(s) : Names(s)[i] = s[i].query
  BY <1>1 DEF Names
<1>3. /\ Names(Append(s, x)) \in Seq(Query) /\ Len(Names(Append(s, x))) = Len(s) + 1
      /\ \A i \in 1..Len(s) + 1 : Names(Append(s, x))[i] = Append(s, x)[i].query
  <2> DEFINE t == Append(s, x)
  <2>1. /\ t \in Seq(S) /\ Len(t) = Len(s) + 1 /\ DOMAIN t = 1..Len(s) + 1
        /\ \A i \in 1..Len(s) + 1 : t[i] \in S
    BY <1>1, LenProperties, ElementOfSeq
  <2> HIDE DEF t
  <2>2. /\ Names(t) \in Seq(Query) /\ Len(Names(t)) = Len(s) + 1
        /\ \A i \in 1..Len(s) + 1 : Names(t)[i] = t[i].query
    BY <1>1, <2>1 DEF Names
  <2> QED
    BY <2>2 DEF t
<1>4. x.query \in Query
  OBVIOUS
<1>5. /\ Append(Names(s), x.query) \in Seq(Query)
      /\ Len(Append(Names(s), x.query)) = Len(s) + 1
      /\ \A i \in 1..Len(s) : Append(Names(s), x.query)[i] = s[i].query
      /\ Append(Names(s), x.query)[Len(s) + 1] = x.query
  BY <1>2, <1>4, AppendProperties
<1>6. ASSUME NEW i \in 1..Len(s) + 1
      PROVE  Names(Append(s, x))[i] = Append(Names(s), x.query)[i]
  <2>1. CASE i = Len(s) + 1
    BY <1>1, <1>3, <1>5, <2>1
  <2>2. CASE i # Len(s) + 1
    <3>1. i \in 1..Len(s)
      BY <1>1, <2>2
    <3> QED
      BY <1>1, <1>3, <1>5, <3>1
  <2> QED
    BY <2>1, <2>2
<1> QED
  BY <1>3, <1>5, <1>6, SeqEqual

\* The streams and registers of rpa_out hold sequences of queries with words.
LEMMA NamedParts ==
  ASSUME IInv
  PROVE  /\ \A e \in Right : e.query \in Query
         /\ \A c \in Channel : pair[c] \in Seq(Right) /\ inner[c] \in Seq(Right)
         /\ merge \in Seq(Right) /\ out \in Seq(Right)
         /\ vds \in [Channel -> Seq(Query)] /\ input \in Seq(Query)
BY RegisterSeq DEF IInv, PairedInside, Types, Right, Answer

LEMMA WayIsInsideNext == ASSUME NEW CONSTANT P PROVE IsWay(P)' => Inside' = In(P)
<1>1. IsWay(P) => Inside = In(P)
  BY WayIsInside
<1>2. (IsWay(P) => Inside = In(P))'
  BY <1>1, PTL
<1> QED
  BY <1>2 DEF In, Els

LEMMA OnwardAll ==
  ASSUME NEW P \in Way, NEW p \in Places, NEW r \in Places, p # r
  PROVE  /\ Onward(P, p, r)[p] = Tail(P[p])
         /\ Onward(P, p, r)[r] = Append(P[r], Head(P[p]))
         /\ \A x \in Places \ {p, r} : Onward(P, p, r)[x] = P[x]
BY DEF Onward, Way

\* A step that passes a query on keeps the invariant, and the pool does not see it.
LEMMA PassesOn ==
  ASSUME NEW P, OnWay(P), NEW p \in Places, NEW r \in Places, p # r, P[p] # <<>>,
         IsWay(Onward(P, p, r))', UNCHANGED <<asked, answers>>, Apart'
  PROVE  WayInv' /\ UNCHANGED Inside
<1> DEFINE R == Onward(P, p, r)
<1>1. R \in Way /\ In(R) = In(P) /\ Once(R)
  BY GoesOn DEF OnWay
<1> HIDE DEF R
<1>2. IsWay(R)'
  BY DEF R
<1>3. OnWay(R)'
  BY <1>1, <1>2 DEF OnWay, Answered
<1>4. Inside = In(P)
  BY WayIsInside DEF OnWay
<1>5. Inside' = In(R)
  BY <1>2, WayIsInsideNext
<1> QED
  BY <1>1, <1>3, <1>4, <1>5 DEF WayInv

\* A step that moves no query.
LEMMA PassesNone ==
  ASSUME WayInv, Apart',
         UNCHANGED <<asked, input, Names(holding), vds, pair, inner, merge, out, answers>>
  PROVE  WayInv' /\ UNCHANGED Inside
<1>1. PICK P \in Way : OnWay(P)
  BY DEF WayInv
<1>2. IsWay(P)'
  BY <1>1 DEF OnWay, IsWay
<1>3. OnWay(P)'
  BY <1>1, <1>2 DEF OnWay, Answered
<1>4. Inside = In(P) /\ Inside' = In(P)
  BY <1>1, <1>2, WayIsInside, WayIsInsideNext DEF OnWay
<1> QED
  BY <1>1, <1>3, <1>4 DEF WayInv

-----------------------------------------------------------------------------
LEMMA ApartNext == IInv /\ Apart /\ [Next]_vars => Apart'
<1> SUFFICES ASSUME IInv, Apart, [Next]_vars PROVE Apart'
  OBVIOUS
<1>0. word \in [Channel -> Register(AllWords)] /\ pair \in [Channel -> Register(Right)]
  BY DEF IInv, Types, PairedInside
<1>1. ASSUME UNCHANGED <<word, pair>> PROVE Apart'
  BY <1>1 DEF Apart
<1>2. CASE (\E q \in Query : Arrive(q)) \/ rpa_in \/ WriteCmd \/ WriteVds \/ WriteMerged
           \/ Leave \/ HostStart \/ EndCtrl \/ HostJoin \/ Done \/ UNCHANGED vars
  BY <1>1, <1>2 DEF Arrive, rpa_in, WriteCmd, WriteVds, WriteMerged, Leave, HostStart,
                    EndCtrl, HostJoin, Done, vars, outVars
<1>3. ASSUME NEW c \in Channel,
             EngineRead(c) \/ EngineWrite(c) \/ EngineSample(c) \/ EngineEnd(c)
               \/ merge_package(c)
      PROVE  Apart'
  BY <1>1, <1>3 DEF EngineRead, EngineWrite, EngineSample, EngineEnd, merge_package, outVars
<1>4. ASSUME NEW c \in Channel, rpa_out_frp(c) \/ ReadQs(c) \/ WritePair(c) PROVE Apart'
  BY <1>0, <1>4 DEF rpa_out_frp, ReadQs, WritePair, Empty, Apart
<1> QED
  BY <1>2, <1>3, <1>4 DEF Next, Work

\* rpa_in takes a query, and writes its state to rpa_out.
LEMMA InPasses ==
  ASSUME IInv, WayInv, Apart', rpa_in \/ WriteVds
  PROVE  WayInv' /\ UNCHANGED <<Inside, answers>>
<1>1. PICK P \in Way : OnWay(P)
  BY DEF WayInv
<1>2. P \in Way /\ IsWay(P)
  BY <1>1 DEF OnWay
<1>3. CASE rpa_in
  <2>1. /\ P[1] # <<>> /\ P[2] = <<>>
        /\ input' = Tail(P[1]) /\ Names(holding)' = <<Head(P[1])>>
    BY <1>2, <1>3, NamesShort DEF rpa_in, Empty, IsWay
  <2>2. UNCHANGED <<asked, vds, pair, inner, merge, out, answers>>
    BY <1>3 DEF rpa_in, outVars
  <2>3. Onward(P, 1, 2)[1] = input' /\ Onward(P, 1, 2)[2] = Names(holding)'
    <3>1. 1 \in Places /\ 2 \in Places /\ 1 # 2
      BY DEF Places
    <3>2. Onward(P, 1, 2)[1] = Tail(P[1]) /\ Onward(P, 1, 2)[2] = Append(P[2], Head(P[1]))
      BY <1>2, <3>1, OnwardAll
    <3> QED
      BY <2>1, <3>2
  <2>4. \A x \in Places \ {1, 2} : Onward(P, 1, 2)[x] = P[x]
    BY <1>2, OnwardAll DEF Places
  <2>5. IsWay(Onward(P, 1, 2))'
    BY <1>2, <2>2, <2>3, <2>4 DEF IsWay, Places, Channel
  <2> QED
    BY <1>1, <2>1, <2>2, <2>5, PassesOn DEF Places
<1>4. CASE WriteVds
  <2>1. PICK c \in Channel : c = VdsChannel(Head(holding).query)
    <3>1. Head(holding).query \in Query
      <4>1. Head(holding) \in [query : Query, sent : BOOLEAN]
        BY <1>4, RegisterSeq DEF WriteVds, Empty, IInv, Types
      <4> QED
        BY <4>1
    <3> QED
      BY <3>1, LaneAssumption DEF VdsChannel
  <2>2. holding = <<Head(holding)>> /\ holding # <<>>
    BY <1>4, RegisterSeq DEF WriteVds, Empty, IInv, Types
  <2>3. P[2] = <<Head(holding).query>>
    BY <1>2, <2>2, NamesShort DEF IsWay
  <2>4. /\ P[2] # <<>> /\ Tail(P[2]) = <<>> /\ Head(P[2]) = Head(holding).query
        /\ Names(holding)' = <<>>
    BY <1>4, <2>3, NamesShort DEF WriteVds
  <2>5. vds' = [vds EXCEPT ![c] = Append(vds[c], Head(P[2]))] /\ vds \in [Channel -> Seq(Query)]
    BY <1>4, <2>1, <2>4, NamedParts DEF WriteVds
  <2>6. UNCHANGED <<asked, input, pair, inner, merge, out, answers>>
    BY <1>4 DEF WriteVds, outVars
  <2>7. 3 + c \in Places /\ 3 + c # 2 /\ 2 \in Places
    BY DEF Places, Channel
  <2>8. Onward(P, 2, 3 + c)[2] = <<>> /\ Onward(P, 2, 3 + c)[3 + c] = vds'[c]
    <3>1. /\ Onward(P, 2, 3 + c)[2] = Tail(P[2])
          /\ Onward(P, 2, 3 + c)[3 + c] = Append(P[3 + c], Head(P[2]))
      BY <1>2, <2>7, OnwardAll, Zenon
    <3>2. P[3 + c] = vds[c]
      BY <1>2 DEF IsWay
    <3> QED
      BY <2>4, <2>5, <3>1, <3>2
  <2>9. \A x \in Places \ {2, 3 + c} : Onward(P, 2, 3 + c)[x] = P[x]
    BY <1>2, <2>7, OnwardAll
  <2>10. \A d \in Channel : Onward(P, 2, 3 + c)[3 + d] = vds'[d]
    BY <1>2, <2>5, <2>8, <2>9 DEF IsWay, Places, Channel
  <2>11. IsWay(Onward(P, 2, 3 + c))'
    BY <1>2, <2>4, <2>6, <2>8, <2>9, <2>10 DEF IsWay, Places, Channel
  <2> QED
    BY <1>1, <2>4, <2>6, <2>7, <2>11, PassesOn
<1> QED
  BY <1>3, <1>4

\* rpa_out pairs the head of a vds stream, writes the pair, and merge_package takes it.
LEMMA OutPasses ==
  ASSUME IInv, WayInv, Apart', NEW c \in Channel,
         ReadQs(c) \/ WritePair(c) \/ merge_package(c)
  PROVE  WayInv' /\ UNCHANGED <<Inside, answers>>
<1>1. PICK P \in Way : OnWay(P)
  BY DEF WayInv
<1>2. P \in Way /\ IsWay(P)
  BY <1>1 DEF OnWay
<1>3. /\ 3 + c \in Places /\ 5 + c \in Places /\ 7 + c \in Places /\ 9 \in Places
      /\ 3 + c # 5 + c /\ 5 + c # 7 + c /\ 7 + c # 9
  BY DEF Places, Channel
<1>4. CASE ReadQs(c)
  <2>1. word[c] # <<>> /\ pair[c] = <<>> /\ vds[c] # <<>>
    BY <1>4 DEF ReadQs, Empty, WayInv, Apart
  <2>2. /\ P[3 + c] # <<>> /\ P[5 + c] = <<>> /\ P[3 + c] = vds[c]
        /\ vds' = [vds EXCEPT ![c] = Tail(P[3 + c])]
        /\ pair'[c] = <<[query |-> Head(P[3 + c]), word |-> Head(word[c])]>>
        /\ \A d \in Channel \ {c} : pair'[d] = pair[d]
    BY <1>2, <1>4, <2>1, NamesShort DEF ReadQs, IsWay, IInv, PairedInside
  <2>3. Names(pair'[c]) = Append(P[5 + c], Head(P[3 + c]))
    BY <2>2, NamesShort
  <2>4. UNCHANGED <<asked, input, holding, inner, merge, out, answers>>
    BY <1>4 DEF ReadQs, inVars
  <2> DEFINE R == Onward(P, 3 + c, 5 + c)
  <2>5. /\ R[3 + c] = Tail(P[3 + c]) /\ R[5 + c] = Names(pair'[c])
        /\ \A x \in Places \ {3 + c, 5 + c} : R[x] = P[x]
    <3>1. /\ R[3 + c] = Tail(P[3 + c]) /\ R[5 + c] = Append(P[5 + c], Head(P[3 + c]))
          /\ \A x \in Places \ {3 + c, 5 + c} : R[x] = P[x]
      BY <1>2, <1>3, OnwardAll, Zenon
    <3> HIDE DEF R
    <3> QED
      BY <2>3, <3>1
  <2> HIDE DEF R
  <2>6. \A d \in Channel : R[3 + d] = vds'[d] /\ R[5 + d] = Names(pair'[d])
    <3> SUFFICES ASSUME NEW d \in Channel PROVE R[3 + d] = vds'[d] /\ R[5 + d] = Names(pair'[d])
      OBVIOUS
    <3>1. CASE d = c
      BY <2>2, <2>5, <3>1, NamedParts
    <3>2. CASE d # c
      <4>1. 3 + d \in Places \ {3 + c, 5 + c} /\ 5 + d \in Places \ {3 + c, 5 + c}
        BY <3>2 DEF Places, Channel
      <4> QED
        BY <1>2, <2>2, <2>5, <3>2, <4>1 DEF IsWay
    <3> QED
      BY <3>1, <3>2
  <2>7. IsWay(R)'
    <3>1. \A d \in Channel : 7 + d \in Places \ {3 + c, 5 + c}
      BY DEF Places, Channel
    <3>2. {1, 2, 9, 10} \subseteq Places \ {3 + c, 5 + c}
      BY DEF Places, Channel
    <3> QED
      BY <1>2, <2>4, <2>5, <2>6, <3>1, <3>2 DEF IsWay
  <2> QED
    BY <1>1, <1>3, <2>2, <2>4, <2>7, PassesOn DEF R
<1>5. CASE WritePair(c)
  <2>1. pair[c] # <<>> /\ pair[c] \in Register(Right) /\ inner[c] \in Seq(Right)
    BY <1>5 DEF WritePair, Empty, IInv, PairedInside
  <2>2. PICK x \in Right : x = Head(pair[c]) /\ pair[c] = <<x>>
    BY <2>1, RegisterSeq
  <2>3. x.query \in Query
    BY NamedParts
  <2>4. /\ P[5 + c] = <<x.query>> /\ P[5 + c] # <<>> /\ Tail(P[5 + c]) = <<>>
        /\ Head(P[5 + c]) = x.query /\ P[7 + c] = Names(inner[c])
    <3>1. P[5 + c] = Names(pair[c]) /\ P[7 + c] = Names(inner[c])
      BY <1>2 DEF IsWay
    <3>2. Names(pair[c]) = <<x.query>>
      BY <2>2, NamesShort
    <3> QED
      BY <3>1, <3>2
  <2>5. /\ inner'[c] = Append(inner[c], x) /\ pair'[c] = <<>>
        /\ \A d \in Channel \ {c} : pair'[d] = pair[d] /\ inner'[d] = inner[d]
    BY <1>5, <2>2 DEF WritePair, IInv, PairedInside
  <2>6. Names(inner'[c]) = Append(P[7 + c], x.query) /\ Names(pair'[c]) = <<>>
    BY <2>1, <2>4, <2>5, NamesShort, NamesWrite, NamedParts
  <2>7. UNCHANGED <<asked, input, holding, vds, merge, out, answers>>
    BY <1>5 DEF WritePair, inVars
  <2> DEFINE R == Onward(P, 5 + c, 7 + c)
  <2>8. /\ R[5 + c] = <<>> /\ R[7 + c] = Append(P[7 + c], x.query)
        /\ \A y \in Places \ {5 + c, 7 + c} : R[y] = P[y]
    <3>1. /\ R[5 + c] = Tail(P[5 + c]) /\ R[7 + c] = Append(P[7 + c], Head(P[5 + c]))
          /\ \A y \in Places \ {5 + c, 7 + c} : R[y] = P[y]
      BY <1>2, <1>3, OnwardAll, Zenon
    <3> HIDE DEF R
    <3> QED
      BY <2>4, <3>1
  <2> HIDE DEF R
  <2>9. \A d \in Channel : R[5 + d] = Names(pair'[d]) /\ R[7 + d] = Names(inner'[d])
    <3> SUFFICES ASSUME NEW d \in Channel
                 PROVE  R[5 + d] = Names(pair'[d]) /\ R[7 + d] = Names(inner'[d])
      OBVIOUS
    <3>1. CASE d = c
      BY <2>6, <2>8, <3>1
    <3>2. CASE d # c
      <4>1. 5 + d \in Places \ {5 + c, 7 + c} /\ 7 + d \in Places \ {5 + c, 7 + c}
        BY <3>2 DEF Places, Channel
      <4> QED
        BY <1>2, <2>5, <2>8, <3>2, <4>1 DEF IsWay
    <3> QED
      BY <3>1, <3>2
  <2>10. IsWay(R)'
    <3>1. \A d \in Channel : 3 + d \in Places \ {5 + c, 7 + c}
      BY DEF Places, Channel
    <3>2. {1, 2, 9, 10} \subseteq Places \ {5 + c, 7 + c}
      BY DEF Places, Channel
    <3> QED
      BY <1>2, <2>7, <2>8, <2>9, <3>1, <3>2 DEF IsWay
  <2> QED
    BY <1>1, <1>3, <2>4, <2>7, <2>10, PassesOn DEF R
<1>6. CASE merge_package(c)
  <2>1. /\ inner[c] # <<>> /\ inner[c] \in Seq(Right) /\ merge = <<>>
        /\ merge' = <<Head(inner[c])>> /\ inner'[c] = Tail(inner[c])
        /\ \A d \in Channel \ {c} : inner'[d] = inner[d]
    BY <1>6 DEF merge_package, Empty, IInv, PairedInside
  <2>2. /\ P[7 + c] = Names(inner[c]) /\ P[7 + c] # <<>> /\ P[9] = <<>>
        /\ Head(P[7 + c]) = Head(inner[c]).query /\ Tail(P[7 + c]) = Names(inner'[c])
    BY <1>2, <2>1, NamesRead, NamedParts, NamesShort DEF IsWay
  <2>3. Names(merge') = Append(P[9], Head(P[7 + c]))
    BY <2>1, <2>2, NamesShort
  <2>4. UNCHANGED <<asked, input, holding, vds, pair, out, answers>>
    BY <1>6 DEF merge_package, inVars
  <2> DEFINE R == Onward(P, 7 + c, 9)
  <2>5. /\ R[7 + c] = Names(inner'[c]) /\ R[9] = Names(merge')
        /\ \A y \in Places \ {7 + c, 9} : R[y] = P[y]
    <3>1. /\ R[7 + c] = Tail(P[7 + c]) /\ R[9] = Append(P[9], Head(P[7 + c]))
          /\ \A y \in Places \ {7 + c, 9} : R[y] = P[y]
      BY <1>2, <1>3, OnwardAll, Zenon
    <3> HIDE DEF R
    <3> QED
      BY <2>2, <2>3, <3>1
  <2> HIDE DEF R
  <2>6. \A d \in Channel : R[7 + d] = Names(inner'[d])
    <3> SUFFICES ASSUME NEW d \in Channel, d # c PROVE R[7 + d] = Names(inner'[d])
      BY <2>5
    <3>1. 7 + d \in Places \ {7 + c, 9}
      BY DEF Places, Channel
    <3> QED
      BY <1>2, <2>1, <2>5, <3>1 DEF IsWay
  <2>7. IsWay(R)'
    <3>1. \A d \in Channel : {3 + d, 5 + d} \subseteq Places \ {7 + c, 9}
      BY DEF Places, Channel
    <3>2. {1, 2, 10} \subseteq Places \ {7 + c, 9}
      BY DEF Places, Channel
    <3> QED
      BY <1>2, <2>4, <2>5, <2>6, <3>1, <3>2 DEF IsWay
  <2> QED
    BY <1>1, <1>3, <2>2, <2>4, <2>7, PassesOn DEF R
<1> QED
  BY <1>4, <1>5, <1>6

-----------------------------------------------------------------------------
\* The router's query comes to the end of input.
LEMMA ArrivePasses ==
  ASSUME IInv, WayInv, Apart', NEW q \in Query, Arrive(q)
  PROVE  WayInv' /\ Pool!Put(q)
<1>1. PICK P \in Way : OnWay(P)
  BY DEF WayInv
<1>2. /\ P \in Way /\ IsWay(P) /\ Once(P) /\ In(P) \cup Answered \subseteq asked
      /\ Inside = In(P)
  BY <1>1, WayIsInside DEF OnWay
<1>3. /\ q \notin asked /\ asked' = asked \cup {q} /\ input' = Append(P[1], q)
      /\ UNCHANGED <<holding, vds, pair, inner, merge, out, answers>>
  BY <1>2 DEF Arrive, IsWay, outVars
<1> DEFINE R == [P EXCEPT ![1] = Append(P[1], q)]
<1>4. P[1] \in Seq(Query)
  BY <1>2 DEF Way, Places
<1>5. /\ Append(P[1], q) \in Seq(Query) /\ Els(Append(P[1], q)) = Els(P[1]) \cup {q}
      /\ \A i \in DOMAIN P[1] : Append(P[1], q)[i] = P[1][i]
  BY <1>4, AppendEls
<1>6. PICK n : /\ n \notin DOMAIN P[1] /\ DOMAIN Append(P[1], q) = DOMAIN P[1] \cup {n}
               /\ Append(P[1], q)[n] = q
  BY <1>4, AppendEls
<1>7. /\ R \in Way /\ R[1] = Append(P[1], q) /\ \A x \in Places \ {1} : R[x] = P[x]
  <2>1. 1 \in Places
    BY DEF Places
  <2> QED
    BY <1>2, <1>5, <2>1 DEF Way
<1> HIDE DEF R
<1>8. In(R) = In(P) \cup {q}
  <2>0. 1 \in Places
    BY DEF Places
  <2>1. \A x \in Places : /\ Els(R[x]) \subseteq Els(P[x]) \cup {q}
                           /\ Els(P[x]) \subseteq Els(R[x])
    BY <1>5, <1>7
  <2>2. q \in In(R)
    BY <1>5, <1>7, <2>0 DEF In
  <2>3. In(R) \subseteq In(P) \cup {q} /\ In(P) \subseteq In(R)
    BY <2>1 DEF In
  <2> QED
    BY <2>2, <2>3
<1>9. Once(R)
  <2>1. SUFFICES ASSUME NEW x \in Places, NEW y \in Places, NEW i \in DOMAIN R[x],
                        NEW j \in DOMAIN R[y], R[x][i] = R[y][j]
                 PROVE  x = y /\ i = j
    BY DEF Once
  <2>2. \A z \in Places : \A k \in DOMAIN R[z] :
          \/ z = 1 /\ k = n /\ R[z][k] = q
          \/ k \in DOMAIN P[z] /\ R[z][k] = P[z][k] /\ P[z][k] # q
    <3>1. \A z \in Places : \A k \in DOMAIN P[z] : P[z][k] # q
      BY <1>2, <1>3 DEF In, Els
    <3> QED
      BY <1>5, <1>6, <1>7, <3>1
  <2> QED
    BY <1>2, <2>1, <2>2 DEF Once
<1>10. IsWay(R)'
  <2>1. \A c \in Channel : {3 + c, 5 + c, 7 + c} \subseteq Places \ {1}
    BY DEF Places, Channel
  <2>2. {2, 9, 10} \subseteq Places \ {1}
    BY DEF Places
  <2> QED
    BY <1>2, <1>3, <1>7, <2>1, <2>2 DEF IsWay
<1>11. OnWay(R)'
  BY <1>2, <1>3, <1>7, <1>8, <1>9, <1>10 DEF OnWay, Answered
<1>12. Inside' = Inside \cup {q} /\ q \notin Inside \cup Answered
  BY <1>2, <1>3, <1>8, <1>10, WayIsInsideNext
<1> QED
  BY <1>3, <1>7, <1>11, <1>12 DEF WayInv, Pool!Put, Answered

\* The pair at the head of frp_out leaves, and its query is then nowhere in the lane.
LEMMA LeavePasses ==
  ASSUME IInv, WayInv, Apart', Leave
  PROVE  WayInv' /\ \E q \in Query : Pool!Take(q)
<1>1. PICK P \in Way : OnWay(P)
  BY DEF WayInv
<1>2. /\ P \in Way /\ IsWay(P) /\ Once(P) /\ In(P) \cup Answered \subseteq asked
      /\ Inside = In(P)
  BY <1>1, WayIsInside DEF OnWay
<1>3. /\ out # <<>> /\ out \in Seq(Right) /\ out' = Tail(out)
      /\ answers' = answers \cup {Head(out)}
      /\ UNCHANGED <<asked, input, holding, vds, pair, inner, merge>>
  BY NamedParts DEF Leave, Empty, inVars
<1>4. /\ P[10] = Names(out) /\ P[10] # <<>> /\ P[10] \in Seq(Query)
      /\ Head(P[10]) = Head(out).query /\ Tail(P[10]) = Names(out')
  BY <1>2, <1>3, NamesRead, NamedParts DEF IsWay
<1> DEFINE R == [P EXCEPT ![10] = Tail(P[10])]
           q == Head(P[10])
<1>5. /\ q \in Query /\ Tail(P[10]) \in Seq(Query) /\ 1 \in DOMAIN P[10] /\ q = P[10][1]
      /\ \A i \in DOMAIN Tail(P[10]) : /\ i + 1 \in DOMAIN P[10] /\ i + 1 # 1
                                       /\ Tail(P[10])[i] = P[10][i + 1]
      /\ \A i, j \in DOMAIN Tail(P[10]) : i + 1 = j + 1 => i = j
      /\ Els(P[10]) = Els(Tail(P[10])) \cup {q}
  BY <1>4, TailEls
<1>6. /\ R \in Way /\ R[10] = Tail(P[10]) /\ \A x \in Places \ {10} : R[x] = P[x]
  BY <1>2, <1>5 DEF Way, Places
<1> HIDE DEF R
<1>7. /\ \A x \in Places : \A i \in DOMAIN R[x] : R[x][i] # q
      /\ Once(R)
  <2> DEFINE Old(x, i) == IF x = 10 THEN i + 1 ELSE i
  <2>1. \A x \in Places : \A i \in DOMAIN R[x] :
          /\ Old(x, i) \in DOMAIN P[x] /\ R[x][i] = P[x][Old(x, i)]
          /\ x = 10 => Old(x, i) # 1
    BY <1>5, <1>6
  <2>2. \A x \in Places : \A i, j \in DOMAIN R[x] : Old(x, i) = Old(x, j) => i = j
    BY <1>5, <1>6
  <2> HIDE DEF Old
  <2>3. 10 \in Places /\ 1 \in DOMAIN P[10] /\ q = P[10][1]
    BY <1>5 DEF Places
  <2>4. \A x \in Places : \A i \in DOMAIN R[x] : R[x][i] # q
    BY <1>2, <2>1, <2>3 DEF Once
  <2>5. Once(R)
    BY <1>2, <2>1, <2>2 DEF Once
  <2> QED
    BY <2>4, <2>5
<1>8. In(R) = In(P) \ {q} /\ q \in In(P)
  <2>1. /\ \A x \in Places : Els(R[x]) \subseteq In(P) \ {q}
        /\ \A x \in Places : Els(P[x]) \subseteq In(R) \cup {q}
        /\ q \in In(P)
    <3>1. q \in In(P)
      BY <1>5 DEF In, Els, Places
    <3>2. ASSUME NEW x \in Places PROVE Els(P[x]) \subseteq In(R) \cup {q}
      <4>1. Els(P[x]) \subseteq Els(R[x]) \cup {q}
        BY <1>5, <1>6
      <4> QED
        BY <4>1 DEF In
    <3>3. ASSUME NEW x \in Places PROVE Els(R[x]) \subseteq In(P) \ {q}
      <4>1. Els(R[x]) \subseteq Els(P[x])
        BY <1>5, <1>6
      <4>2. q \notin Els(R[x])
        BY <1>7 DEF Els
      <4> QED
        BY <4>1, <4>2 DEF In
    <3> QED
      BY <3>1, <3>2, <3>3
  <2> QED
    BY <2>1 DEF In
<1>9. IsWay(R)'
  <2>1. \A c \in Channel : {3 + c, 5 + c, 7 + c} \subseteq Places \ {10}
    BY DEF Places, Channel
  <2>2. {1, 2, 9} \subseteq Places \ {10}
    BY DEF Places
  <2> QED
    BY <1>2, <1>3, <1>4, <1>6, <2>1, <2>2 DEF IsWay
<1>10. Answered' = Answered \cup {q}
  BY <1>3, <1>4 DEF Answered
<1>11. OnWay(R)'
  BY <1>2, <1>3, <1>6, <1>7, <1>8, <1>9, <1>10 DEF OnWay
<1>12. Inside' = Inside \ {q} /\ q \in Inside
  BY <1>2, <1>8, <1>9, WayIsInsideNext
<1> QED
  BY <1>5, <1>6, <1>10, <1>11, <1>12 DEF WayInv, Pool!Take, Answered

\* rpa_out_merge passes a pair to frp_out.
LEMMA MergedPasses ==
  ASSUME IInv, WayInv, Apart', WriteMerged
  PROVE  WayInv' /\ UNCHANGED <<Inside, answers>>
<1>1. PICK P \in Way : OnWay(P)
  BY DEF WayInv
<1>2. P \in Way /\ IsWay(P)
  BY <1>1 DEF OnWay
<1>3. /\ merge # <<>> /\ merge \in Register(Right) /\ out \in Seq(Right)
  BY DEF WriteMerged, Empty, IInv, PairedInside
<1>4. PICK x \in Right : x = Head(merge) /\ merge = <<x>>
  BY <1>3, RegisterSeq
<1>5. /\ P[9] = <<x.query>> /\ P[9] # <<>> /\ Tail(P[9]) = <<>> /\ Head(P[9]) = x.query
      /\ P[10] = Names(out)
  <2>1. P[9] = Names(merge) /\ P[10] = Names(out)
    BY <1>2 DEF IsWay
  <2>2. Names(merge) = <<x.query>>
    BY <1>4, NamesShort
  <2> QED
    BY <2>1, <2>2
<1>6. /\ out' = Append(out, x) /\ merge' = <<>>
      /\ UNCHANGED <<asked, input, holding, vds, pair, inner, answers>>
  BY <1>4 DEF WriteMerged, inVars
<1>7. Names(out') = Append(P[10], x.query) /\ Names(merge') = <<>>
  BY <1>3, <1>5, <1>6, NamesShort, NamesWrite, NamedParts
<1> DEFINE R == Onward(P, 9, 10)
<1>8. /\ R[9] = Tail(P[9]) /\ R[10] = Append(P[10], Head(P[9]))
      /\ \A y \in Places \ {9, 10} : R[y] = P[y]
  BY <1>2, OnwardAll DEF Places
<1> HIDE DEF R
<1>9. IsWay(R)'
  <2>1. \A c \in Channel : {3 + c, 5 + c, 7 + c} \subseteq Places \ {9, 10}
    BY DEF Places, Channel
  <2>2. {1, 2} \subseteq Places \ {9, 10}
    BY DEF Places
  <2> QED
    BY <1>2, <1>5, <1>6, <1>7, <1>8, <2>1, <2>2 DEF IsWay
<1> QED
  <2>1. 9 \in Places /\ 10 \in Places /\ 9 # 10
    BY DEF Places
  <2> QED
    BY <1>1, <1>5, <1>6, <1>9, <2>1, PassesOn DEF R

\* The other steps leave every query where it is.
LEMMA OthersPass ==
  ASSUME IInv, WayInv, Apart',
         \/ WriteCmd \/ HostStart \/ EndCtrl \/ HostJoin \/ Done \/ UNCHANGED vars
         \/ \E c \in Channel : \/ EngineRead(c) \/ EngineWrite(c) \/ EngineSample(c)
                               \/ EngineEnd(c) \/ rpa_out_frp(c)
  PROVE  WayInv' /\ UNCHANGED <<Inside, answers>>
<1>1. CASE WriteCmd
  <2>1. /\ UNCHANGED <<asked, input, vds, pair, inner, merge, out, answers>>
        /\ holding # <<>> /\ holding' = <<[query |-> Head(holding).query, sent |-> TRUE]>>
    BY <1>1 DEF WriteCmd, outVars, Empty
  <2>2. holding = <<Head(holding)>>
    BY <2>1, RegisterSeq DEF IInv, Types
  <2>3. Names(holding) = <<Head(holding).query>>
    BY <2>2, NamesShort
  <2>4. Names(holding)' = <<Head(holding).query>>
    BY <2>1, NamesShort
  <2> QED
    BY <2>1, <2>3, <2>4, PassesNone
<1>2. CASE HostStart \/ EndCtrl \/ HostJoin \/ Done \/ UNCHANGED vars
  <2>1. UNCHANGED <<asked, input, holding, vds, pair, inner, merge, out, answers>>
    BY <1>2 DEF HostStart, EndCtrl, HostJoin, Done, vars, inVars, outVars
  <2> QED
    BY <2>1, PassesNone DEF Names
<1>3. ASSUME NEW c \in Channel, \/ EngineRead(c) \/ EngineWrite(c) \/ EngineSample(c)
                                \/ EngineEnd(c) \/ rpa_out_frp(c)
      PROVE  WayInv' /\ UNCHANGED <<Inside, answers>>
  <2>1. UNCHANGED <<asked, input, holding, vds, pair, inner, merge, out, answers>>
    BY <1>3 DEF EngineRead, EngineWrite, EngineSample, EngineEnd, rpa_out_frp, inVars, outVars
  <2> QED
    BY <2>1, PassesNone DEF Names
<1> QED
  BY <1>1, <1>2, <1>3

LEMMA WayInit == Init => WayInv /\ Pool!Init
<1> SUFFICES ASSUME Init PROVE WayInv /\ Pool!Init
  OBVIOUS
<1> DEFINE P == [p \in Places |-> <<>>]
<1>1. /\ P \in Way /\ \A p \in Places : P[p] = <<>> /\ DOMAIN P[p] = {}
  <2>1. <<>> \in Seq(Query) /\ DOMAIN <<>> = {}
    OBVIOUS
  <2> QED
    BY <2>1 DEF Way
<1> HIDE DEF P
<1>2. Once(P) /\ In(P) = {}
  BY <1>1 DEF Once, In, Els
<1>3. IsWay(P)
  BY <1>1, NamesShort DEF IsWay, Init, PerChannel, Places, Channel
<1>4. Answered = {} /\ Inside = {}
  BY <1>2, <1>3, WayIsInside DEF Answered, Init
<1>5. OnWay(P) /\ Apart
  BY <1>1, <1>2, <1>3, <1>4 DEF OnWay, Apart, Init, PerChannel
<1> QED
  BY <1>1, <1>4, <1>5 DEF WayInv, Pool!Init, Answered

\* LaneIsPool: for every set of queries, every placement, every depth and any number of
\* restarts of the engines, a query that rpa_in takes leaves rpa_out at most once, is in
\* one place until then, and none leaves that did not arrive: rpa_in, the engines and
\* rpa_out take the steps of a pool of queries.
THEOREM LaneIsPool == Spec => Pool!Init /\ [][Pool!Next]_(Pool!vars)
<1>1. Init => WayInv /\ Pool!Init
  BY WayInit
<1>2. IInv /\ WayInv /\ [Next]_vars => WayInv' /\ [Pool!Next]_(Pool!vars)
  <2> SUFFICES ASSUME IInv, WayInv, [Next]_vars PROVE WayInv' /\ [Pool!Next]_(Pool!vars)
    OBVIOUS
  <2>1. Apart'
    BY ApartNext DEF WayInv
  <2>2. ASSUME UNCHANGED <<Inside, answers>> PROVE [Pool!Next]_(Pool!vars)
    BY <2>2 DEF Pool!vars
  <2>3. CASE \E q \in Query : Arrive(q)
    BY <2>1, <2>3, ArrivePasses DEF Pool!Next
  <2>4. CASE Leave
    BY <2>1, <2>4, LeavePasses DEF Pool!Next
  <2>5. CASE rpa_in \/ WriteVds \/ WriteMerged
    BY <2>1, <2>2, <2>5, InPasses, MergedPasses
  <2>6. CASE \E c \in Channel : ReadQs(c) \/ WritePair(c) \/ merge_package(c)
    BY <2>1, <2>2, <2>6, OutPasses
  <2>7. CASE \/ WriteCmd \/ HostStart \/ EndCtrl \/ HostJoin \/ Done \/ UNCHANGED vars
             \/ \E c \in Channel : \/ EngineRead(c) \/ EngineWrite(c) \/ EngineSample(c)
                                   \/ EngineEnd(c) \/ rpa_out_frp(c)
    BY <2>1, <2>2, <2>7, OthersPass
  <2> QED
    BY <2>3, <2>4, <2>5, <2>6, <2>7 DEF Next, Work
<1> QED
  BY <1>1, <1>2, Invariant, PTL DEF Spec

=============================================================================
