-------------------------- MODULE RemoteRouter_proof --------------------------
(***************************************************************************)
(* Routing between boards, for every set of boards, parts and walkers, all *)
(* tables, any number of lanes and any network that fits the ids: a walker *)
(* ends up on the wrong board, or nowhere, only if a mapper looked it up   *)
(* while the entry of its part was still on its way to that mapper.        *)
(*                                                                         *)
(* The host waits for its loaders and not for the entries, so that any     *)
(* mapper may be behind when a walker comes.  What the proof rests on is   *)
(* that an entry is never lost on the chain: a mapper of a loaded board    *)
(* has the entry or still has it in front of it (NoneMissing).             *)
(***************************************************************************)
EXTENDS RemoteRouter, FiniteSetTheorems, TLAPS

\* The socket table sends what is meant for a board to that board.
NetworkFits ==
  \A b \in Boards, p \in Part :
    LET id == Table[b][p] IN
      id # 0 => NetDest(id) \in DOMAIN Socket[b] /\ Socket[b][NetDest(id)] = Peer[b][id]

\* A walker that is out is on the board meant for it, and none is lost, unless it was
\* looked up too early.
NoneAstray ==
  \A w \in Walker \ early :
    /\ place[w] # <<"lost">>
    /\ place[w][1] = "out" => place[w] = <<"out", Meant(w)>>

-----------------------------------------------------------------------------
(* The invariant *)

Shapes ==
  /\ loaded \in [Boards -> Nat]
  /\ chain \in [Boards -> [Lane -> Seq(Part \X BoardId)]]
  /\ map_array \in [Boards -> [Lane -> [Part -> BoardId \cup {Unset}]]]
  /\ vertex \in [Walker -> Part]
  /\ place = [w \in Walker |-> place[w]]
  /\ home \in [Walker -> Boards \cup {NoBoard}]

\* Entries on the chain and in the mappers are those of the table.
FromTable ==
  /\ \A b \in Boards, i \in Lane : \A k \in 1 .. Len(chain[b][i]) :
       chain[b][i][k][2] = Table[b][chain[b][i][k][1]]
  /\ \A b \in Boards, i \in Lane, p \in Part : map_array[b][i][p] \in {Unset, Table[b][p]}

\* A mapper has an entry the loader has written, or still has it in front of it.
NoneMissing ==
  \A b \in Boards, i \in Lane, p \in Part :
    PartNo(p) < loaded[b] /\ map_array[b][i][p] = Unset => OnItsWay(b, i, p)

AllLoaded == \A b \in Boards : Loaded(b)

TableId(w) == Table[home[w]][vertex[w]]

\* Where a walker is that was not looked up too early.
OnCourse(w) ==
  \/ place[w] = <<"host">> /\ home[w] = NoBoard
  \/ /\ home[w] \in Boards /\ AllLoaded
     /\ \/ \E i \in Lane : place[w] = <<"in", home[w], i>>
        \/ TableId(w) = 0 /\ \E i \in Lane : place[w] = <<"local", home[w], i>>
        \/ TableId(w) # 0 /\ place[w] = <<"rout", home[w], TableId(w)>>
        \/ place[w] = <<"net">>
        \/ \E i : place[w] = <<"remote", Meant(w), i>>
        \/ place[w] = <<"out", Meant(w)>>

\* What a package in flight carries, it carries to the board meant for it.
RightlySent(m) ==
  \A k \in DOMAIN m.tasks :
    /\ m.tasks[k] \in Walker
    /\ m.tasks[k] \notin early =>
         home[m.tasks[k]] \in Boards /\ AllLoaded /\ m.dest = Meant(m.tasks[k])

Walking ==
  /\ \A w \in Walker \ early : OnCourse(w)
  /\ \A m \in flight : RightlySent(m)

RouterInv == Shapes /\ FromTable /\ NoneMissing /\ Walking

-----------------------------------------------------------------------------
(* The order of the entries *)

\* The parts are finitely many numbers.
LEMMA PartsAre ==
  ASSUME RouterAssumption
  PROVE  IsFiniteSet(Part) /\ \A p \in Part : p \in Int
<1>1. Part \subseteq 0 .. 7
  BY Zenon DEF RouterAssumption
<1>2. 0 \in Int /\ 7 \in Int
  OBVIOUS
<1>3. IsFiniteSet(0 .. 7)
  BY <1>2, FS_Interval
<1>4. IsFiniteSet(Part)
  BY <1>1, <1>3, FS_Subset
<1>5. \A p \in Part : p \in Int
  BY <1>1
<1> QED
  BY <1>4, <1>5

\* The parts below a part are finitely many, and fewer than all parts.
LEMMA PartNoType ==
  ASSUME RouterAssumption, NEW p \in Part
  PROVE  PartNo(p) \in Nat /\ Cardinality(Part) \in Nat /\ PartNo(p) < Cardinality(Part)
<1> DEFINE Below == {q \in Part : q < p}
<1>1. IsFiniteSet(Part) /\ p \in Int
  BY PartsAre
<1>2. Below \subseteq Part /\ Below # Part
  BY <1>1
<1>3. IsFiniteSet(Below) /\ Cardinality(Below) <= Cardinality(Part)
      /\ (Cardinality(Below) = Cardinality(Part) => Below = Part)
  BY <1>1, <1>2, FS_Subset
<1>4. Cardinality(Part) \in Nat /\ Cardinality(Below) \in Nat
  BY <1>1, <1>3, FS_CardinalityType
<1> QED
  BY <1>2, <1>3, <1>4 DEF PartNo

\* A smaller part has a smaller number.
LEMMA PartNoRises ==
  ASSUME RouterAssumption, NEW p \in Part, NEW q \in Part, p < q
  PROVE  PartNo(p) < PartNo(q)
<1> DEFINE Below(r) == {s \in Part : s < r}
<1>1. IsFiniteSet(Part)
  BY PartsAre
<1>2. IsFiniteSet(Below(q))
  BY <1>1, FS_Subset
<1>3. Below(p) \subseteq Below(q) /\ Below(p) # Below(q)
  <2>1. \A s \in Part : s \in Int
    BY PartsAre
  <2>2. p \in Below(q) /\ p \notin Below(p)
    BY <2>1
  <2>3. \A s \in Part : s < p => s < q
    BY <2>1
  <2> QED
    BY <2>2, <2>3
<1>4. Cardinality(Below(p)) <= Cardinality(Below(q))
      /\ (Cardinality(Below(p)) = Cardinality(Below(q)) => Below(p) = Below(q))
  BY <1>2, <1>3, FS_Subset
<1>5. PartNo(p) \in Nat /\ PartNo(q) \in Nat
  BY PartNoType
<1> QED
  BY <1>3, <1>4, <1>5 DEF PartNo

\* Each entry has a number of its own.
LEMMA PartNoOwn ==
  ASSUME RouterAssumption, NEW p \in Part, NEW q \in Part, PartNo(p) = PartNo(q)
  PROVE  p = q
<1>1. p \in Int /\ q \in Int /\ PartNo(p) \in Nat /\ PartNo(q) \in Nat
  BY PartNoType, PartsAre
<1>2. ~ (p < q) /\ ~ (q < p)
  BY <1>1, PartNoRises
<1> QED
  BY <1>1, <1>2

-----------------------------------------------------------------------------
(* The chain *)

\* The loader writes the next entry to the front of the chain, where every mapper still
\* has it before it.
LEMMA LoaderKeeps ==
  ASSUME RouterAssumption, RouterInv, NEW b \in Boards, rng_config_loader(b)
  PROVE  RouterInv'
<1>1. PICK p \in Part :
        /\ PartNo(p) = loaded[b]
        /\ chain' = [chain EXCEPT ![b][0] = Append(@, <<p, Table[b][p]>>)]
  BY DEF rng_config_loader
<1>2. /\ loaded' = [loaded EXCEPT ![b] = @ + 1]
      /\ UNCHANGED <<map_array, vertex, place, flight, schedule, home, early>>
  BY DEF rng_config_loader
<1>3. /\ Table[b][p] \in BoardId /\ 0 \in Lane
      /\ \A q \in Part : PartNo(q) \in Nat
  BY PartNoType DEF RouterAssumption, Lane
<1> DEFINE old(c, i) == chain[c][i]
           new(c, i) == chain'[c][i]
<1>4. \A c \in Boards, i \in Lane : old(c, i) \in Seq(Part \X BoardId)
  BY DEF RouterInv, Shapes
<1>5. /\ new(b, 0) = Append(old(b, 0), <<p, Table[b][p]>>)
      /\ \A c \in Boards, i \in Lane : c # b \/ i # 0 => new(c, i) = old(c, i)
  BY <1>1, <1>3 DEF RouterInv, Shapes
<1>6. /\ Len(new(b, 0)) = Len(old(b, 0)) + 1
      /\ new(b, 0)[Len(old(b, 0)) + 1] = <<p, Table[b][p]>>
      /\ \A k \in 1 .. Len(old(b, 0)) : new(b, 0)[k] = old(b, 0)[k]
  BY <1>3, <1>4, <1>5
<1>7. Shapes'
  <2>1. <<p, Table[b][p]>> \in Part \X BoardId
    BY <1>3
  <2>2. Append(old(b, 0), <<p, Table[b][p]>>) \in Seq(Part \X BoardId)
    BY <1>3, <1>4, <2>1
  <2>3. chain' \in [Boards -> [Lane -> Seq(Part \X BoardId)]]
    BY <1>1, <1>3, <2>2 DEF RouterInv, Shapes
  <2>4. loaded' \in [Boards -> Nat]
    BY <1>2 DEF RouterInv, Shapes
  <2> QED
    BY <1>2, <2>3, <2>4 DEF RouterInv, Shapes
<1>8. FromTable'
  <2>1. ASSUME NEW c \in Boards, NEW i \in Lane, NEW k \in 1 .. Len(new(c, i))
        PROVE  new(c, i)[k][2] = Table[c][new(c, i)[k][1]]
    <3>1. CASE c = b /\ i = 0
      <4>1. CASE k = Len(old(b, 0)) + 1
        <5>1. new(c, i)[k] = <<p, Table[b][p]>>
          BY <1>6, <3>1, <4>1
        <5> QED
          BY <3>1, <5>1
      <4>2. CASE k # Len(old(b, 0)) + 1
        <5>1. k \in 1 .. Len(old(b, 0))
          BY <1>3, <1>4, <1>6, <2>1, <3>1, <4>2
        <5>2. new(c, i)[k] = old(b, 0)[k]
          BY <1>6, <3>1, <5>1
        <5>3. old(b, 0)[k][2] = Table[b][old(b, 0)[k][1]]
          BY <1>3, <5>1 DEF RouterInv, FromTable
        <5> QED
          BY <3>1, <5>2, <5>3
      <4> QED
        BY <4>1, <4>2
    <3>2. CASE ~ (c = b /\ i = 0)
      BY <1>5, <2>1, <3>2 DEF RouterInv, FromTable
    <3> QED
      BY <3>1, <3>2
  <2>2. \A c \in Boards, i \in Lane, q \in Part : map_array'[c][i][q] \in {Unset, Table[c][q]}
    BY <1>2 DEF RouterInv, FromTable
  <2> QED
    BY <2>1, <2>2 DEF FromTable
<1>9. NoneMissing'
  <2>1. SUFFICES ASSUME NEW c \in Boards, NEW i \in Lane, NEW q \in Part,
                        PartNo(q) < loaded'[c], map_array[c][i][q] = Unset
                 PROVE  \E j \in Lane : j <= i /\ \E k \in DOMAIN new(c, j) : new(c, j)[k][1] = q
    BY <1>2 DEF NoneMissing, OnItsWay
  <2>2. CASE PartNo(q) < loaded[c]
    <3>1. PICK j \in Lane : j <= i /\ \E k \in DOMAIN old(c, j) : old(c, j)[k][1] = q
      BY <2>1, <2>2 DEF RouterInv, NoneMissing, OnItsWay
    <3>2. PICK k \in DOMAIN old(c, j) : old(c, j)[k][1] = q
      BY <3>1
    <3>3. k \in DOMAIN new(c, j) /\ new(c, j)[k] = old(c, j)[k]
      <4>1. CASE c = b /\ j = 0
        <5>1. k \in 1 .. Len(old(b, 0)) /\ Len(old(b, 0)) \in Nat
          BY <1>3, <1>4, <3>2, <4>1
        <5>2. new(b, 0) \in Seq(Part \X BoardId)
          BY <1>3, <1>7 DEF Shapes
        <5> QED
          BY <1>6, <4>1, <5>1, <5>2
      <4>2. CASE ~ (c = b /\ j = 0)
        BY <1>5, <3>2, <4>2
      <4> QED
        BY <4>1, <4>2
    <3> QED
      BY <3>1, <3>2, <3>3
  <2>3. CASE ~ (PartNo(q) < loaded[c])
    <3>1. c = b /\ PartNo(q) = loaded[b]
      BY <1>2, <1>3, <2>1, <2>3 DEF RouterInv, Shapes
    <3>2. q = p
      BY <1>1, <3>1, PartNoOwn
    <3>3. /\ Len(old(b, 0)) + 1 \in DOMAIN new(b, 0)
          /\ new(b, 0)[Len(old(b, 0)) + 1][1] = p
      <4>1. new(b, 0) \in Seq(Part \X BoardId) /\ Len(old(b, 0)) \in Nat
        BY <1>3, <1>4, <1>7 DEF Shapes
      <4> QED
        BY <1>6, <4>1
    <3>4. 0 <= i
      BY DEF Lane, RouterAssumption
    <3> QED
      BY <1>3, <3>1, <3>2, <3>3, <3>4
  <2> QED
    BY <2>2, <2>3
<1>10. Walking'
  <2>1. ~ AllLoaded
    <3>1. PartNo(p) < Cardinality(Part) /\ Cardinality(Part) \in Nat
      BY PartNoType
    <3> QED
      BY <1>1, <1>3, <3>1 DEF AllLoaded, Loaded
  <2>2. \A w \in Walker \ early : place[w] = <<"host">> /\ home[w] = NoBoard
    BY <2>1 DEF RouterInv, Walking, OnCourse
  <2>3. \A m \in flight : \A k \in DOMAIN m.tasks : m.tasks[k] \in Walker /\ m.tasks[k] \in early
    BY <2>1 DEF RouterInv, Walking, RightlySent
  <2> QED
    BY <1>2, <2>2, <2>3 DEF Walking, OnCourse, RightlySent
<1> QED
  BY <1>7, <1>8, <1>9, <1>10 DEF RouterInv

\* What moves an entry on: the next mapper still has it before it, and so have those
\* behind; the mapper that takes it has it from now on.
LEMMA EntryKeeps ==
  ASSUME RouterAssumption, RouterInv, NEW b \in Boards, NEW i \in Lane, LoadEntry(b, i)
  PROVE  RouterInv'
<1> DEFINE old(c, j) == chain[c][j]
           new(c, j) == chain'[c][j]
           e == Head(old(b, i))
<1>1. /\ old(b, i) # <<>>
      /\ map_array' = [map_array EXCEPT ![b][i][e[1]] = e[2]]
      /\ chain' = [chain EXCEPT ![b] = PassOn(b, i)]
      /\ UNCHANGED <<loaded, vertex, place, flight, schedule, home, early>>
  BY DEF LoadEntry
<1>2. \A c \in Boards, j \in Lane : old(c, j) \in Seq(Part \X BoardId)
  BY DEF RouterInv, Shapes
<1>3. /\ e = old(b, i)[1] /\ e \in Part \X BoardId
      /\ Len(old(b, i)) \in Nat \ {0}
      /\ Tail(old(b, i)) \in Seq(Part \X BoardId)
      /\ Len(Tail(old(b, i))) = Len(old(b, i)) - 1
      /\ \A k \in 1 .. Len(Tail(old(b, i))) : Tail(old(b, i))[k] = old(b, i)[k + 1]
  BY <1>1, <1>2
<1>4. e[1] \in Part /\ e[2] \in BoardId /\ e[2] = Table[b][e[1]]
  <2>1. old(b, i)[1][2] = Table[b][old(b, i)[1][1]]
    BY <1>3 DEF RouterInv, FromTable
  <2> QED
    BY <1>3, <2>1
<1>5. Lane \subseteq Int /\ \A j \in Lane : j + 1 # j
  BY DEF Lane, RouterAssumption
<1>6. /\ PassOn(b, i) \in [Lane -> Seq(Part \X BoardId)]
      /\ PassOn(b, i)[i] = Tail(old(b, i))
      /\ i + 1 \in Lane => PassOn(b, i)[i + 1] = Append(old(b, i + 1), e)
      /\ \A j \in Lane : j # i /\ j # i + 1 => PassOn(b, i)[j] = old(b, j)
  <2>1. chain[b] \in [Lane -> Seq(Part \X BoardId)]
    BY DEF RouterInv, Shapes
  <2>2. \A j \in Lane : Append(old(b, j), e) \in Seq(Part \X BoardId)
    BY <1>2, <1>3
  <2> QED
    BY <1>3, <1>5, <2>1, <2>2 DEF PassOn
<1>7. /\ new(b, i) = Tail(old(b, i))
      /\ i + 1 \in Lane => new(b, i + 1) = Append(old(b, i + 1), e)
      /\ \A c \in Boards, j \in Lane : c # b \/ (j # i /\ j # i + 1) => new(c, j) = old(c, j)
      /\ chain' \in [Boards -> [Lane -> Seq(Part \X BoardId)]]
  BY <1>1, <1>6 DEF RouterInv, Shapes
<1>8. ASSUME i + 1 \in Lane
      PROVE  /\ Len(old(b, i + 1)) \in Nat
             /\ Len(new(b, i + 1)) = Len(old(b, i + 1)) + 1
             /\ new(b, i + 1)[Len(old(b, i + 1)) + 1] = e
             /\ \A k \in 1 .. Len(old(b, i + 1)) : new(b, i + 1)[k] = old(b, i + 1)[k]
  <2>1. old(b, i + 1) \in Seq(Part \X BoardId)
    BY <1>2, <1>8
  <2>2. new(b, i + 1) = Append(old(b, i + 1), e)
    BY <1>7, <1>8
  <2>3. ASSUME NEW s \in Seq(Part \X BoardId), NEW x \in Part \X BoardId
        PROVE  /\ Len(s) \in Nat /\ Len(Append(s, x)) = Len(s) + 1
               /\ Append(s, x)[Len(s) + 1] = x
               /\ \A k \in 1 .. Len(s) : Append(s, x)[k] = s[k]
    OBVIOUS
  <2>4. /\ Len(old(b, i + 1)) \in Nat
        /\ Len(Append(old(b, i + 1), e)) = Len(old(b, i + 1)) + 1
        /\ Append(old(b, i + 1), e)[Len(old(b, i + 1)) + 1] = e
        /\ \A k \in 1 .. Len(old(b, i + 1)) :
             Append(old(b, i + 1), e)[k] = old(b, i + 1)[k]
    BY <1>3, <2>1, <2>3
  <2> QED
    BY <2>2, <2>4, Zenon
<1>9. /\ map_array' \in [Boards -> [Lane -> [Part -> BoardId \cup {Unset}]]]
      /\ map_array'[b][i][e[1]] = e[2]
      /\ \A c \in Boards, j \in Lane, p \in Part :
           c # b \/ j # i \/ p # e[1] => map_array'[c][j][p] = map_array[c][j][p]
  BY <1>1, <1>4 DEF RouterInv, Shapes
<1>10. Shapes'
  BY <1>1, <1>7, <1>9 DEF RouterInv, Shapes
<1>11. FromTable'
  <2>1. ASSUME NEW c \in Boards, NEW j \in Lane, NEW k \in 1 .. Len(new(c, j))
        PROVE  new(c, j)[k][2] = Table[c][new(c, j)[k][1]]
    <3>0. \A d \in Boards, l \in Lane : \A n \in 1 .. Len(old(d, l)) :
            old(d, l)[n][2] = Table[d][old(d, l)[n][1]]
      BY DEF RouterInv, FromTable
    <3>1. CASE c = b /\ j = i
      <4>0. new(c, j) = Tail(old(b, i)) /\ k \in 1 .. Len(Tail(old(b, i)))
        BY <1>7, <2>1, <3>1
      <4>1. k + 1 \in 1 .. Len(old(b, i)) /\ new(c, j)[k] = old(b, i)[k + 1]
        BY <1>3, <4>0
      <4> QED
        BY <3>0, <3>1, <4>1
    <3>2. CASE c = b /\ j = i + 1
      <4>1. CASE k = Len(old(b, i + 1)) + 1
        <5>1. new(c, j)[k] = e
          BY <1>8, <3>2, <4>1
        <5> QED
          BY <1>4, <3>2, <5>1
      <4>2. CASE k # Len(old(b, i + 1)) + 1
        <5>1. k \in 1 .. Len(old(b, i + 1)) /\ new(c, j)[k] = old(b, i + 1)[k]
          BY <1>8, <2>1, <3>2, <4>2
        <5> QED
          BY <3>0, <3>2, <5>1
      <4> QED
        BY <4>1, <4>2
    <3>3. CASE c # b \/ (j # i /\ j # i + 1)
      BY <1>7, <2>1, <3>0, <3>3
    <3> QED
      BY <3>1, <3>2, <3>3
  <2>2. \A c \in Boards, j \in Lane, p \in Part : map_array'[c][j][p] \in {Unset, Table[c][p]}
    BY <1>4, <1>9 DEF RouterInv, FromTable
  <2> QED
    BY <2>1, <2>2 DEF FromTable
<1>12. NoneMissing'
  <2>1. SUFFICES ASSUME NEW c \in Boards, NEW l \in Lane, NEW p \in Part,
                        PartNo(p) < loaded[c], map_array'[c][l][p] = Unset
                 PROVE  \E j \in Lane : j <= l /\ \E k \in DOMAIN new(c, j) : new(c, j)[k][1] = p
    BY <1>1 DEF NoneMissing, OnItsWay
  <2>2. ~ (c = b /\ l = i /\ p = e[1])
    BY <1>4, <1>9, <2>1 DEF BoardId, Unset
  <2>3. PICK j \in Lane : j <= l /\ \E k \in DOMAIN old(c, j) : old(c, j)[k][1] = p
    BY <1>9, <2>1, <2>2 DEF RouterInv, NoneMissing, OnItsWay
  <2>4. PICK k \in DOMAIN old(c, j) : old(c, j)[k][1] = p
    BY <2>3
  <2>5. k \in 1 .. Len(old(c, j)) /\ Len(old(c, j)) \in Nat
    BY <1>2, <2>4
  <2>6. \A d \in Boards, m \in Lane : DOMAIN new(d, m) = 1 .. Len(new(d, m))
    BY <1>7
  <2>7. CASE c = b /\ j = i /\ k = 1
    <3>1. p = e[1] /\ l # i
      BY <1>3, <2>2, <2>4, <2>7
    <3>2. i + 1 \in Lane /\ i + 1 <= l
      BY <2>3, <2>7, <3>1 DEF Lane, RouterAssumption
    <3>3. Len(old(b, i + 1)) + 1 \in DOMAIN new(b, i + 1)
          /\ new(b, i + 1)[Len(old(b, i + 1)) + 1] = e
      BY <1>8, <2>6, <3>2
    <3> QED
      BY <2>7, <3>1, <3>2, <3>3
  <2>8. CASE c = b /\ j = i /\ k # 1
    <3>1. k - 1 \in 1 .. Len(Tail(old(b, i))) /\ (k - 1) + 1 = k
      BY <1>3, <2>5, <2>8
    <3>2. k - 1 \in DOMAIN new(b, i) /\ new(b, i)[k - 1] = old(b, i)[k]
      BY <1>3, <1>7, <2>6, <3>1
    <3> QED
      BY <2>3, <2>4, <2>8, <3>2
  <2>9. CASE c = b /\ j = i + 1
    <3>1. k \in DOMAIN new(c, j) /\ new(c, j)[k] = old(c, j)[k]
      BY <1>8, <2>5, <2>6, <2>9
    <3> QED
      BY <2>3, <2>4, <3>1
  <2>10. CASE c # b \/ (j # i /\ j # i + 1)
    BY <1>7, <2>3, <2>4, <2>10
  <2> QED
    BY <2>7, <2>8, <2>9, <2>10
<1>13. Walking'
  <2>1. \A w \in Walker \ early' : OnCourse(w)'
    BY <1>1 DEF RouterInv, Walking, OnCourse, TableId, Meant, AllLoaded, Loaded
  <2>2. \A m \in flight' : RightlySent(m)'
    BY <1>1 DEF RouterInv, Walking, RightlySent, Meant, AllLoaded, Loaded
  <2> QED
    BY <1>1, <2>1, <2>2 DEF Walking
<1> QED
  BY <1>10, <1>11, <1>12, <1>13 DEF RouterInv

-----------------------------------------------------------------------------
(* The walkers *)

\* When the host starts a walker all loaders have returned.
LEMMA StartKeeps ==
  ASSUME RouterAssumption, RouterInv, NEW w \in Walker, StartWalker(w)
  PROVE  RouterInv'
<1>1. PICK b \in Boards, i \in Lane :
        /\ place' = [place EXCEPT ![w] = <<"in", b, i>>]
        /\ home' = [home EXCEPT ![w] = b]
  BY DEF StartWalker
<1>2. /\ place[w] = <<"host">> /\ AllLoaded /\ AllLoaded'
      /\ UNCHANGED <<loaded, chain, map_array, vertex, flight, early>>
  BY DEF StartWalker, config, AllLoaded, Loaded
<1>3. /\ place'[w] = <<"in", b, i>> /\ home'[w] = b
      /\ \A v \in Walker : v # w => place'[v] = place[v] /\ home'[v] = home[v]
  BY <1>1 DEF RouterInv, Shapes
<1>4. Shapes'
  BY <1>1, <1>2 DEF RouterInv, Shapes
<1>5. FromTable' /\ NoneMissing'
  BY <1>2 DEF RouterInv, FromTable, NoneMissing, OnItsWay
<1>6. ASSUME NEW v \in Walker \ early PROVE OnCourse(v)'
  <2>1. CASE v = w
    BY <1>2, <1>3, <2>1 DEF OnCourse
  <2>2. CASE v # w
    BY <1>2, <1>3, <2>2 DEF RouterInv, Walking, OnCourse, TableId, Meant
  <2> QED
    BY <2>1, <2>2
<1>7. ASSUME NEW m \in flight, NEW k \in DOMAIN m.tasks
      PROVE  /\ m.tasks[k] \in Walker
             /\ m.tasks[k] \notin early =>
                  home'[m.tasks[k]] \in Boards /\ m.dest = Meant(m.tasks[k])'
  <2>1. /\ m.tasks[k] \in Walker
        /\ m.tasks[k] \notin early =>
             home[m.tasks[k]] \in Boards /\ m.dest = Meant(m.tasks[k])
    BY DEF RouterInv, Walking, RightlySent
  <2>2. m.tasks[k] \notin early => m.tasks[k] # w
    <3>1. SUFFICES ASSUME w \notin early, m.tasks[k] = w PROVE FALSE
      OBVIOUS
    <3>2. home[w] = NoBoard /\ home[w] \in Boards
      BY <1>2, <2>1, <3>1 DEF RouterInv, Walking, OnCourse
    <3> QED
      BY <3>2 DEF RouterAssumption
  <2> QED
    BY <1>2, <1>3, <2>1, <2>2 DEF Meant
<1>8. Walking'
  BY <1>2, <1>6, <1>7 DEF Walking, RightlySent
<1> QED
  BY <1>4, <1>5, <1>8 DEF RouterInv

\* A mapper that no longer waits for the entry of a part has it, so the walker goes where
\* the table says.
LEMMA RouteKeeps ==
  ASSUME RouterAssumption, RouterInv, NEW w \in Walker, RouteWalker(w)
  PROVE  RouterInv'
<1> DEFINE b == place[w][2]
           i == place[w][3]
<1>1. PICK id \in Lookup(b, i, vertex[w]) :
        place' = [place EXCEPT ![w] = IF id = 0 THEN <<"local", b, i>> ELSE <<"rout", b, id>>]
  BY DEF RouteWalker
<1>2. /\ place[w][1] = "in"
      /\ early' = early \cup (IF OnItsWay(b, i, vertex[w]) THEN {w} ELSE {})
      /\ UNCHANGED <<loaded, chain, map_array, vertex, flight, home>>
  BY DEF RouteWalker, config
<1>3. /\ place'[w] = IF id = 0 THEN <<"local", b, i>> ELSE <<"rout", b, id>>
      /\ \A v \in Walker : v # w => place'[v] = place[v]
  BY <1>1 DEF RouterInv, Shapes
<1>4. Shapes'
  BY <1>1, <1>2 DEF RouterInv, Shapes
<1>5. FromTable' /\ NoneMissing'
  BY <1>2 DEF RouterInv, FromTable, NoneMissing, OnItsWay
<1>6. ASSUME NEW v \in Walker \ early' PROVE OnCourse(v)'
  <2>1. v \notin early /\ OnCourse(v)
    BY <1>2 DEF RouterInv, Walking
  <2>2. CASE v = w
    <3>1. /\ home[w] \in Boards /\ AllLoaded
          /\ \E j \in Lane : place[w] = <<"in", home[w], j>>
      BY <1>2, <2>1, <2>2 DEF OnCourse
    <3>2. b = home[w] /\ i \in Lane /\ ~ OnItsWay(b, i, vertex[w])
      BY <1>2, <2>2, <3>1
    <3>3. vertex[w] \in Part
      BY DEF RouterInv, Shapes
    <3>4. PartNo(vertex[w]) < loaded[b]
      BY <3>1, <3>2, <3>3, PartNoType DEF AllLoaded, Loaded
    <3>5. map_array[b][i][vertex[w]] = TableId(w) /\ map_array[b][i][vertex[w]] # Unset
      BY <3>1, <3>2, <3>3, <3>4 DEF RouterInv, FromTable, NoneMissing, TableId
    <3>6. id = TableId(w)
      BY <1>1, <3>5 DEF Lookup
    <3>7. AllLoaded' /\ TableId(w)' = TableId(w) /\ home'[w] = home[w]
      BY <1>2, <3>1 DEF AllLoaded, Loaded, TableId
    <3>8. CASE id = 0
      <4>1. place'[w] = <<"local", home'[w], i>>
        BY <1>3, <3>2, <3>7, <3>8
      <4> QED
        BY <2>2, <3>1, <3>2, <3>6, <3>7, <3>8, <4>1 DEF OnCourse
    <3>9. CASE id # 0
      <4>1. place'[w] = <<"rout", home'[w], TableId(w)'>>
        BY <1>3, <3>2, <3>6, <3>7, <3>9
      <4> QED
        BY <2>2, <3>1, <3>6, <3>7, <3>9, <4>1 DEF OnCourse
    <3> QED
      BY <3>8, <3>9
  <2>3. CASE v # w
    BY <1>2, <1>3, <2>1, <2>3 DEF OnCourse, TableId, Meant, AllLoaded, Loaded
  <2> QED
    BY <2>2, <2>3
<1>7. \A m \in flight' : RightlySent(m)'
  BY <1>2 DEF RouterInv, Walking, RightlySent, Meant, AllLoaded, Loaded
<1>8. Walking'
  BY <1>2, <1>6, <1>7 DEF Walking
<1> QED
  BY <1>4, <1>5, <1>8 DEF RouterInv

\* A package takes its tasks from one rout_stream, so that they are all meant for the
\* board its socket names.
LEMMA SendKeeps ==
  ASSUME RouterAssumption, NetworkFits, RouterInv, NEW b \in Boards, NEW id \in BoardId,
         SendPackage(b, id)
  PROVE  RouterInv'
<1> DEFINE Waiting == {w \in Walker : place[w] = <<"rout", b, id>>}
<1>0. PICK n \in 1 .. Slots : \E ts \in [1 .. n -> Waiting] :
        IF NetDest(id) \in DOMAIN Socket[b]
        THEN /\ flight' = flight \cup {[dest |-> Socket[b][NetDest(id)], tasks |-> ts]}
             /\ place' = [w \in Walker |-> IF w \in Range(ts) THEN <<"net">> ELSE place[w]]
        ELSE /\ place' = [w \in Walker |-> IF w \in Range(ts) THEN <<"lost">> ELSE place[w]]
             /\ UNCHANGED flight
  BY DEF SendPackage
<1>1. PICK ts \in [1 .. n -> Waiting] :
        IF NetDest(id) \in DOMAIN Socket[b]
        THEN /\ flight' = flight \cup {[dest |-> Socket[b][NetDest(id)], tasks |-> ts]}
             /\ place' = [w \in Walker |-> IF w \in Range(ts) THEN <<"net">> ELSE place[w]]
        ELSE /\ place' = [w \in Walker |-> IF w \in Range(ts) THEN <<"lost">> ELSE place[w]]
             /\ UNCHANGED flight
  BY <1>0
<1>2. UNCHANGED <<loaded, chain, map_array, vertex, home, early>>
  BY DEF SendPackage, config
<1>3. \A k \in DOMAIN ts : ts[k] \in Walker /\ place[ts[k]] = <<"rout", b, id>>
  OBVIOUS
<1>4. \A w \in Range(ts) : w \in Walker /\ place[w] = <<"rout", b, id>>
  BY <1>3 DEF Range
<1>5. ASSUME NEW w \in Walker \ early, place[w] = <<"rout", b, id>>
      PROVE  /\ home[w] = b /\ TableId(w) = id /\ id # 0 /\ AllLoaded
             /\ NetDest(id) \in DOMAIN Socket[b] /\ Socket[b][NetDest(id)] = Meant(w)
  <2>1. home[w] = b /\ TableId(w) = id /\ id # 0 /\ AllLoaded
    BY <1>5 DEF RouterInv, Walking, OnCourse
  <2>2. vertex[w] \in Part
    BY DEF RouterInv, Shapes
  <2> QED
    BY <2>1, <2>2 DEF NetworkFits, TableId, Meant
<1>6. Shapes'
  BY <1>1, <1>2 DEF RouterInv, Shapes
<1>7. FromTable' /\ NoneMissing'
  BY <1>2 DEF RouterInv, FromTable, NoneMissing, OnItsWay
<1>8. ASSUME NEW w \in Walker \ early PROVE OnCourse(w)'
  <2>1. OnCourse(w)
    BY DEF RouterInv, Walking
  <2>2. CASE w \in Range(ts)
    <3>1. home[w] \in Boards /\ AllLoaded /\ NetDest(id) \in DOMAIN Socket[b]
      BY <1>4, <1>5, <2>2
    <3>2. place'[w] = <<"net">>
      BY <1>1, <2>2, <3>1
    <3> QED
      BY <1>2, <3>1, <3>2 DEF OnCourse, AllLoaded, Loaded
  <2>3. CASE w \notin Range(ts)
    <3>1. place'[w] = place[w]
      BY <1>1, <2>3
    <3> QED
      BY <1>2, <2>1, <3>1 DEF OnCourse, TableId, Meant, AllLoaded, Loaded
  <2> QED
    BY <2>2, <2>3
<1>9. ASSUME NEW m \in flight' PROVE RightlySent(m)'
  <2>1. CASE m \in flight
    BY <1>2, <2>1 DEF RouterInv, Walking, RightlySent, Meant, AllLoaded, Loaded
  <2>2. CASE m \notin flight
    <3>1. m.dest = Socket[b][NetDest(id)] /\ m.tasks = ts
      BY <1>1, <2>2
    <3>2. ASSUME NEW k \in DOMAIN ts, ts[k] \notin early
          PROVE  home[ts[k]] \in Boards /\ AllLoaded /\ Socket[b][NetDest(id)] = Meant(ts[k])
      BY <1>3, <1>5, <3>2
    <3> QED
      BY <1>2, <1>3, <3>1, <3>2 DEF RightlySent, Meant, AllLoaded, Loaded
  <2> QED
    BY <2>1, <2>2
<1>10. Walking'
  BY <1>2, <1>8, <1>9 DEF Walking
<1> QED
  BY <1>6, <1>7, <1>10 DEF RouterInv

\* A board takes only packages that are sent to it.
LEMMA DispatchKeeps ==
  ASSUME RouterAssumption, RouterInv, NEW b \in Boards, dispatch_net_package(b)
  PROVE  RouterInv'
<1> DEFINE at(k) == <<"remote", b, k - 1 + schedule[b] * Slots>>
<1>1. PICK m \in flight :
        /\ m.dest = b /\ flight' = flight \ {m}
        /\ place' = [w \in Walker |->
             IF \E k \in DOMAIN m.tasks : m.tasks[k] = w
             THEN at(CHOOSE k \in DOMAIN m.tasks : m.tasks[k] = w) ELSE place[w]]
  BY DEF dispatch_net_package
<1>2. UNCHANGED <<loaded, chain, map_array, vertex, home, early>>
  BY DEF dispatch_net_package, config
<1>3. Shapes'
  BY <1>1, <1>2 DEF RouterInv, Shapes
<1>4. FromTable' /\ NoneMissing'
  BY <1>2 DEF RouterInv, FromTable, NoneMissing, OnItsWay
<1>5. ASSUME NEW w \in Walker \ early PROVE OnCourse(w)'
  <2>1. CASE \E k \in DOMAIN m.tasks : m.tasks[k] = w
    <3>1. home[w] \in Boards /\ AllLoaded /\ Meant(w) = b
      BY <1>1, <2>1 DEF RouterInv, Walking, RightlySent
    <3>2. \E j : place'[w] = <<"remote", b, j>>
      BY <1>1, <2>1
    <3>3. Meant(w)' = b /\ AllLoaded' /\ home'[w] \in Boards
      BY <1>2, <3>1 DEF Meant, AllLoaded, Loaded
    <3> QED
      BY <3>2, <3>3 DEF OnCourse
  <2>2. CASE \A k \in DOMAIN m.tasks : m.tasks[k] # w
    <3>1. place'[w] = place[w]
      BY <1>1, <2>2
    <3>2. OnCourse(w)
      BY DEF RouterInv, Walking
    <3> QED
      BY <1>2, <3>1, <3>2 DEF OnCourse, TableId, Meant, AllLoaded, Loaded
  <2> QED
    BY <2>1, <2>2
<1>6. \A o \in flight' : RightlySent(o)'
  BY <1>1, <1>2 DEF RouterInv, Walking, RightlySent, Meant, AllLoaded, Loaded
<1>7. Walking'
  BY <1>2, <1>5, <1>6 DEF Walking
<1> QED
  BY <1>3, <1>4, <1>7 DEF RouterInv

\* From in front of a merger a walker can only go out on the same board.
LEMMA DeliverKeeps ==
  ASSUME RouterAssumption, RouterInv, NEW w \in Walker, Deliver(w)
  PROVE  RouterInv'
<1>1. /\ place[w][1] \in {"local", "remote"}
      /\ place' = [place EXCEPT ![w] = <<"out", place[w][2]>>]
      /\ UNCHANGED <<loaded, chain, map_array, vertex, flight, home, early>>
  BY DEF Deliver, config
<1>2. /\ place'[w] = <<"out", place[w][2]>>
      /\ \A v \in Walker : v # w => place'[v] = place[v]
  BY <1>1 DEF RouterInv, Shapes
<1>3. Shapes'
  BY <1>1 DEF RouterInv, Shapes
<1>4. FromTable' /\ NoneMissing'
  BY <1>1 DEF RouterInv, FromTable, NoneMissing, OnItsWay
<1>5. ASSUME NEW v \in Walker \ early PROVE OnCourse(v)'
  <2>1. OnCourse(v)
    BY DEF RouterInv, Walking
  <2>2. CASE v = w
    <3>1. home[w] \in Boards /\ AllLoaded /\ place[w][2] = Meant(w)
      BY <1>1, <2>1, <2>2 DEF OnCourse, TableId, Meant
    <3> QED
      BY <1>1, <1>2, <2>2, <3>1 DEF OnCourse, Meant, AllLoaded, Loaded
  <2>3. CASE v # w
    BY <1>1, <1>2, <2>1, <2>3 DEF OnCourse, TableId, Meant, AllLoaded, Loaded
  <2> QED
    BY <2>2, <2>3
<1>6. \A m \in flight' : RightlySent(m)'
  BY <1>1 DEF RouterInv, Walking, RightlySent, Meant, AllLoaded, Loaded
<1>7. Walking'
  BY <1>1, <1>5, <1>6 DEF Walking
<1> QED
  BY <1>3, <1>4, <1>7 DEF RouterInv

-----------------------------------------------------------------------------
(* The theorem *)

LEMMA RouterInit ==
  ASSUME RouterAssumption, Init
  PROVE  RouterInv
<1>1. Shapes
  BY DEF Init, Shapes
<1>2. FromTable
  BY DEF Init, FromTable
<1>3. NoneMissing
  BY PartNoType DEF Init, NoneMissing
<1>4. Walking
  BY DEF Init, Walking, OnCourse
<1> QED
  BY <1>1, <1>2, <1>3, <1>4 DEF RouterInv

LEMMA RouterStep ==
  ASSUME RouterAssumption, NetworkFits, RouterInv, [Next]_vars
  PROVE  RouterInv'
<1>1. ASSUME NEW b \in Boards, rng_config_loader(b) PROVE RouterInv'
  BY <1>1, LoaderKeeps
<1>2. ASSUME NEW b \in Boards, NEW i \in Lane, LoadEntry(b, i) PROVE RouterInv'
  BY <1>2, EntryKeeps
<1>3. ASSUME NEW w \in Walker, StartWalker(w) PROVE RouterInv'
  BY <1>3, StartKeeps
<1>4. ASSUME NEW w \in Walker, RouteWalker(w) PROVE RouterInv'
  BY <1>4, RouteKeeps
<1>5. ASSUME NEW w \in Walker, Deliver(w) PROVE RouterInv'
  BY <1>5, DeliverKeeps
<1>6. ASSUME NEW b \in Boards, NEW id \in BoardId, SendPackage(b, id) PROVE RouterInv'
  BY <1>6, SendKeeps
<1>7. ASSUME NEW b \in Boards, dispatch_net_package(b) PROVE RouterInv'
  BY <1>7, DispatchKeeps
<1>8. CASE UNCHANGED vars
  <2>1. UNCHANGED <<loaded, chain, map_array, vertex, place, flight, home, early>>
    BY <1>8 DEF vars, config
  <2>2. Shapes'
    BY <2>1 DEF RouterInv, Shapes
  <2>3. FromTable' /\ NoneMissing'
    BY <2>1 DEF RouterInv, FromTable, NoneMissing, OnItsWay
  <2>4. \A w \in Walker \ early' : OnCourse(w)'
    BY <2>1 DEF RouterInv, Walking, OnCourse, TableId, Meant, AllLoaded, Loaded
  <2>5. \A m \in flight' : RightlySent(m)'
    BY <2>1 DEF RouterInv, Walking, RightlySent, Meant, AllLoaded, Loaded
  <2> QED
    BY <2>1, <2>2, <2>3, <2>4, <2>5 DEF RouterInv, Walking
<1> QED
  BY <1>1, <1>2, <1>3, <1>4, <1>5, <1>6, <1>7, <1>8 DEF Next

\* NoneAstray: whatever the mappers are behind with when the walkers come, and however
\* the walkers are packed, no walker is lost or comes out on another board than the one
\* the host's table means for it, if its entry had come before it was looked up.
THEOREM ArrivesAsMeant ==
  ASSUME RouterAssumption, NetworkFits
  PROVE  Spec => []NoneAstray
<1>1. Init => RouterInv
  BY RouterInit
<1>2. RouterInv /\ [Next]_vars => RouterInv'
  BY RouterStep
<1>3. RouterInv => NoneAstray
  BY DEF RouterInv, Walking, OnCourse, NoneAstray
<1> QED
  BY <1>1, <1>2, <1>3, PTL DEF Spec
=============================================================================
