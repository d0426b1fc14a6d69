---------------------------- MODULE MCEndings_proof ----------------------------
(***************************************************************************)
(* The two ways a host learns the end of its walks, for every value of the *)
(* constants.                                                              *)
(*                                                                         *)
(* ring_manager (RingManager), for every number of queries, lengths of     *)
(* walks, ring size and depths: no two walks of the loop have the same     *)
(* slot, and the loop never holds more walks than there are slots, so that *)
(* a FIFO back to ring_manager deeper than that never fills. The loop is   *)
(* one sequence: a step of the pipeline and a blocking write leave every   *)
(* walk in its place and its slot, and ring_manager takes from one end and *)
(* adds at the other. When ring_manager returns, at the end of the last    *)
(* query, no other walk is left (LeavesNothing) if no query is longer than *)
(* the last one: the loop keeps the order of the queries, so that an       *)
(* earlier walk that is left would have made as many steps as the last.    *)
(*                                                                         *)
(* query_statistic (StepCount), for every number of lanes, walks, starts   *)
(* and depths: if the walks were over before it was started, its result is *)
(* their number. FinalCount says nothing of the time in between. The       *)
(* invariant numbers the messages from the start on: those that are, or    *)
(* will be, made of what was in the FIFOs at the start are the first Stale *)
(* ones, and every later one is made of counts that are final.             *)
(***************************************************************************)
EXTENDS MCEndings, SequenceTheorems, FiniteSetTheorems, TLAPS

\* Only the slot of a walk matters here; its length is any integer.
AnyWalk == [query : 1..Size, slot : Slot, final : BOOLEAN, left : Int, last : BOOLEAN]
AnyUpdate == [index : Slot, val : BOOLEAN]

Streams ==
  /\ old \in Seq(AnyWalk) /\ out \in Seq(AnyWalk) /\ put \in Seq(AnyWalk)
  /\ new \in Seq(1..Size) /\ loaded \in 0..Size
  /\ slot_status \in [Slot -> BOOLEAN] /\ ring_counter \in Slot
  /\ slot_update \in Seq(AnyUpdate)

\* The walks of s have slots of their own, marked in st.
Own(s, st) ==
  /\ \A i, j \in 1..Len(s) : s[i].slot = s[j].slot => i = j
  /\ \A i \in 1..Len(s) : st[s[i].slot]

\* No walk of s is in slot x.
Without(s, x) == \A i \in 1..Len(s) : s[i].slot # x

\* An update that waits for the end of the iteration frees a slot nobody has.
Freeing ==
  slot_update # <<>> =>
    /\ phase = "insert" /\ put = <<>>
    /\ slot_update[1].val = FALSE
    /\ Without(Loop, slot_update[1].index)

OwnInv == Streams /\ Own(Loop, slot_status) /\ Freeing

-----------------------------------------------------------------------------
(* Walks and slots of a sequence *)

LEMMA OwnSame ==
  ASSUME NEW s \in Seq(AnyWalk), NEW t \in Seq(AnyWalk), Len(t) = Len(s),
         \A i \in 1..Len(s) : t[i].slot = s[i].slot, NEW st
  PROVE  /\ Own(s, st) => Own(t, st)
         /\ \A x : Without(s, x) => Without(t, x)
BY DEF Own, Without

LEMMA OwnTail ==
  ASSUME NEW s \in Seq(AnyWalk), s # <<>>, NEW st, Own(s, st)
  PROVE  /\ Own(Tail(s), st) /\ Without(Tail(s), s[1].slot) /\ st[s[1].slot]
         /\ s[1].slot \in Slot
<1>1. /\ Len(s) \in Nat \ {0} /\ Len(Tail(s)) = Len(s) - 1
      /\ \A i \in 1..Len(Tail(s)) : Tail(s)[i] = s[i + 1]
  BY HeadTailProperties, EmptySeq
<1>2. \A i \in 1..Len(Tail(s)) : i + 1 \in 1..Len(s) /\ i + 1 # 1
  BY <1>1
<1>3. 1 \in 1..Len(s)
  BY <1>1
<1>4. s[1] \in AnyWalk
  BY <1>3, ElementOfSeq
<1> QED
  BY <1>1, <1>2, <1>3, <1>4 DEF Own, Without, AnyWalk

LEMMA OwnAdd ==
  ASSUME NEW s \in Seq(AnyWalk), NEW st, Own(s, st),
         NEW w \in AnyWalk, st[w.slot], Without(s, w.slot)
  PROVE  Own(s \o <<w>>, st)
<1>1. /\ <<w>> \in Seq(AnyWalk) /\ Len(<<w>>) = 1 /\ <<w>>[1] = w
      /\ Len(s) \in Nat
  OBVIOUS
<1>2. Len(s \o <<w>>) = Len(s) + 1
  BY <1>1, ConcatProperties
<1>3. /\ \A i \in 1..Len(s) : (s \o <<w>>)[i] = s[i]
      /\ (s \o <<w>>)[Len(s) + 1] = w
  BY <1>1, ConcatProperties
<1>4. \A i \in 1..Len(s \o <<w>>) : i \in 1..Len(s) \/ i = Len(s) + 1
  BY <1>1, <1>2
<1> QED
  BY <1>3, <1>4 DEF Own, Without

LEMMA OwnMark ==
  ASSUME NEW s \in Seq(AnyWalk), NEW st \in [Slot -> BOOLEAN], NEW x \in Slot, Own(s, st)
  PROVE  /\ Own(s, [st EXCEPT ![x] = TRUE])
         /\ Without(s, x) => Own(s, [st EXCEPT ![x] = FALSE])
<1>1. \A i \in 1..Len(s) : s[i] \in AnyWalk
  BY ElementOfSeq
<1>2. \A i \in 1..Len(s) : s[i].slot \in Slot
  BY <1>1 DEF AnyWalk
<1> QED
  BY <1>2 DEF Own, Without

LEMMA TailConcat ==
  ASSUME NEW a \in Seq(AnyWalk), NEW b \in Seq(AnyWalk), a # <<>>
  PROVE  /\ Tail(a \o b) = Tail(a) \o b /\ a \o b # <<>> /\ (a \o b)[1] = Head(a)
         /\ a \o b \in Seq(AnyWalk) /\ Tail(a) \in Seq(AnyWalk) /\ Tail(a) \o b \in Seq(AnyWalk)
<1>1. /\ Tail(a) \in Seq(AnyWalk) /\ Len(Tail(a)) = Len(a) - 1
      /\ \A i \in 1..Len(Tail(a)) : Tail(a)[i] = a[i + 1]
      /\ Len(a) \in Nat \ {0} /\ Len(b) \in Nat /\ Head(a) = a[1]
  BY HeadTailProperties, EmptySeq, LenProperties
<1>2. /\ a \o b \in Seq(AnyWalk) /\ Len(a \o b) = Len(a) + Len(b)
      /\ \A i \in 1..Len(a) + Len(b) : (a \o b)[i] = IF i <= Len(a) THEN a[i] ELSE b[i - Len(a)]
  BY ConcatProperties
<1>3. /\ Tail(a) \o b \in Seq(AnyWalk) /\ Len(Tail(a) \o b) = Len(Tail(a)) + Len(b)
      /\ \A i \in 1..Len(Tail(a)) + Len(b) :
           (Tail(a) \o b)[i] = IF i <= Len(Tail(a)) THEN Tail(a)[i] ELSE b[i - Len(Tail(a))]
  BY <1>1, ConcatProperties
<1>4. a \o b # <<>> /\ (a \o b)[1] = Head(a)
  BY <1>1, <1>2, EmptySeq
<1>5. /\ Tail(a \o b) \in Seq(AnyWalk) /\ Len(Tail(a \o b)) = Len(a) + Len(b) - 1
      /\ \A i \in 1..Len(Tail(a \o b)) : Tail(a \o b)[i] = (a \o b)[i + 1]
  BY <1>2, <1>4, HeadTailProperties
<1>6. Len(Tail(a \o b)) = Len(Tail(a) \o b)
  BY <1>1, <1>3, <1>5
<1>7. \A i \in 1..Len(Tail(a \o b)) : Tail(a \o b)[i] = (Tail(a) \o b)[i]
  <2>1. TAKE i \in 1..Len(Tail(a \o b))
  <2>2. i \in Nat /\ i + 1 \in 1..Len(a) + Len(b) /\ i \in 1..Len(Tail(a)) + Len(b)
    BY <1>1, <1>5
  <2>3. Tail(a \o b)[i] = IF i + 1 <= Len(a) THEN a[i + 1] ELSE b[i + 1 - Len(a)]
    BY <1>2, <1>5, <2>2
  <2>4. (Tail(a) \o b)[i] = IF i <= Len(Tail(a)) THEN a[i + 1] ELSE b[i - Len(Tail(a))]
    BY <1>1, <1>3, <2>2
  <2>5. /\ (i + 1 <= Len(a)) <=> (i <= Len(Tail(a)))
        /\ i + 1 - Len(a) = i - Len(Tail(a))
    BY <1>1, <2>2
  <2> QED
    BY <2>3, <2>4, <2>5
<1>8. Tail(a \o b) = Tail(a) \o b
  BY <1>3, <1>5, <1>6, <1>7, SeqEqual
<1> QED
  BY <1>1, <1>2, <1>3, <1>4, <1>8

\* A step of the pipeline: the head of b moves to the end of a, as w.
LEMMA MoveHead ==
  ASSUME NEW a \in Seq(AnyWalk), NEW b \in Seq(AnyWalk), b # <<>>,
         NEW w \in AnyWalk
  PROVE  /\ Append(a, w) \o Tail(b) \in Seq(AnyWalk)
         /\ Len(Append(a, w) \o Tail(b)) = Len(a \o b)
         /\ \A i \in 1..Len(a \o b) :
              (Append(a, w) \o Tail(b))[i] = IF i = Len(a) + 1 THEN w ELSE (a \o b)[i]
         /\ Len(a) + 1 \in 1..Len(a \o b) /\ (a \o b)[Len(a) + 1] = Head(b)
<1>1. /\ Append(a, w) \in Seq(AnyWalk) /\ Len(Append(a, w)) = Len(a) + 1
      /\ \A i \in 1..Len(a) : Append(a, w)[i] = a[i]
      /\ Append(a, w)[Len(a) + 1] = w
      /\ Len(a) \in Nat
  BY LenProperties
<1>2. /\ Tail(b) \in Seq(AnyWalk) /\ Len(Tail(b)) = Len(b) - 1
      /\ \A i \in 1..Len(Tail(b)) : Tail(b)[i] = b[i + 1]
      /\ Len(b) \in Nat \ {0} /\ Head(b) = b[1]
  BY HeadTailProperties, EmptySeq
<1>3. /\ Len(a \o b) = Len(a) + Len(b)
      /\ \A i \in 1..Len(a) + Len(b) : (a \o b)[i] = IF i <= Len(a) THEN a[i] ELSE b[i - Len(a)]
  BY ConcatProperties
<1>4. /\ Append(a, w) \o Tail(b) \in Seq(AnyWalk)
      /\ Len(Append(a, w) \o Tail(b)) = Len(Append(a, w)) + Len(Tail(b))
      /\ \A i \in 1..Len(Append(a, w)) + Len(Tail(b)) :
           (Append(a, w) \o Tail(b))[i] =
             IF i <= Len(Append(a, w)) THEN Append(a, w)[i] ELSE Tail(b)[i - Len(Append(a, w))]
  BY <1>1, <1>2, ConcatProperties
<1>5. \A i \in 1..Len(a \o b) :
        (Append(a, w) \o Tail(b))[i] = IF i = Len(a) + 1 THEN w ELSE (a \o b)[i]
  <2>1. TAKE i \in 1..Len(a \o b)
  <2>2. i \in 1..Len(a) + Len(b) /\ i \in 1..Len(Append(a, w)) + Len(Tail(b))
    BY <1>1, <1>2, <1>3
  <2>3. CASE i <= Len(a)
    BY <1>1, <1>3, <1>4, <2>2, <2>3
  <2>4. CASE i = Len(a) + 1
    BY <1>1, <1>2, <1>3, <1>4, <2>2, <2>4
  <2>5. CASE i > Len(a) + 1
    <3>1. i - Len(a) = (i - Len(Append(a, w))) + 1 /\ i - Len(Append(a, w)) \in 1..Len(Tail(b))
      BY <1>1, <1>2, <2>2, <2>5
    <3>2. (a \o b)[i] = b[i - Len(a)]
      BY <1>1, <1>3, <2>2, <2>5
    <3>3. (Append(a, w) \o Tail(b))[i] = Tail(b)[i - Len(Append(a, w))]
      BY <1>1, <1>4, <2>2, <2>5
    <3> QED
      BY <1>2, <3>1, <3>2, <3>3
  <2> QED
    BY <1>1, <2>2, <2>3, <2>4, <2>5
<1>6. Len(a) + 1 \in 1..Len(a \o b) /\ (a \o b)[Len(a) + 1] = Head(b)
  BY <1>1, <1>2, <1>3
<1> QED
  BY <1>1, <1>2, <1>3, <1>4, <1>5, <1>6

-----------------------------------------------------------------------------
(* The loop *)

LEMMA LoopType ==
  ASSUME Streams
  PROVE  /\ Loop \in Seq(AnyWalk) /\ old \o out \in Seq(AnyWalk)
         /\ put = <<>> => Loop = old \o out
<1>1. old \o out \in Seq(AnyWalk)
  BY ConcatProperties DEF Streams
<1> QED
  BY <1>1, ConcatProperties, ConcatEmptySeq DEF Streams, Loop

LEMMA UpToSize == ASSUME NEW n \in Nat PROVE Cardinality(1..n) = n
BY FS_Interval

\* The loop holds no more walks than there are slots.
LEMMA LoopBounded ==
  ASSUME RingManagerAssumption, OwnInv
  PROVE  Len(old) <= RingSize
<1> DEFINE f == [i \in 1..Len(Loop) |-> Loop[i].slot]
<1>1. RingSize \in Nat \ {0}
  BY DEF RingManagerAssumption
<1>2. Loop \in Seq(AnyWalk) /\ Len(Loop) \in Nat /\ Own(Loop, slot_status)
  BY LoopType DEF OwnInv
<1>3. \A i \in 1..Len(Loop) : Loop[i] \in AnyWalk
  BY <1>2, ElementOfSeq
<1>4. \A i \in 1..Len(Loop) : Loop[i].slot \in Slot
  BY <1>3 DEF AnyWalk
<1>5. f \in Injection(1..Len(Loop), Slot)
  BY <1>2, <1>4 DEF Injection, IsInjective, Own
<1>6. IsFiniteSet(Slot) /\ Cardinality(Slot) = RingSize
  BY <1>1, FS_Interval DEF Slot
<1>7. Cardinality(1..Len(Loop)) <= Cardinality(Slot)
  BY <1>5, <1>6, FS_Injection
<1>8. Cardinality(1..Len(Loop)) = Len(Loop)
  <2>1. Len(Loop) \in Nat
    BY <1>2
  <2> QED BY <2>1, UpToSize
<1>9. Len(old) <= Len(Loop)
  <2>1. Len(old \o out) = Len(old) + Len(out)
    BY ConcatProperties DEF OwnInv, Streams
  <2>2. Len(Loop) = Len(old \o out) + Len(put)
    BY LoopType, ConcatProperties DEF OwnInv, Streams, Loop
  <2>3. Len(old) \in Nat /\ Len(out) \in Nat /\ Len(put) \in Nat
    BY LenProperties DEF OwnInv, Streams
  <2> QED
    BY <2>1, <2>2, <2>3
<1>10. Len(old) \in Nat
  BY LenProperties DEF OwnInv, Streams
<1> QED
  BY <1>1, <1>2, <1>6, <1>7, <1>8, <1>9, <1>10

LEMMA EnterType ==
  ASSUME RingManagerAssumption, NEW n \in 1..Size, NEW s \in Slot
  PROVE  Enter(n, s) \in AnyWalk /\ Enter(n, s).slot = s
BY DEF RingManagerAssumption, Enter, AnyWalk

LEMMA InitOwn == ASSUME RingManagerAssumption, Init PROVE OwnInv
<1>1. Streams
  BY DEF RingManagerAssumption, Init, Streams, Slot
<1>2. Loop = <<>>
  BY <1>1, LoopType, ConcatEmptySeq DEF Init, Streams
<1>3. Own(Loop, slot_status)
  BY <1>2 DEF Own
<1> QED
  BY <1>1, <1>3 DEF OwnInv, Freeing, Init

-----------------------------------------------------------------------------
(* Each step *)

LEMMA LoaderOwn == ASSUME RingManagerAssumption, OwnInv, step_loader PROVE OwnInv'
<1>1. Streams'
  <2>1. loaded + 1 \in 1..Size /\ new' = Append(new, loaded + 1)
    BY DEF RingManagerAssumption, OwnInv, Streams, step_loader
  <2>2. new' \in Seq(1..Size)
    BY <2>1 DEF OwnInv, Streams
  <2> QED
    BY <2>1, <2>2 DEF OwnInv, Streams, step_loader
<1> QED
  BY <1>1 DEF OwnInv, Freeing, step_loader, Loop

\* A walk comes back: it keeps its slot, hands it to a query, or leaves it.
LEMMA OldQueryOwn == ASSUME RingManagerAssumption, OwnInv, OldQuery PROVE OwnInv'
<1>1. /\ phase = "old" /\ put = <<>> /\ slot_update = <<>> /\ Streams
      /\ UNCHANGED <<out, slot_status, ring_counter, loaded>>
  BY DEF OldQuery, Empty, OwnInv, Freeing
<1>2. Loop = old \o out /\ Own(Loop, slot_status)
  BY <1>1, LoopType DEF OwnInv
<1>3. CASE old = <<>>
  <2>1. UNCHANGED <<old, new, put, slot_update>>
    BY <1>3 DEF OldQuery, OldGoesOn, OldIsLast, OldEnded, Empty
  <2> QED
    BY <1>1, <2>1 DEF OwnInv, Freeing, Streams, Loop
<1>4. CASE old # <<>>
  <2> DEFINE w == Head(old)
  <2>1. /\ Tail(Loop) = Tail(old) \o out /\ Loop # <<>> /\ Loop[1] = w
        /\ Loop \in Seq(AnyWalk) /\ Tail(old) \in Seq(AnyWalk)
        /\ Tail(old) \o out \in Seq(AnyWalk)
    BY <1>1, <1>2, <1>4, TailConcat DEF Streams
  <2>2. /\ Own(Tail(old) \o out, slot_status) /\ Without(Tail(old) \o out, w.slot)
        /\ slot_status[w.slot] /\ w.slot \in Slot
    BY <1>2, <2>1, OwnTail
  <2>3. w \in AnyWalk
    BY <1>1, <1>4, HeadTailProperties DEF Streams
  <2>4. old' = Tail(old)
    BY <1>4 DEF OldQuery, Empty
  <2>5. ASSUME NEW v \in AnyWalk, v.slot = w.slot, put' = <<v>>, slot_update' = slot_update,
               new' \in Seq(1..Size)
        PROVE  OwnInv'
    <3>1. Streams'
      BY <1>1, <2>1, <2>4, <2>5 DEF Streams
    <3>2. Loop' = (Tail(old) \o out) \o <<v>>
      BY <1>1, <2>4, <2>5 DEF Loop
    <3>3. Own(Loop', slot_status')
      BY <1>1, <2>1, <2>2, <2>5, <3>2, OwnAdd
    <3> QED
      BY <1>1, <2>5, <3>1, <3>3 DEF OwnInv, Freeing
  <2>6. ASSUME put' = put, new' = new,
               \/ slot_update' = slot_update
               \/ phase' = "insert" /\ slot_update' = <<[index |-> w.slot, val |-> FALSE]>>
        PROVE  OwnInv'
    <3>1. slot_update' \in Seq(AnyUpdate)
      <4>1. [index |-> w.slot, val |-> FALSE] \in AnyUpdate
        BY <2>2 DEF AnyUpdate
      <4>2. <<[index |-> w.slot, val |-> FALSE]>> \in Seq(AnyUpdate)
        BY <4>1
      <4>3. slot_update \in Seq(AnyUpdate)
        BY <1>1 DEF Streams
      <4> QED
        BY <2>6, <4>2, <4>3
    <3>2. Streams'
      BY <1>1, <2>1, <2>4, <2>6, <3>1 DEF Streams
    <3>3. Loop' = Tail(old) \o out
      <4>1. Loop' = (Tail(old) \o out) \o <<>>
        BY <1>1, <2>4, <2>6 DEF Loop
      <4> QED
        BY <2>1, <4>1, ConcatEmptySeq
    <3>4. Freeing'
      BY <1>1, <2>2, <2>6, <3>3 DEF Freeing
    <3> QED
      BY <1>1, <2>2, <3>2, <3>3, <3>4 DEF OwnInv
  <2>7. CASE OldGoesOn
    <3>1. /\ Forward(w) \in AnyWalk /\ Forward(w).slot = w.slot
      BY <2>3 DEF Forward, AnyWalk
    <3>2. put' = <<Forward(w)>> /\ slot_update' = slot_update /\ new' = new
      BY <2>7 DEF OldGoesOn
    <3> QED
      BY <1>1, <2>5, <3>1, <3>2 DEF Streams
  <2>8. CASE OldIsLast
    BY <2>6, <2>8 DEF OldIsLast
  <2>9. CASE OldEnded
    <3>1. CASE /\ new # <<>> /\ put' = <<Enter(Head(new), w.slot)>>
               /\ new' = Tail(new) /\ slot_update' = slot_update
      <4>1. Head(new) \in 1..Size /\ new' \in Seq(1..Size)
        BY <1>1, <3>1, HeadTailProperties DEF Streams
      <4>2. Enter(Head(new), w.slot) \in AnyWalk /\ Enter(Head(new), w.slot).slot = w.slot
        BY <2>2, <4>1, EnterType
      <4> QED
        BY <2>5, <3>1, <4>1, <4>2
    <3>2. CASE /\ slot_update' = <<[index |-> w.slot, val |-> FALSE]>>
               /\ UNCHANGED <<new, put>> /\ phase' = "insert"
      BY <2>6, <3>2
    <3> QED
      BY <2>9, <3>1, <3>2 DEF OldEnded, Empty
  <2> QED
    BY <1>4, <2>7, <2>8, <2>9 DEF OldQuery, Empty
<1> QED
  BY <1>3, <1>4

\* A query enters in the free slot ring_counter, or an update is carried out.
LEMMA InsertionOwn == ASSUME RingManagerAssumption, OwnInv, RingInsertion PROVE OwnInv'
<1>1. /\ put = <<>> /\ slot_update' = <<>> /\ Streams
      /\ UNCHANGED <<old, out, loaded>>
  BY DEF RingInsertion, Empty, OwnInv
<1>2. /\ Loop = old \o out /\ Own(Loop, slot_status) /\ Loop \in Seq(AnyWalk)
      /\ slot_status \in [Slot -> BOOLEAN] /\ ring_counter \in Slot
  BY <1>1, LoopType DEF OwnInv, Streams
<1>3. CASE MayInsert
  <2> DEFINE v == Enter(Head(new), ring_counter)
  <2>1. /\ put' = <<v>> /\ new' = Tail(new) /\ ring_counter' = NextSlot
        /\ slot_status' = [slot_status EXCEPT ![ring_counter] = TRUE]
    <3> DEFINE r == [index |-> ring_counter, val |-> TRUE]
    <3>1. put' = <<v>> /\ new' = Tail(new) /\ ring_counter' = NextSlot
      BY <1>3 DEF RingInsertion
    <3>2. <<r>> # <<>> /\ Head(<<r>>).index = ring_counter /\ Head(<<r>>).val = TRUE
      OBVIOUS
    <3>3. slot_status' = IF <<r>> = <<>> THEN slot_status
                         ELSE [slot_status EXCEPT ![Head(<<r>>).index] = Head(<<r>>).val]
      BY <1>3 DEF RingInsertion, Empty
    <3> QED
      BY <3>1, <3>2, <3>3
  <2>2. ~slot_status[ring_counter] /\ new # <<>>
    BY <1>3 DEF MayInsert, Empty
  <2>3. Head(new) \in 1..Size /\ new' \in Seq(1..Size)
    BY <1>1, <2>1, <2>2, HeadTailProperties DEF Streams
  <2>4. v \in AnyWalk /\ v.slot = ring_counter
    BY <1>2, <2>3, EnterType
  <2>5. Without(Loop, ring_counter)
    BY <1>2, <2>2 DEF Own, Without
  <2>6. Own(Loop, slot_status') /\ slot_status'[ring_counter]
    BY <1>2, <2>1, OwnMark
  <2>7. Loop' = Loop \o <<v>>
    BY <1>1, <1>2, <2>1 DEF Loop
  <2>8. Own(Loop', slot_status')
    BY <1>2, <2>4, <2>5, <2>6, <2>7, OwnAdd
  <2>9. ring_counter' \in Slot
    BY <1>2, <2>1 DEF NextSlot, Slot, RingManagerAssumption
  <2>10. Streams'
    BY <1>1, <1>2, <2>1, <2>3, <2>4, <2>9 DEF Streams
  <2> QED
    BY <1>1, <2>8, <2>10 DEF OwnInv, Freeing
<1>4. CASE ~MayInsert
  <2>1. UNCHANGED <<put, new, ring_counter>> /\ Loop' = Loop
    BY <1>1, <1>4 DEF RingInsertion, Loop
  <2>2. Own(Loop, slot_status') /\ slot_status' \in [Slot -> BOOLEAN]
    <3>1. CASE slot_update = <<>>
      BY <1>2, <1>4, <3>1 DEF RingInsertion, Empty
    <3>2. CASE slot_update # <<>>
      <4>1. /\ Head(slot_update) = slot_update[1] /\ slot_update[1].val = FALSE
            /\ Without(Loop, slot_update[1].index)
        BY <3>2 DEF OwnInv, Freeing
      <4>2. slot_update[1].index \in Slot
        <5>1. Head(slot_update) \in AnyUpdate
          BY <1>1, <3>2, HeadTailProperties DEF Streams
        <5> QED
          BY <4>1, <5>1 DEF AnyUpdate
      <4>3. slot_status' = [slot_status EXCEPT ![slot_update[1].index] = FALSE]
        BY <1>4, <3>2, <4>1 DEF RingInsertion, Empty
      <4> QED
        BY <1>2, <4>1, <4>2, <4>3, OwnMark
    <3> QED
      BY <3>1, <3>2
  <2>3. Streams'
    BY <1>1, <2>1, <2>2 DEF Streams
  <2> QED
    BY <1>1, <2>1, <2>2, <2>3 DEF OwnInv, Freeing
<1> QED
  BY <1>3, <1>4

\* A blocking write moves a walk on, not to another place of the loop.
LEMMA WriteLoop ==
  ASSUME Streams, OutWrite
  PROVE  Streams' /\ Loop' = Loop
<1>1. /\ out' = out \o put /\ put' = <<>> /\ Streams
      /\ UNCHANGED <<new, old, slot_status, ring_counter, slot_update, loaded, phase>>
  BY DEF OutWrite, Empty
<1>2. out \o put \in Seq(AnyWalk)
  BY <1>1, ConcatProperties DEF Streams
<1>3. Streams'
  BY <1>1, <1>2 DEF Streams
<1>4. Loop' = (old \o (out \o put)) \o <<>>
  BY <1>1 DEF Loop
<1>5. old \o (out \o put) \in Seq(AnyWalk)
  BY <1>1, <1>2, ConcatProperties DEF Streams
<1>6. Loop' = old \o (out \o put)
  BY <1>4, <1>5, ConcatEmptySeq
<1>7. old \o (out \o put) = (old \o out) \o put
  <2>1. old \in Seq(AnyWalk) /\ out \in Seq(AnyWalk) /\ put \in Seq(AnyWalk)
    BY <1>1 DEF Streams
  <2>2. \A s, t, u \in Seq(AnyWalk) : (s \o t) \o u = s \o (t \o u)
    BY ConcatAssociative
  <2> QED
    BY <2>1, <2>2
<1> QED
  BY <1>3, <1>6, <1>7 DEF Loop

LEMMA WriteOwn == ASSUME RingManagerAssumption, OwnInv, OutWrite PROVE OwnInv'
<1>1. put # <<>> /\ put' = <<>> /\ UNCHANGED <<slot_status, slot_update, phase>>
  BY DEF OutWrite, Empty
<1>2. Streams' /\ Loop' = Loop
  BY WriteLoop DEF OwnInv
<1> QED
  BY <1>1, <1>2 DEF OwnInv, Freeing

\* A step of the pipeline changes one walk of the loop, in its place.
LEMMA StepLoop ==
  ASSUME Streams, step_update
  PROVE  /\ Streams' /\ Len(old') = Len(old) + 1 /\ Len(old) + 1 \in 1..Len(Loop)
         /\ Loop' \in Seq(AnyWalk) /\ Len(Loop') = Len(Loop)
         /\ \A i \in 1..Len(Loop) :
              Loop'[i] = IF i = Len(old) + 1 THEN Stepped(Loop[i]) ELSE Loop[i]
<1> DEFINE w == Stepped(Head(out))
<1>1. /\ out # <<>> /\ old' = Append(old, w) /\ out' = Tail(out) /\ Streams
      /\ UNCHANGED <<new, put, slot_status, ring_counter, slot_update, loaded, phase>>
  BY DEF step_update, Empty
<1>2. Head(out) \in AnyWalk
  BY <1>1, HeadTailProperties DEF Streams
<1>3. w \in AnyWalk
  BY <1>2 DEF Stepped, AnyWalk
<1>4. old' \in Seq(AnyWalk) /\ out' \in Seq(AnyWalk) /\ Len(old') = Len(old) + 1
  BY <1>1, <1>3, HeadTailProperties, AppendProperties DEF Streams
<1>5. Streams'
  BY <1>1, <1>4 DEF Streams
<1> DEFINE a == old \o out
           b == old' \o out'
<1>6. /\ b \in Seq(AnyWalk) /\ Len(b) = Len(a)
      /\ \A i \in 1..Len(a) : b[i] = IF i = Len(old) + 1 THEN w ELSE a[i]
      /\ Len(old) + 1 \in 1..Len(a) /\ a[Len(old) + 1] = Head(out)
  BY <1>1, <1>3, MoveHead DEF Streams
<1>7. /\ a \in Seq(AnyWalk) /\ put \in Seq(AnyWalk) /\ Len(a) \in Nat /\ Len(put) \in Nat
      /\ Len(old) \in Nat
  BY <1>1, LoopType, LenProperties DEF Streams
<1>8. Loop = a \o put /\ Loop' = b \o put
  BY <1>1 DEF Loop
<1> HIDE DEF a, b, w
<1>9. /\ Len(a \o put) = Len(a) + Len(put)
      /\ \A i \in 1..Len(a) + Len(put) :
           (a \o put)[i] = IF i <= Len(a) THEN a[i] ELSE put[i - Len(a)]
  BY <1>7, ConcatProperties
<1>10. /\ b \o put \in Seq(AnyWalk) /\ Len(b \o put) = Len(b) + Len(put)
       /\ \A i \in 1..Len(b) + Len(put) :
            (b \o put)[i] = IF i <= Len(b) THEN b[i] ELSE put[i - Len(b)]
  <2>1. b \in Seq(AnyWalk) /\ put \in Seq(AnyWalk)
    BY <1>6, <1>7
  <2> QED
    BY <2>1, ConcatProperties
<1>11. Len(b \o put) = Len(a \o put)
  BY <1>6, <1>9, <1>10
<1>12. \A i \in 1..Len(a \o put) :
         (b \o put)[i] = IF i = Len(old) + 1 THEN Stepped((a \o put)[i]) ELSE (a \o put)[i]
  <2>1. TAKE i \in 1..Len(a \o put)
  <2>2. i \in 1..Len(a) + Len(put) /\ i \in 1..Len(b) + Len(put) /\ i \in Nat
    BY <1>6, <1>7, <1>9
  <2>3. CASE i <= Len(a)
    <3>1. i \in 1..Len(a) /\ (b \o put)[i] = b[i] /\ (a \o put)[i] = a[i]
      BY <1>6, <1>9, <1>10, <2>2, <2>3
    <3> QED
      BY <1>6, <3>1 DEF w
  <2>4. CASE ~(i <= Len(a))
    <3>1. (b \o put)[i] = put[i - Len(a)] /\ (a \o put)[i] = put[i - Len(a)]
      BY <1>6, <1>9, <1>10, <2>2, <2>4
    <3>2. i # Len(old) + 1
      BY <1>6, <1>7, <2>2, <2>4
    <3> QED
      BY <3>1, <3>2
  <2> QED
    BY <2>3, <2>4
<1>13. Len(old) + 1 \in 1..Len(a \o put)
  BY <1>6, <1>7, <1>9
<1> QED
  BY <1>4, <1>5, <1>8, <1>10, <1>11, <1>12, <1>13

LEMMA StepOwn == ASSUME RingManagerAssumption, OwnInv, step_update PROVE OwnInv'
<1>1. Streams /\ UNCHANGED <<put, slot_status, slot_update, phase>>
  BY DEF OwnInv, step_update
<1>2. /\ Streams' /\ Loop' \in Seq(AnyWalk) /\ Len(Loop') = Len(Loop)
      /\ \A i \in 1..Len(Loop) :
           Loop'[i] = IF i = Len(old) + 1 THEN Stepped(Loop[i]) ELSE Loop[i]
  BY <1>1, StepLoop
<1>3. Loop \in Seq(AnyWalk)
  BY <1>1, LoopType
<1>4. \A i \in 1..Len(Loop) : Loop'[i].slot = Loop[i].slot
  <2>1. TAKE i \in 1..Len(Loop)
  <2>2. Loop[i] \in AnyWalk
    BY <1>3, ElementOfSeq
  <2>3. Stepped(Loop[i]).slot = Loop[i].slot
    BY <2>2 DEF Stepped, AnyWalk
  <2> QED
    BY <1>2, <2>3
<1>5. Own(Loop', slot_status') /\ \A x : Without(Loop, x) => Without(Loop', x)
  BY <1>1, <1>2, <1>3, <1>4, OwnSame DEF OwnInv
<1> QED
  BY <1>1, <1>2, <1>5 DEF OwnInv, Freeing

LEMMA NextOwn == ASSUME RingManagerAssumption, OwnInv, [Next]_vars PROVE OwnInv'
<1>1. CASE Ended \/ UNCHANGED vars
  BY <1>1 DEF Ended, vars, OwnInv, Streams, Freeing, Loop
<1> QED
  BY <1>1, LoaderOwn, OldQueryOwn, InsertionOwn, WriteOwn, StepOwn DEF Next

LEMMA OwnCorrect == ASSUME RingManagerAssumption PROVE Spec => []OwnInv
<1>1. Init => OwnInv
  BY InitOwn
<1>2. OwnInv /\ [Next]_vars => OwnInv'
  BY NextOwn
<1> QED
  BY <1>1, <1>2, PTL DEF Spec

\* OwnSlot: no two walks of the loop have the same slot, and the slot of each is marked,
\* whichever of the two insertions its query came in by.
THEOREM SlotsApart == ASSUME RingManagerAssumption PROVE Spec => []OwnSlot
<1>1. OwnInv => OwnSlot
  <2>1. SUFFICES ASSUME OwnInv PROVE OwnSlot
    OBVIOUS
  <2>2. Loop \in Seq(AnyWalk) /\ Own(Loop, slot_status)
    BY <2>1, LoopType DEF OwnInv
  <2>3. DOMAIN Loop = 1..Len(Loop)
    BY <2>2, LenProperties
  <2> QED
    BY <2>2, <2>3 DEF OwnSlot, InFlight, Own
<1> QED
  BY <1>1, OwnCorrect, PTL

\* NeverBlocked: a FIFO old_query deeper than the ring never fills, so that the loop
\* cannot block on itself (512 and 256 in the build).
THEOREM LoopNeverBlocked ==
  ASSUME RingManagerAssumption, RingSize < OldDepth
  PROVE  Spec => []NeverBlocked
<1>1. OwnInv => NeverBlocked
  <2>1. SUFFICES ASSUME OwnInv PROVE NeverBlocked
    OBVIOUS
  <2>2. Len(old) <= RingSize /\ Len(old) \in Nat /\ RingSize \in Nat /\ OldDepth \in Nat
    BY <2>1, LoopBounded, LenProperties DEF OwnInv, Streams, RingManagerAssumption
  <2> QED
    BY <2>2 DEF NeverBlocked
<1> QED
  BY <1>1, OwnCorrect, PTL

-----------------------------------------------------------------------------
(* Nothing is left: the order of the loop.  What matters of a walk is its    *)
(* query and how often it will still come back to ring_manager with steps    *)
(* left.  The row of these is the same before and after a step of the        *)
(* pipeline, and ring_manager takes from its head and adds at its end.       *)

Turn == [query : 1..Size, due : Int, final : BOOLEAN, last : BOOLEAN]

\* A walk that comes back has its step behind it.
TurnOf(w, back) ==
  [query |-> w.query, due |-> IF back THEN w.left ELSE w.left - 1,
   final |-> w.final, last |-> w.last]

\* The turns of the walks of s, of which the first k come back.
RowOf(s, k) == [i \in 1..Len(s) |-> TurnOf(s[i], i <= k)]

Row == RowOf(Loop, Len(old))

\* The last query is marked, and its last round.  No query is longer than it.
Marked(t) ==
  /\ t.due \in Nat /\ t.due < Length[Size]
  /\ t.final <=> t.query = Size
  /\ t.last <=> t.query = Size /\ t.due = 0

\* Whoever is in front of the last query ends no later, whoever is behind it, earlier.
Ranked(r) ==
  \A i, j \in 1..Len(r) : i < j =>
    /\ r[j].query = Size => r[i].query # Size /\ r[i].due <= r[j].due
    /\ r[i].query = Size => r[j].due < r[i].due

\* The first e queries have entered; those of D have ended, the others are in the row.
Listed(r, e, D) ==
  /\ \A i \in 1..Len(r) : r[i].query <= e
  /\ \A n \in 1..e : n \in D \/ \E i \in 1..Len(r) : r[i].query = n

InOrder(r, e, D) == (\A i \in 1..Len(r) : Marked(r[i])) /\ Ranked(r) /\ Listed(r, e, D)

\* Queries step_loader has written and ring_manager has read.
Entered == loaded - Len(new)

RowInv ==
  /\ \A k \in 1..Len(new) : new[k] = Entered + k
  /\ Entered \in Nat /\ done \subseteq 1..Size
  /\ InOrder(Row, Entered, done)
  /\ LeavesNothing

\* No query is longer than the last one.
NoneLonger == \A n \in 1..Size : Length[n] <= Length[Size]

-----------------------------------------------------------------------------
(* Rows *)

LEMMA RowType ==
  ASSUME NEW s \in Seq(AnyWalk), NEW k \in Nat
  PROVE  /\ RowOf(s, k) \in Seq(Turn) /\ Len(RowOf(s, k)) = Len(s)
         /\ \A i \in 1..Len(s) : RowOf(s, k)[i] = TurnOf(s[i], i <= k)
<1>1. Len(s) \in Nat
  BY LenProperties
<1>2. ASSUME NEW i \in 1..Len(s) PROVE TurnOf(s[i], i <= k) \in Turn
  <2>1. s[i] \in AnyWalk
    BY ElementOfSeq
  <2> QED
    BY <2>1 DEF AnyWalk, Turn, TurnOf
<1> QED
  BY <1>1, <1>2, IsASeq, LenProperties DEF RowOf

LEMMA RowOfTail ==
  ASSUME NEW s \in Seq(AnyWalk), NEW k \in Nat \ {0}, s # <<>>
  PROVE  RowOf(Tail(s), k - 1) = Tail(RowOf(s, k))
<1>1. /\ Tail(s) \in Seq(AnyWalk) /\ Len(Tail(s)) = Len(s) - 1 /\ Len(s) \in Nat \ {0}
      /\ \A i \in 1..Len(Tail(s)) : Tail(s)[i] = s[i + 1]
  BY HeadTailProperties, EmptySeq, LenProperties
<1>2. /\ RowOf(s, k) \in Seq(Turn) /\ Len(RowOf(s, k)) = Len(s)
      /\ \A i \in 1..Len(s) : RowOf(s, k)[i] = TurnOf(s[i], i <= k)
  BY RowType
<1>3. /\ RowOf(Tail(s), k - 1) \in Seq(Turn) /\ Len(RowOf(Tail(s), k - 1)) = Len(Tail(s))
      /\ \A i \in 1..Len(Tail(s)) : RowOf(Tail(s), k - 1)[i] = TurnOf(Tail(s)[i], i <= k - 1)
  <2>1. k - 1 \in Nat
    OBVIOUS
  <2> QED
    BY <1>1, <2>1, RowType
<1>4. RowOf(s, k) # <<>>
  BY <1>1, <1>2, EmptySeq
<1>5. /\ Tail(RowOf(s, k)) \in Seq(Turn) /\ Len(Tail(RowOf(s, k))) = Len(s) - 1
      /\ \A i \in 1..Len(Tail(RowOf(s, k))) : Tail(RowOf(s, k))[i] = RowOf(s, k)[i + 1]
  BY <1>2, <1>4, HeadTailProperties
<1>6. ASSUME NEW i \in 1..(Len(s) - 1)
      PROVE  RowOf(Tail(s), k - 1)[i] = Tail(RowOf(s, k))[i]
  <2>1. i + 1 \in 1..Len(s) /\ (i <= k - 1) = (i + 1 <= k)
    BY <1>1
  <2>2. RowOf(Tail(s), k - 1)[i] = TurnOf(s[i + 1], i <= k - 1)
    BY <1>1, <1>3
  <2>3. Tail(RowOf(s, k))[i] = TurnOf(s[i + 1], i + 1 <= k)
    BY <1>2, <1>5, <2>1
  <2> QED
    BY <2>1, <2>2, <2>3
<1> QED
  BY <1>1, <1>3, <1>5, <1>6, SeqEqual

LEMMA RowOfAppend ==
  ASSUME NEW s \in Seq(AnyWalk), NEW w \in AnyWalk, NEW k \in 0..Len(s)
  PROVE  RowOf(Append(s, w), k) = Append(RowOf(s, k), TurnOf(w, FALSE))
<1>0. k \in Nat
  BY LenProperties
<1>1. /\ Append(s, w) \in Seq(AnyWalk) /\ Len(Append(s, w)) = Len(s) + 1 /\ Len(s) \in Nat
      /\ \A i \in 1..Len(s) : Append(s, w)[i] = s[i]
      /\ Append(s, w)[Len(s) + 1] = w
  BY AppendProperties, LenProperties
<1>2. /\ RowOf(s, k) \in Seq(Turn) /\ Len(RowOf(s, k)) = Len(s)
      /\ \A i \in 1..Len(s) : RowOf(s, k)[i] = TurnOf(s[i], i <= k)
  BY <1>0, RowType
<1>3. /\ RowOf(Append(s, w), k) \in Seq(Turn) /\ Len(RowOf(Append(s, w), k)) = Len(s) + 1
      /\ \A i \in 1..Len(s) + 1 : RowOf(Append(s, w), k)[i] = TurnOf(Append(s, w)[i], i <= k)
  BY <1>0, <1>1, RowType
<1> DEFINE t == TurnOf(w, FALSE)
           q == RowOf(s, k)
<1>4. t \in Turn
  BY DEF AnyWalk, Turn, TurnOf
<1>5. /\ Append(q, t) \in Seq(Turn) /\ Len(Append(q, t)) = Len(s) + 1
      /\ \A i \in 1..Len(s) : Append(q, t)[i] = q[i]
      /\ Append(q, t)[Len(s) + 1] = t
  <2>1. q \in Seq(Turn) /\ Len(q) = Len(s)
    BY <1>2
  <2> HIDE DEF q, t
  <2> QED
    BY <1>4, <2>1, AppendProperties
<1>6. ASSUME NEW i \in 1..Len(s) + 1 PROVE RowOf(Append(s, w), k)[i] = Append(q, t)[i]
  <2>1. CASE i \in 1..Len(s)
    <3>1. RowOf(Append(s, w), k)[i] = TurnOf(Append(s, w)[i], i <= k) /\ Append(s, w)[i] = s[i]
      BY <1>1, <1>3, <2>1
    <3>2. Append(q, t)[i] = q[i] /\ q[i] = TurnOf(s[i], i <= k)
      BY <1>2, <1>5, <2>1
    <3> QED
      BY <3>1, <3>2
  <2>2. CASE i = Len(s) + 1
    <3>1. ~(i <= k)
      BY <1>1, <2>2
    <3>2. TurnOf(Append(s, w)[i], i <= k) = t
      <4>1. Append(s, w)[i] = w
        BY <1>1, <2>2
      <4> QED
        BY <3>1, <4>1 DEF TurnOf
    <3>3. RowOf(Append(s, w), k)[i] = TurnOf(Append(s, w)[i], i <= k)
      BY <1>3
    <3>4. Append(q, t)[i] = t
      BY <1>5, <2>2
    <3> QED
      BY <3>2, <3>3, <3>4
  <2>3. i \in 1..Len(s) \/ i = Len(s) + 1
    BY LenProperties
  <2> QED
    BY <2>1, <2>2, <2>3
<1> QED
  BY <1>3, <1>5, <1>6, SeqEqual

-----------------------------------------------------------------------------
(* What ring_manager does to a row *)

\* The head leaves the row; its query has ended.
LEMMA OrderEnded ==
  ASSUME NEW r \in Seq(Turn), r # <<>>, NEW e \in Nat, NEW D, InOrder(r, e, D)
  PROVE  InOrder(Tail(r), e, D \cup {r[1].query})
<1>1. /\ Len(Tail(r)) = Len(r) - 1 /\ Len(r) \in Nat \ {0}
      /\ \A i \in 1..Len(Tail(r)) : Tail(r)[i] = r[i + 1]
  BY HeadTailProperties, EmptySeq, LenProperties
<1>2. \A i \in 1..Len(Tail(r)) : i + 1 \in 1..Len(r)
  BY <1>1
<1>3. \A i \in 1..Len(Tail(r)) : Marked(Tail(r)[i])
  BY <1>1, <1>2 DEF InOrder
<1>4. Ranked(Tail(r))
  <2>1. \A i, j \in 1..Len(Tail(r)) : i < j => i + 1 < j + 1
    BY <1>1
  <2> QED
    BY <1>1, <1>2, <2>1 DEF InOrder, Ranked
<1>5. Listed(Tail(r), e, D \cup {r[1].query})
  <2>1. \A i \in 1..Len(Tail(r)) : Tail(r)[i].query <= e
    BY <1>1, <1>2 DEF InOrder, Listed
  <2>2. ASSUME NEW n \in 1..e, n \notin D \cup {r[1].query}
        PROVE  \E i \in 1..Len(Tail(r)) : Tail(r)[i].query = n
    <3>1. PICK i \in 1..Len(r) : r[i].query = n
      BY <2>2 DEF InOrder, Listed
    <3>2. i - 1 \in 1..Len(Tail(r)) /\ (i - 1) + 1 = i
      BY <1>1, <2>2, <3>1
    <3> QED
      BY <1>1, <3>1, <3>2
  <2> QED
    BY <2>1, <2>2 DEF Listed
<1> QED
  BY <1>3, <1>4, <1>5 DEF InOrder

\* The next query joins the row.
LEMMA OrderEnter ==
  ASSUME RingManagerAssumption, NoneLonger, NEW r \in Seq(Turn), NEW e \in Nat, NEW D,
         e + 1 <= Size, InOrder(r, e, D),
         NEW t \in Turn, Marked(t), t.query = e + 1, t.due = Length[e + 1] - 1
  PROVE  InOrder(Append(r, t), e + 1, D)
<1>1. /\ Len(Append(r, t)) = Len(r) + 1 /\ Len(r) \in Nat
      /\ \A i \in 1..Len(r) : Append(r, t)[i] = r[i]
      /\ Append(r, t)[Len(r) + 1] = t
  BY AppendProperties, LenProperties
<1>2. /\ \A i \in 1..Len(r) : Marked(r[i]) /\ r[i].query <= e /\ r[i] \in Turn
      /\ \A i \in 1..Len(r) : r[i].query \in Nat /\ r[i].query # Size
  <2>1. \A i \in 1..Len(r) : Marked(r[i]) /\ r[i].query <= e /\ r[i] \in Turn
    BY ElementOfSeq DEF InOrder, Listed
  <2>2. ASSUME NEW i \in 1..Len(r) PROVE r[i].query \in Nat /\ r[i].query # Size
    <3>1. r[i].query \in 1..Size /\ r[i].query <= e
      BY <2>1 DEF Turn
    <3>2. Size \in Nat
      BY DEF RingManagerAssumption
    <3> QED
      BY <3>1, <3>2
  <2> QED
    BY <2>1, <2>2
<1>3. \A i \in 1..Len(Append(r, t)) : Marked(Append(r, t)[i])
  BY <1>1, <1>2
<1>4. Ranked(Append(r, t))
  <2>1. ASSUME NEW i \in 1..Len(r) + 1, NEW j \in 1..Len(r) + 1, i < j
        PROVE  /\ Append(r, t)[j].query = Size =>
                    /\ Append(r, t)[i].query # Size
                    /\ Append(r, t)[i].due <= Append(r, t)[j].due
               /\ Append(r, t)[i].query = Size => Append(r, t)[j].due < Append(r, t)[i].due
    <3>1. i \in 1..Len(r) /\ Append(r, t)[i] = r[i] /\ r[i].query # Size /\ Marked(r[i])
      BY <1>1, <1>2, <2>1
    <3>2. CASE j \in 1..Len(r)
      BY <1>1, <1>2, <3>1, <3>2
    <3>3. CASE j = Len(r) + 1
      <4>1. Append(r, t)[j] = t
        BY <1>1, <3>3
      <4>2. t.query = Size => t.due = Length[Size] - 1
        OBVIOUS
      <4>3. r[i].due <= Length[Size] - 1
        <5>1. Length[Size] \in Nat
          BY DEF RingManagerAssumption
        <5> QED
          BY <3>1, <5>1 DEF Marked
      <4> QED
        BY <3>1, <4>1, <4>2, <4>3
    <3> QED
      BY <1>1, <3>2, <3>3
  <2> QED
    BY <1>1, <2>1 DEF Ranked
<1>5. Listed(Append(r, t), e + 1, D)
  <2>1. \A i \in 1..Len(Append(r, t)) : Append(r, t)[i].query <= e + 1
    <3>1. \A i \in 1..Len(r) : r[i].query <= e + 1
      BY <1>2
    <3> QED
      BY <1>1, <3>1
  <2>2. ASSUME NEW n \in 1..(e + 1), n \notin D
        PROVE  \E i \in 1..Len(Append(r, t)) : Append(r, t)[i].query = n
    <3>1. CASE n = e + 1
      BY <1>1, <3>1
    <3>2. CASE n \in 1..e
      <4>1. PICK i \in 1..Len(r) : r[i].query = n
        BY <2>2, <3>2 DEF InOrder, Listed
      <4> QED
        BY <1>1, <4>1
    <3> QED
      BY <3>1, <3>2
  <2> QED
    BY <2>1, <2>2 DEF Listed
<1> QED
  BY <1>3, <1>4, <1>5 DEF InOrder

\* The head goes round again.
LEMMA OrderAgain ==
  ASSUME NEW r \in Seq(Turn), r # <<>>, NEW e \in Nat, NEW D, InOrder(r, e, D),
         NEW t \in Turn, Marked(t), t.query = r[1].query, t.due = r[1].due - 1
  PROVE  InOrder(Append(Tail(r), t), e, D)
<1>1. /\ Tail(r) \in Seq(Turn) /\ Len(Tail(r)) = Len(r) - 1 /\ Len(r) \in Nat \ {0}
      /\ \A i \in 1..Len(Tail(r)) : Tail(r)[i] = r[i + 1]
  BY HeadTailProperties, EmptySeq, LenProperties
<1> DEFINE q == Append(Tail(r), t)
<1>2. /\ Len(q) = Len(r)
      /\ \A i \in 1..(Len(r) - 1) : q[i] = r[i + 1] /\ i + 1 \in 1..Len(r)
      /\ q[Len(r)] = t
  BY <1>1, AppendProperties
<1>3. \A i \in 1..Len(r) : i \in 1..(Len(r) - 1) \/ i = Len(r)
  <2>1. Len(r) \in Nat
    BY <1>1
  <2> QED
    BY <2>1
<1>4. \A i \in 1..Len(r) : Marked(r[i]) /\ r[i].query <= e
  BY DEF InOrder, Listed
<1>5. 1 \in 1..Len(r)
  BY <1>1
<1> HIDE DEF q
<1>6. \A i \in 1..Len(q) : Marked(q[i]) /\ q[i].query <= e
  <2>1. t.query <= e
    BY <1>4, <1>5
  <2> QED
    BY <1>2, <1>3, <1>4, <2>1
<1>7. Ranked(q)
  <2>1. ASSUME NEW i \in 1..Len(r), NEW j \in 1..Len(r), i < j
        PROVE  /\ q[j].query = Size => q[i].query # Size /\ q[i].due <= q[j].due
               /\ q[i].query = Size => q[j].due < q[i].due
    <3>1. i \in 1..(Len(r) - 1) /\ q[i] = r[i + 1] /\ i + 1 \in 1..Len(r) /\ 1 < i + 1
      BY <1>1, <1>2, <2>1
    <3>2. CASE j \in 1..(Len(r) - 1)
      <4>1. q[j] = r[j + 1] /\ j + 1 \in 1..Len(r) /\ i + 1 < j + 1
        BY <1>1, <1>2, <2>1, <3>2
      <4> QED
        BY <3>1, <4>1 DEF InOrder, Ranked
    <3>3. CASE j = Len(r)
      <4>1. /\ r[i + 1].query = Size => r[1].query # Size /\ r[1].due <= r[i + 1].due
            /\ r[1].query = Size => r[i + 1].due < r[1].due
        BY <1>5, <3>1 DEF InOrder, Ranked
      <4>2. r[1].due \in Nat /\ r[i + 1].due \in Nat
        BY <1>4, <1>5, <3>1 DEF Marked
      <4>3. q[j].query = r[1].query /\ q[j].due = r[1].due - 1
        BY <1>2, <3>3
      <4>4. r[1].query = Size => r[i + 1].query # Size
        BY <4>1
      <4> QED
        BY <3>1, <4>1, <4>2, <4>3, <4>4
    <3> QED
      BY <1>3, <3>2, <3>3
  <2> QED
    BY <1>2, <2>1 DEF Ranked
<1>8. ASSUME NEW n \in 1..e, n \notin D
      PROVE  \E i \in 1..Len(q) : q[i].query = n
  <2>1. PICK i \in 1..Len(r) : r[i].query = n
    BY <1>8 DEF InOrder, Listed
  <2>2. CASE i = 1
    <3>1. q[Len(r)].query = n /\ Len(r) \in 1..Len(q)
      BY <1>1, <1>2, <2>1, <2>2
    <3> QED
      BY <3>1
  <2>3. CASE i # 1
    <3>1. i - 1 \in 1..(Len(r) - 1) /\ (i - 1) + 1 = i /\ i - 1 \in 1..Len(r)
      BY <1>1, <2>3
    <3>2. q[i - 1].query = n
      BY <1>2, <2>1, <3>1
    <3> QED
      BY <1>2, <3>1, <3>2
  <2> QED
    BY <2>2, <2>3
<1>9. Listed(q, e, D)
  BY <1>6, <1>8 DEF Listed
<1>10. InOrder(q, e, D)
  BY <1>6, <1>7, <1>9 DEF InOrder
<1> QED
  BY <1>10 DEF q

\* The last query ends in its last round, and when it ends the row is otherwise empty.
LEMMA OrderOver ==
  ASSUME RingManagerAssumption, NEW r \in Seq(Turn), r # <<>>, NEW e \in 0..Size, NEW D,
         D \subseteq 1..Size, InOrder(r, e, D), r[1].last
  PROVE  D \cup {r[1].query} = 1..Size
<1>1. Len(r) \in Nat \ {0} /\ 1 \in 1..Len(r) /\ Size \in Nat \ {0}
  BY EmptySeq, LenProperties DEF RingManagerAssumption
<1>2. \A i \in 1..Len(r) : Marked(r[i]) /\ r[i].query <= e
  BY DEF InOrder, Listed
<1>3. r[1].query = Size /\ r[1].due = 0 /\ e = Size
  <2>1. Marked(r[1]) /\ r[1].query <= e
    BY <1>1, <1>2
  <2>2. r[1].query = Size /\ r[1].due = 0
    BY <2>1 DEF Marked
  <2> QED
    BY <1>1, <2>1, <2>2
<1>4. ASSUME NEW i \in 1..Len(r), i # 1 PROVE FALSE
  <2>1. r[i].due < r[1].due
    BY <1>1, <1>3, <1>4 DEF InOrder, Ranked
  <2>2. r[i].due \in Nat
    BY <1>2 DEF Marked
  <2> QED
    BY <1>3, <2>1, <2>2
<1>5. \A n \in 1..Size : n \in D \/ n = Size
  <2>1. \A n \in 1..Size : n \in D \/ \E i \in 1..Len(r) : r[i].query = n
    BY <1>3 DEF InOrder, Listed
  <2> QED
    BY <1>3, <1>4, <2>1
<1>6. Size \in 1..Size
  BY <1>1
<1> QED
  BY <1>3, <1>5, <1>6

-----------------------------------------------------------------------------
(* Each step *)

LEMMA EnterTurn ==
  ASSUME RingManagerAssumption, NoneLonger, NEW n \in 1..Size, NEW s \in Slot
  PROVE  LET t == TurnOf(Enter(n, s), FALSE)
         IN  t \in Turn /\ Marked(t) /\ t.query = n /\ t.due = Length[n] - 1
<1> DEFINE t == TurnOf(Enter(n, s), FALSE)
<1>1. /\ Length[n] \in Nat \ {0} /\ Length[Size] \in Nat /\ Length[Size] > 1
      /\ Length[n] <= Length[Size]
  BY DEF RingManagerAssumption, NoneLonger
<1>2. /\ t.query = n /\ t.due = Length[n] - 1 /\ t.last = FALSE
      /\ t.final = (n = Size)
  BY DEF TurnOf, Enter
<1>3. t \in Turn
  <2>1. Length[n] - 1 \in Int /\ (n = Size) \in BOOLEAN
    BY <1>1
  <2> QED
    BY <2>1 DEF Turn, TurnOf, Enter
<1> HIDE DEF t
<1>4. t.due \in Nat /\ t.due < Length[Size]
  BY <1>1, <1>2
<1>5. ~(n = Size /\ t.due = 0)
  BY <1>1, <1>2
<1>6. (t.final <=> n = Size) /\ ~t.last
  BY <1>2
<1>7. Marked(t)
  BY <1>2, <1>4, <1>5, <1>6 DEF Marked
<1> QED
  BY <1>2, <1>3, <1>7 DEF t

\* The query that enters next is the one after those that have entered.
LEMMA NextQuery ==
  ASSUME RingManagerAssumption, Streams, RowInv, new # <<>>
  PROVE  /\ Head(new) = Entered + 1 /\ Entered + 1 \in 1..Size
         /\ (new' = Tail(new) /\ loaded' = loaded) =>
              /\ Entered' = Entered + 1
              /\ \A k \in 1..Len(new') : new'[k] = Entered' + k
<1>1. /\ Len(new) \in Nat \ {0} /\ Head(new) = new[1] /\ Head(new) \in 1..Size
      /\ Len(Tail(new)) = Len(new) - 1
      /\ \A k \in 1..Len(Tail(new)) : Tail(new)[k] = new[k + 1]
  <2>1. new \in Seq(1..Size)
    BY DEF Streams
  <2>2. Len(new) \in Nat \ {0}
    BY <2>1, EmptySeq, LenProperties
  <2>3. /\ Head(new) \in 1..Size /\ Len(Tail(new)) = Len(new) - 1
        /\ \A k \in 1..Len(Tail(new)) : Tail(new)[k] = new[k + 1]
    BY <2>1, HeadTailProperties
  <2> QED
    BY <2>1, <2>2, <2>3
<1>2. loaded \in Nat /\ Entered \in Nat
  BY DEF RingManagerAssumption, Streams, RowInv
<1>3. new[1] = Entered + 1
  BY <1>1 DEF RowInv
<1>4. ASSUME new' = Tail(new), loaded' = loaded
      PROVE  /\ Entered' = Entered + 1
             /\ \A k \in 1..Len(new') : new'[k] = Entered' + k
  <2>1. Entered' = Entered + 1
    BY <1>1, <1>2, <1>4 DEF Entered
  <2>2. ASSUME NEW k \in 1..Len(new') PROVE new'[k] = Entered' + k
    <3>1. k + 1 \in 1..Len(new) /\ new'[k] = new[k + 1]
      BY <1>1, <1>4
    <3>2. new[k + 1] = Entered + (k + 1)
      BY <3>1 DEF RowInv
    <3> QED
      BY <1>2, <2>1, <3>1, <3>2
  <2> QED
    BY <2>1, <2>2
<1> QED
  BY <1>1, <1>3, <1>4

\* Moves that leave the row alone.
LEMMA RowSame ==
  ASSUME RowInv, Row' = Row, UNCHANGED <<new, loaded, done>>,
         phase' = phase \/ phase' \in {"old", "insert"}
  PROVE  RowInv'
BY DEF RowInv, Entered, LeavesNothing

LEMMA InitRow == ASSUME RingManagerAssumption, Init PROVE RowInv
<1>1. Streams
  BY InitOwn DEF OwnInv
<1>2. Loop = <<>>
  BY <1>1, LoopType, ConcatEmptySeq DEF Init, Streams
<1>3. Len(Row) = 0 /\ Len(new) = 0 /\ loaded = 0
  <2>1. Loop \in Seq(AnyWalk) /\ Len(Loop) = 0 /\ Len(old) \in Nat
    BY <1>1, <1>2, LoopType, LenProperties DEF Streams
  <2>2. Len(new) = 0 /\ loaded = 0
    BY DEF Init
  <2> QED
    BY <2>1, <2>2, RowType DEF Row
<1>4. Entered = 0
  BY <1>3 DEF Entered
<1>5. InOrder(Row, 0, done)
  BY <1>3 DEF InOrder, Ranked, Listed
<1> QED
  BY <1>3, <1>4, <1>5 DEF RowInv, LeavesNothing, Init

LEMMA LoaderRow ==
  ASSUME RingManagerAssumption, OwnInv, RowInv, step_loader PROVE RowInv'
<1>1. /\ loaded' = loaded + 1 /\ new' = Append(new, loaded + 1)
      /\ UNCHANGED <<old, done, phase>>
      /\ Row' = Row /\ Streams
  BY DEF step_loader, Row, Loop, OwnInv
<1>2. /\ loaded \in Nat /\ loaded + 1 \in 1..Size /\ Len(new) \in Nat /\ new \in Seq(1..Size)
  BY <1>1, LenProperties DEF RingManagerAssumption, Streams, step_loader
<1>3. /\ Len(new') = Len(new) + 1
      /\ \A k \in 1..Len(new) : new'[k] = new[k]
      /\ new'[Len(new) + 1] = loaded + 1
  BY <1>1, <1>2, AppendProperties
<1>4. Entered' = Entered /\ Entered \in Nat
  BY <1>1, <1>2, <1>3 DEF Entered, RowInv
<1>5. ASSUME NEW k \in 1..Len(new') PROVE new'[k] = Entered' + k
  <2>1. CASE k \in 1..Len(new)
    BY <1>3, <1>4, <2>1 DEF RowInv
  <2>2. CASE k = Len(new) + 1
    BY <1>2, <1>3, <1>4, <2>2 DEF Entered
  <2> QED
    BY <1>2, <1>3, <2>1, <2>2
<1> QED
  BY <1>1, <1>4, <1>5 DEF RowInv, LeavesNothing

LEMMA WriteRow ==
  ASSUME RingManagerAssumption, OwnInv, RowInv, OutWrite PROVE RowInv'
<1>1. Loop' = Loop
  BY WriteLoop DEF OwnInv
<1>2. Row' = Row
  BY <1>1 DEF Row, OutWrite
<1> QED
  BY <1>2, RowSame DEF OutWrite

\* A step is one round less for the walk that comes back.
LEMMA StepRow ==
  ASSUME RingManagerAssumption, OwnInv, RowInv, step_update PROVE RowInv'
<1>1. Streams /\ Loop \in Seq(AnyWalk) /\ Len(old) \in Nat /\ Len(Loop) \in Nat
  BY LoopType, LenProperties DEF OwnInv, Streams
<1>2. /\ Len(old') = Len(old) + 1 /\ Loop' \in Seq(AnyWalk) /\ Len(Loop') = Len(Loop)
      /\ \A i \in 1..Len(Loop) :
           Loop'[i] = IF i = Len(old) + 1 THEN Stepped(Loop[i]) ELSE Loop[i]
  BY <1>1, StepLoop
<1>3. ASSUME NEW i \in 1..Len(Loop)
      PROVE  TurnOf(Loop'[i], i <= Len(old')) = TurnOf(Loop[i], i <= Len(old))
  <2>1. Loop[i] \in AnyWalk
    BY <1>1, ElementOfSeq
  <2>2. CASE i = Len(old) + 1
    <3>1. i <= Len(old') /\ ~(i <= Len(old)) /\ Loop'[i] = Stepped(Loop[i])
      BY <1>1, <1>2, <2>2
    <3>2. TurnOf(Stepped(Loop[i]), TRUE) = TurnOf(Loop[i], FALSE)
      BY <2>1 DEF TurnOf, Stepped, AnyWalk
    <3> QED
      BY <3>1, <3>2 DEF TurnOf
  <2>3. CASE i # Len(old) + 1
    <3>1. (i <= Len(old')) <=> (i <= Len(old))
      BY <1>1, <1>2, <2>3
    <3>2. Loop'[i] = Loop[i]
      BY <1>2, <2>3
    <3> QED
      BY <3>1, <3>2 DEF TurnOf
  <2> QED
    BY <2>2, <2>3
<1>4. Row' = Row
  BY <1>2, <1>3 DEF Row, RowOf
<1> QED
  BY <1>4, RowSame DEF step_update

\* ring_manager takes the head of the loop and may add a walk at its end.
LEMMA OldRowMoves ==
  ASSUME Streams, put = <<>>, old # <<>>, old' = Tail(old), out' = out
  PROVE  /\ Row \in Seq(Turn) /\ Row # <<>> /\ Row[1] = TurnOf(Head(old), TRUE)
         /\ put' = <<>> => Row' = Tail(Row)
         /\ \A v \in AnyWalk : put' = <<v>> => Row' = Append(Tail(Row), TurnOf(v, FALSE))
<1>1. /\ Loop = old \o out /\ Loop \in Seq(AnyWalk)
  BY LoopType DEF Streams
<1>2. /\ Tail(Loop) = Tail(old) \o out /\ Loop # <<>> /\ Loop[1] = Head(old)
      /\ Tail(Loop) \in Seq(AnyWalk)
  BY <1>1, TailConcat DEF Streams
<1>3. /\ Len(old) \in Nat \ {0} /\ Len(Tail(old)) = Len(old) - 1 /\ Len(out) \in Nat
      /\ Tail(old) \in Seq(AnyWalk)
  BY HeadTailProperties, EmptySeq, LenProperties DEF Streams
<1>4. /\ Len(Loop) = Len(old) + Len(out) /\ Len(Tail(Loop)) = Len(Loop) - 1
  BY <1>1, <1>2, ConcatProperties, HeadTailProperties DEF Streams
<1>5. Len(old) - 1 \in 0..Len(Tail(Loop)) /\ 1 <= Len(old) /\ 1 \in 1..Len(Loop)
  BY <1>3, <1>4
<1>6. /\ Row \in Seq(Turn) /\ Len(Row) = Len(Loop) /\ Row[1] = TurnOf(Loop[1], 1 <= Len(old))
  BY <1>1, <1>3, <1>5, RowType DEF Row
<1>7. Row # <<>> /\ Row[1] = TurnOf(Head(old), TRUE)
  <2>1. Row # <<>>
    BY <1>3, <1>4, <1>6, EmptySeq
  <2>2. Row[1] = TurnOf(Head(old), TRUE)
    BY <1>2, <1>5, <1>6 DEF TurnOf
  <2> QED
    BY <2>1, <2>2
<1>8. RowOf(Tail(Loop), Len(old) - 1) = Tail(Row)
  BY <1>1, <1>2, <1>3, RowOfTail DEF Row
<1>9. Loop' = Tail(Loop) \o put' /\ Len(old') = Len(old) - 1
  BY <1>2, <1>3 DEF Loop
<1>10. ASSUME put' = <<>> PROVE Row' = Tail(Row)
  <2>1. Loop' = Tail(Loop)
    BY <1>2, <1>9, <1>10, ConcatEmptySeq
  <2> QED
    BY <1>8, <1>9, <2>1 DEF Row
<1>11. ASSUME NEW v \in AnyWalk, put' = <<v>> PROVE Row' = Append(Tail(Row), TurnOf(v, FALSE))
  <2>1. Loop' = Append(Tail(Loop), v)
    BY <1>2, <1>9, <1>11, AppendIsConcat
  <2>2. RowOf(Append(Tail(Loop), v), Len(old) - 1)
          = Append(RowOf(Tail(Loop), Len(old) - 1), TurnOf(v, FALSE))
    BY <1>2, <1>5, RowOfAppend
  <2> QED
    BY <1>8, <1>9, <2>1, <2>2 DEF Row
<1> QED
  BY <1>6, <1>7, <1>10, <1>11

LEMMA OldQueryRow ==
  ASSUME RingManagerAssumption, NoneLonger, OwnInv, RowInv, OldQuery
  PROVE  RowInv'
<1>1. /\ phase = "old" /\ put = <<>> /\ Streams /\ UNCHANGED <<out, loaded>>
  BY DEF OldQuery, Empty, OwnInv
<1>2. CASE old = <<>>
  <2>1. UNCHANGED <<old, new, put, done>> /\ phase' = "insert"
    BY <1>2 DEF OldQuery, OldGoesOn, OldIsLast, OldEnded, Empty
  <2>2. Row' = Row
    BY <1>1, <2>1 DEF Row, Loop
  <2> QED
    BY <1>1, <2>1, <2>2, RowSame
<1>3. CASE old # <<>>
  <2> DEFINE w == Head(old)
             ended == done \cup {Row[1].query}
  <2>1. old' = Tail(old)
    BY <1>3 DEF OldQuery, Empty
  <2>2. /\ Row \in Seq(Turn) /\ Row # <<>> /\ Row[1] = TurnOf(w, TRUE)
        /\ put' = <<>> => Row' = Tail(Row)
        /\ \A v \in AnyWalk : put' = <<v>> => Row' = Append(Tail(Row), TurnOf(v, FALSE))
    BY <1>1, <1>3, <2>1, OldRowMoves
  <2>3. w \in AnyWalk
    BY <1>1, <1>3, HeadTailProperties DEF Streams
  <2>4. /\ Row[1].query = w.query /\ Row[1].due = w.left
        /\ Row[1].last = w.last /\ Row[1].final = w.final
    BY <2>2 DEF TurnOf
  <2>5. Marked(Row[1])
    <3>1. 1 \in 1..Len(Row)
      BY <2>2, EmptySeq, LenProperties
    <3> QED
      BY <3>1 DEF RowInv, InOrder
  <2>6. /\ Entered \in 0..Size /\ Entered \in Nat
        /\ InOrder(Row, Entered, done) /\ done \subseteq 1..Size
    <3>1. Entered \in Nat /\ loaded \in 0..Size /\ Len(new) \in Nat /\ Size \in Nat
      BY <1>1, LenProperties DEF RowInv, Streams, RingManagerAssumption
    <3> QED
      BY <3>1 DEF RowInv, Entered
  <2>7. w.query \in 1..Size
    BY <2>3 DEF AnyWalk
  <2>8. InOrder(Tail(Row), Entered, ended) /\ ended \subseteq 1..Size
    BY <2>2, <2>4, <2>6, <2>7, OrderEnded
  <2>9. CASE OldGoesOn
    <3> DEFINE v == Forward(w)
               t == TurnOf(v, FALSE)
    <3>1. /\ put' = <<v>> /\ UNCHANGED <<new, done>> /\ phase' = "insert" /\ w.left # 0
      BY <2>9 DEF OldGoesOn
    <3>2. v \in AnyWalk /\ t \in Turn
      <4>1. (w.left = 1 /\ w.final) \in BOOLEAN
        OBVIOUS
      <4>2. v \in AnyWalk
        BY <2>3, <4>1 DEF Forward, AnyWalk
      <4> HIDE DEF v
      <4> QED
        BY <4>2 DEF AnyWalk, TurnOf, Turn
    <3>3. /\ t.query = w.query /\ t.due = w.left - 1 /\ t.final = w.final
          /\ t.last <=> w.left = 1 /\ w.final
      BY <2>3 DEF Forward, AnyWalk, TurnOf
    <3>4. Marked(t)
      <4>1. w.left \in Nat /\ w.left < Length[Size] /\ (w.final <=> w.query = Size)
        BY <2>4, <2>5 DEF Marked
      <4>2. w.left - 1 \in Nat /\ w.left - 1 < Length[Size] /\ (w.left = 1 <=> w.left - 1 = 0)
        BY <3>1, <4>1 DEF RingManagerAssumption
      <4> QED
        BY <3>3, <4>1, <4>2 DEF Marked
    <3> HIDE DEF v, t
    <3>5. InOrder(Append(Tail(Row), t), Entered, done)
      BY <2>2, <2>4, <2>6, <3>2, <3>3, <3>4, OrderAgain
    <3>6. Row' = Append(Tail(Row), t)
      BY <2>2, <3>1, <3>2 DEF t
    <3> QED
      BY <1>1, <3>1, <3>5, <3>6 DEF RowInv, Entered, LeavesNothing
  <2>10. CASE OldIsLast
    <3>1. /\ w.last /\ UNCHANGED <<new, put>> /\ done' = done \cup {w.query} /\ phase' = "ended"
      BY <2>10 DEF OldIsLast
    <3>2. Row' = Tail(Row) /\ done' = ended
      BY <1>1, <2>2, <2>4, <3>1
    <3>3. ended = 1..Size
      BY <2>2, <2>4, <2>6, <3>1, OrderOver
    <3>4. InOrder(Row', Entered, done')
      BY <2>8, <3>2
    <3> QED
      BY <1>1, <3>1, <3>2, <3>3, <3>4 DEF RowInv, Entered, LeavesNothing
  <2>11. CASE OldEnded
    <3>1. done' = ended /\ phase' = "insert"
      BY <2>4, <2>11 DEF OldEnded
    <3>2. CASE /\ new # <<>> /\ put' = <<Enter(Head(new), w.slot)>> /\ new' = Tail(new)
      <4> DEFINE t == TurnOf(Enter(Head(new), w.slot), FALSE)
      <4>1. /\ Head(new) = Entered + 1 /\ Entered + 1 \in 1..Size /\ Entered' = Entered + 1
            /\ \A k \in 1..Len(new') : new'[k] = Entered' + k
        BY <1>1, <3>2, NextQuery
      <4>2. w.slot \in Slot
        BY <2>3 DEF AnyWalk
      <4>3. /\ t \in Turn /\ Marked(t) /\ t.query = Entered + 1
            /\ t.due = Length[Entered + 1] - 1
        BY <4>1, <4>2, EnterTurn
      <4>4. Enter(Head(new), w.slot) \in AnyWalk
        BY <4>1, <4>2, EnterType
      <4>5. Row' = Append(Tail(Row), t)
        BY <2>2, <3>2, <4>4
      <4> HIDE DEF t
      <4>6. Tail(Row) \in Seq(Turn)
        BY <2>2, HeadTailProperties
      <4>7. InOrder(Append(Tail(Row), t), Entered + 1, ended)
        <5>1. Entered \in Nat /\ Entered + 1 <= Size
          BY <2>6, <4>1 DEF RingManagerAssumption
        <5> QED
          BY <2>8, <4>3, <4>6, <5>1, OrderEnter
      <4>8. Entered' \in Nat
        BY <2>6, <4>1
      <4> QED
        BY <2>8, <3>1, <4>1, <4>5, <4>7, <4>8 DEF RowInv, LeavesNothing
    <3>3. CASE UNCHANGED <<new, put>>
      <4>1. Row' = Tail(Row)
        BY <1>1, <2>2, <3>3
      <4> QED
        BY <1>1, <2>8, <3>1, <3>3, <4>1 DEF RowInv, Entered, LeavesNothing
    <3> QED
      BY <2>11, <3>2, <3>3 DEF OldEnded, Empty
  <2> QED
    BY <1>3, <2>9, <2>10, <2>11 DEF OldQuery, Empty
<1> QED
  BY <1>2, <1>3

LEMMA InsertionRow ==
  ASSUME RingManagerAssumption, NoneLonger, OwnInv, RowInv, RingInsertion
  PROVE  RowInv'
<1>1. /\ put = <<>> /\ Streams /\ phase' = "old" /\ UNCHANGED <<old, out, loaded, done>>
  BY DEF RingInsertion, Empty, OwnInv
<1>2. CASE ~MayInsert
  <2>1. UNCHANGED <<put, new>> /\ Row' = Row
    BY <1>1, <1>2 DEF RingInsertion, Row, Loop
  <2> QED
    BY <1>1, <2>1, RowSame
<1>3. CASE MayInsert
  <2> DEFINE v == Enter(Head(new), ring_counter)
             t == TurnOf(v, FALSE)
  <2>1. put' = <<v>> /\ new' = Tail(new) /\ new # <<>>
    BY <1>3 DEF RingInsertion, MayInsert, Empty
  <2>2. /\ Head(new) = Entered + 1 /\ Entered + 1 \in 1..Size /\ Entered' = Entered + 1
        /\ \A k \in 1..Len(new') : new'[k] = Entered' + k
    BY <1>1, <2>1, NextQuery
  <2>3. ring_counter \in Slot /\ Entered \in Nat /\ Entered + 1 <= Size
    BY <1>1, <2>2 DEF Streams, RowInv, RingManagerAssumption
  <2>4. /\ t \in Turn /\ Marked(t) /\ t.query = Entered + 1 /\ t.due = Length[Entered + 1] - 1
        /\ v \in AnyWalk
    <3>1. t \in Turn /\ Marked(t) /\ t.query = Entered + 1 /\ t.due = Length[Entered + 1] - 1
      BY <2>2, <2>3, EnterTurn
    <3>2. v \in AnyWalk
      BY <2>2, <2>3, EnterType
    <3> QED
      BY <3>1, <3>2
  <2>5. Loop = old \o out /\ Loop \in Seq(AnyWalk) /\ Loop' = Append(Loop, v)
    <3>1. Loop = old \o out /\ Loop \in Seq(AnyWalk)
      BY <1>1, LoopType
    <3>2. Loop' = Loop \o <<v>>
      BY <1>1, <2>1, <3>1 DEF Loop
    <3> QED
      BY <2>4, <3>1, <3>2, AppendIsConcat
  <2>6. Len(old) \in 0..Len(Loop)
    BY <1>1, <2>5, ConcatProperties, LenProperties DEF Streams
  <2>7. Row \in Seq(Turn) /\ Row' = Append(Row, t)
    <3>1. RowOf(Append(Loop, v), Len(old)) = Append(RowOf(Loop, Len(old)), TurnOf(v, FALSE))
      BY <2>4, <2>5, <2>6, RowOfAppend
    <3>2. Len(old) \in Nat
      BY <1>1, LenProperties DEF Streams
    <3> QED
      BY <1>1, <2>5, <3>1, <3>2, RowType DEF Row
  <2> HIDE DEF t, v
  <2>8. InOrder(Append(Row, t), Entered + 1, done)
    BY <2>3, <2>4, <2>7, OrderEnter DEF RowInv
  <2>9. Entered' \in Nat
    BY <2>2, <2>3
  <2> QED
    BY <1>1, <2>2, <2>7, <2>8, <2>9 DEF RowInv, LeavesNothing
<1> QED
  BY <1>2, <1>3

LEMMA NextRow ==
  ASSUME RingManagerAssumption, NoneLonger, OwnInv, RowInv, [Next]_vars PROVE RowInv'
<1>1. CASE Ended \/ UNCHANGED vars
  <2>1. UNCHANGED <<old, out, put, new, loaded, done, phase>>
    BY <1>1 DEF Ended, vars
  <2>2. Row' = Row
    BY <2>1 DEF Row, Loop
  <2> QED
    BY <2>1, <2>2, RowSame
<1> QED
  BY <1>1, LoaderRow, OldQueryRow, InsertionRow, WriteRow, StepRow DEF Next

\* LeavesNothing: when ring_manager returns, which it does after the walk of the query
\* that was loaded last, every query has been walked to its end, if none is longer than
\* the last one (in the build all have the same length).
THEOREM NothingLeft ==
  ASSUME RingManagerAssumption, NoneLonger
  PROVE  Spec => []LeavesNothing
<1>1. Init => OwnInv /\ RowInv
  BY InitOwn, InitRow
<1>2. OwnInv /\ RowInv /\ [Next]_vars => (OwnInv /\ RowInv)'
  BY NextOwn, NextRow
<1>3. RowInv => LeavesNothing
  BY DEF RowInv
<1> QED
  BY <1>1, <1>2, <1>3, PTL DEF Spec

-----------------------------------------------------------------------------
\* The messages that may be made of older counts: those in the FIFO of sums,
\* the one debug_dump works on, and one for each place in a lane's FIFO.
Stale == StateDepth + 1 + CntDepth

\* The number of the message that position i of lane l's FIFO will be part of,
\* when m messages have been read.
MessageOf(m, l, i) == m + Len(state) + (IF l <= Len(dump) THEN 1 ELSE 0) + i

Fresh(m) ==
  /\ \A i \in 1..Len(state) : m + i > Stale => state[i] = Count!Total
  /\ \A l \in 1..Len(dump) : m + Len(state) + 1 > Stale => dump[l] = count[l]
  /\ \A l \in Count!Lane : \A i \in 1..Len(cnt[l]) :
       MessageOf(m, l, i) > Stale => cnt[l][i] = count[l]

Types ==
  /\ count \in [Count!Lane -> Nat]
  /\ cnt \in [Count!Lane -> Seq(Nat)] /\ \A l \in Count!Lane : Len(cnt[l]) <= CntDepth
  /\ dump \in Seq(Nat) /\ Len(dump) <= Lanes
  /\ (\E S : state \in Seq(S)) /\ Len(state) <= StateDepth
  /\ counter \in Nat

\* counter restarts after a comparison, the number of messages does not.
Counting == quiet /\ running => \E m \in Nat : counter <= m /\ Fresh(m)

IInv == Types /\ Counting /\ FinalCount

-----------------------------------------------------------------------------
LEMMA Constants ==
  ASSUME Count!StepCountAssumption
  PROVE  /\ Lanes \in Nat \ {0} /\ CntDepth \in Nat \ {0} /\ StateDepth \in Nat \ {0}
         /\ OuterCounter \in Nat /\ OuterCounter - 1 > Stale /\ Stale \in Nat
BY DEF Count!StepCountAssumption, Stale

LEMMA InitInv == ASSUME Count!StepCountAssumption, Count!Init PROVE IInv
<1>1. Types
  <2>1. state \in Seq({}) /\ dump \in Seq(Nat) /\ Len(state) = 0 /\ Len(dump) = 0
    BY DEF Count!Init
  <2>2. cnt \in [Count!Lane -> Seq(Nat)] /\ \A l \in Count!Lane : Len(cnt[l]) = 0
    BY DEF Count!Init
  <2> QED
    BY <2>1, <2>2, Constants DEF Count!Init, Types
<1> QED
  BY <1>1 DEF Count!Init, IInv, Counting, FinalCount, Count!FinalCount

\* A queue that loses its head.
LEMMA Behead ==
  ASSUME NEW S, NEW q \in Seq(S), q # <<>>
  PROVE  /\ Head(q) = q[1] /\ Head(q) \in S /\ Len(q) \in Nat \ {0}
         /\ Tail(q) \in Seq(S) /\ Len(Tail(q)) = Len(q) - 1
         /\ \A i \in 1..Len(Tail(q)) : i + 1 \in 1..Len(q) /\ Tail(q)[i] = q[i + 1]
OBVIOUS

\* A queue that gets an element.
LEMMA Enqueue ==
  ASSUME NEW S, NEW q \in Seq(S), NEW x
  PROVE  /\ Append(q, x) \in Seq(S \cup {x}) /\ Len(q) \in Nat
         /\ Len(Append(q, x)) = Len(q) + 1 /\ Append(q, x)[Len(q) + 1] = x
         /\ \A i \in 1..Len(q) : Append(q, x)[i] = q[i]
<1>1. q \in Seq(S \cup {x})
  OBVIOUS
<1> QED
  BY <1>1

\* What Counting says of a state in which query_statistic runs and nothing moves.
LEMMA Keep ==
  ASSUME Counting, running' = running, quiet' = quiet, counter' = counter,
         \A m \in Nat : Fresh(m) => Fresh(m)'
  PROVE  Counting'
BY DEF Counting

LEMMA KeepFinal ==
  ASSUME FinalCount, UNCHANGED <<running, runs, quiet, mem, count>>
  PROVE  FinalCount'
BY DEF FinalCount, Count!FinalCount, Count!Total

-----------------------------------------------------------------------------
LEMMA CountWalkInv ==
  ASSUME Count!StepCountAssumption, IInv, NEW l \in Count!Lane, Count!CountWalk(l) PROVE IInv'
<1>1. Types'
  BY DEF IInv, Types, Count!CountWalk, Count!statVars
<1> QED
  BY <1>1 DEF IInv, Counting, FinalCount, Count!FinalCount, Count!CountWalk

LEMMA OfferCountInv ==
  ASSUME Count!StepCountAssumption, IInv, NEW l \in Count!Lane, Count!OfferCount(l) PROVE IInv'
<1>1. /\ cnt' = [cnt EXCEPT ![l] = Count!Offered(cnt[l], count[l])] /\ Types
      /\ UNCHANGED <<count, dump, state, running, counter, last_data, mem, runs, quiet>>
  BY DEF Count!OfferCount, IInv, Count!statVars
<1>2. cnt[l] \in Seq(Nat) /\ count[l] \in Nat /\ Len(cnt[l]) <= CntDepth /\ Len(cnt[l]) \in Nat
  BY <1>1 DEF Types
<1>3. /\ Count!Offered(cnt[l], count[l]) \in Seq(Nat)
      /\ Len(Count!Offered(cnt[l], count[l])) <= CntDepth
      /\ \A i \in 1..Len(Count!Offered(cnt[l], count[l])) :
           \/ i \in 1..Len(cnt[l]) /\ Count!Offered(cnt[l], count[l])[i] = cnt[l][i]
           \/ Count!Offered(cnt[l], count[l])[i] = count[l]
  BY <1>2, Constants DEF Count!Offered
<1>4. \A k \in Count!Lane : cnt'[k] = IF k = l THEN Count!Offered(cnt[l], count[l]) ELSE cnt[k]
  BY <1>1 DEF Types
<1>5. Types'
  BY <1>1, <1>3, <1>4 DEF Types
<1>6. ASSUME NEW m \in Nat, Fresh(m) PROVE Fresh(m)'
  BY <1>1, <1>3, <1>4, <1>6 DEF Fresh, MessageOf, Count!Total
<1> QED
  BY <1>1, <1>5, <1>6, Keep, KeepFinal DEF IInv

\* A count moves from a lane's FIFO to the sum that debug_dump works on.
LEMMA DumpReadInv == ASSUME Count!StepCountAssumption, IInv, Count!DumpRead PROVE IInv'
<1> DEFINE l == Len(dump) + 1
<1>1. /\ l \in Count!Lane /\ cnt[l] # <<>> /\ Types
      /\ dump' = Append(dump, Head(cnt[l])) /\ cnt' = [cnt EXCEPT ![l] = Tail(cnt[l])]
      /\ UNCHANGED <<count, writing, state, running, counter, last_data, mem, runs, quiet>>
  BY DEF Count!DumpRead, IInv, Count!laneVars, Count!statVars, Count!Empty
<1>2. /\ cnt[l] \in Seq(Nat) /\ dump \in Seq(Nat) /\ Len(dump) \in Nat /\ Len(state) \in Nat
      /\ \A k \in Count!Lane : cnt'[k] = IF k = l THEN Tail(cnt[l]) ELSE cnt[k]
  BY <1>1 DEF Types
<1>3. /\ Head(cnt[l]) = cnt[l][1] /\ Head(cnt[l]) \in Nat /\ Len(cnt[l]) \in Nat \ {0}
      /\ Tail(cnt[l]) \in Seq(Nat) /\ Len(Tail(cnt[l])) = Len(cnt[l]) - 1
      /\ \A i \in 1..Len(Tail(cnt[l])) :
           i + 1 \in 1..Len(cnt[l]) /\ Tail(cnt[l])[i] = cnt[l][i + 1]
  BY <1>1, <1>2, Behead
<1>4. /\ dump' \in Seq(Nat) /\ Len(dump') = Len(dump) + 1
      /\ dump'[Len(dump) + 1] = cnt[l][1] /\ \A k \in 1..Len(dump) : dump'[k] = dump[k]
  BY <1>1, <1>2, <1>3
<1>5. Types'
  BY <1>1, <1>2, <1>3, <1>4, Constants DEF Types, Count!Lane
<1> HIDE DEF l
<1>6. ASSUME NEW m \in Nat, Fresh(m) PROVE Fresh(m)'
  <2>1. \A i \in 1..Len(state') : m + i > Stale => state'[i] = Count!Total'
    BY <1>1, <1>6 DEF Fresh, Count!Total
  <2> l = Len(dump) + 1 /\ \A k \in Count!Lane : k \in Int
    BY DEF l, Count!Lane
  <2>2. \A k \in 1..Len(dump') : m + Len(state') + 1 > Stale => dump'[k] = count'[k]
    <3>1. 1 \in 1..Len(cnt[l]) /\ MessageOf(m, l, 1) = m + Len(state) + 1
      <4>1. ~(l <= Len(dump))
        BY <1>2
      <4> QED
        BY <1>2, <1>3, <4>1 DEF MessageOf
    <3>2. m + Len(state) + 1 > Stale => cnt[l][1] = count[l]
      BY <1>1, <1>6, <3>1 DEF Fresh
    <3> QED
      BY <1>1, <1>2, <1>4, <1>6, <3>2 DEF Fresh
  <2>3. ASSUME NEW k \in Count!Lane, NEW i \in 1..Len(cnt'[k]), MessageOf(m, k, i)' > Stale
        PROVE  cnt'[k][i] = count'[k]
    <3>1. CASE k = l
      <4>1. i + 1 \in 1..Len(cnt[l]) /\ cnt'[k][i] = cnt[l][i + 1]
        BY <1>2, <1>3, <3>1
      <4>2. MessageOf(m, l, i + 1) = MessageOf(m, k, i)'
        <5>1. ~(l <= Len(dump)) /\ l <= Len(dump') /\ state' = state
          BY <1>1, <1>2, <1>4
        <5> QED
          BY <1>2, <3>1, <5>1 DEF MessageOf
      <4> QED
        BY <1>1, <1>6, <2>3, <3>1, <4>1, <4>2 DEF Fresh
    <3>2. CASE k # l
      <4>1. MessageOf(m, k, i)' = MessageOf(m, k, i)
        <5>1. ((k <= Len(dump)) <=> (k <= Len(dump'))) /\ state' = state
          BY <1>1, <1>2, <1>4, <3>2
        <5> QED
          BY <1>2, <5>1 DEF MessageOf
      <4> QED
        BY <1>1, <1>2, <1>6, <2>3, <3>2, <4>1 DEF Fresh
    <3> QED
      BY <3>1, <3>2
  <2> QED
    BY <2>1, <2>2, <2>3 DEF Fresh
<1> QED
  BY <1>1, <1>5, <1>6, Keep, KeepFinal DEF IInv

\* debug_dump sends its sum.
LEMMA DumpWriteInv == ASSUME Count!StepCountAssumption, IInv, Count!DumpWrite PROVE IInv'
<1>1. /\ Len(dump) = Lanes /\ Len(state) < StateDepth /\ Types
      /\ state' = Append(state, Count!DumpSum) /\ dump' = <<>>
      /\ UNCHANGED <<count, writing, cnt, running, counter, last_data, mem, runs, quiet>>
  BY DEF Count!DumpWrite, IInv, Count!laneVars, Count!statVars
<1>2. PICK S : state \in Seq(S)
  BY <1>1 DEF Types
<1>3. /\ state' \in Seq(S \cup {Count!DumpSum}) /\ Len(state) \in Nat
      /\ Len(state') = Len(state) + 1
      /\ state'[Len(state) + 1] = Count!DumpSum
      /\ \A i \in 1..Len(state) : state'[i] = state[i]
  BY <1>1, <1>2, Enqueue
<1>4. dump' \in Seq(Nat) /\ Len(dump') = 0
  BY <1>1
<1>5. Types'
  BY <1>1, <1>3, <1>4, Constants DEF Types
<1>6. ASSUME NEW m \in Nat, Fresh(m) PROVE Fresh(m)'
  <2>1. m + Len(state) + 1 > Stale => Count!DumpSum = Count!Total
    <3>1. SUFFICES ASSUME m + Len(state) + 1 > Stale PROVE dump = count
      BY DEF Count!DumpSum, Count!Total
    <3>2. \A l \in Count!Lane : dump[l] = count[l]
      BY <1>1, <1>6, <3>1 DEF Fresh, Count!Lane
    <3>3. dump \in [Count!Lane -> Nat] /\ count \in [Count!Lane -> Nat]
      BY <1>1 DEF Types, Count!Lane
    <3> QED
      BY <3>2, <3>3
  <2>2. ASSUME NEW i \in 1..Len(state'), m + i > Stale PROVE state'[i] = Count!Total'
    <3>1. Count!Total' = Count!Total
      BY <1>1 DEF Count!Total
    <3>2. i \in 1..Len(state) \/ i = Len(state) + 1
      BY <1>3
    <3>3. CASE i \in 1..Len(state)
      BY <1>3, <1>6, <2>2, <3>1, <3>3 DEF Fresh
    <3>4. CASE i = Len(state) + 1
      BY <1>3, <2>1, <2>2, <3>1, <3>4
    <3> QED
      BY <3>2, <3>3, <3>4
  <2>3. ASSUME NEW l \in Count!Lane, NEW i \in 1..Len(cnt'[l]), MessageOf(m, l, i)' > Stale
        PROVE  cnt'[l][i] = count'[l]
    <3>1. MessageOf(m, l, i)' = MessageOf(m, l, i)
      BY <1>1, <1>3, <1>4 DEF MessageOf, Count!Lane
    <3> QED
      BY <1>1, <1>6, <2>3, <3>1 DEF Fresh
  <2> QED
    BY <1>4, <2>2, <2>3 DEF Fresh
<1> QED
  BY <1>1, <1>5, <1>6, Keep, KeepFinal DEF IInv

\* From the start on nothing is fresh yet that needs to be.
LEMMA HostStartInv == ASSUME Count!StepCountAssumption, IInv, Count!HostStart PROVE IInv'
<1>1. /\ Types /\ running' = TRUE /\ counter' = 0
      /\ UNCHANGED <<count, writing, cnt, dump, state>>
  BY DEF Count!HostStart, IInv, Count!laneVars
<1>2. Types'
  BY <1>1 DEF Types
<1>3. Fresh(0)'
  <2>1. Len(state) \in Nat /\ Len(state) <= StateDepth
    BY <1>1 DEF Types
  <2>2. \A l \in Count!Lane : Len(cnt[l]) \in Nat /\ Len(cnt[l]) <= CntDepth
    BY <1>1 DEF Types
  <2> QED
    BY <1>1, <2>1, <2>2, Constants DEF Fresh, MessageOf, Stale
<1>4. Counting'
  BY <1>1, <1>3 DEF Counting
<1>5. FinalCount'
  BY <1>1 DEF FinalCount, Count!FinalCount
<1> QED
  BY <1>2, <1>4, <1>5 DEF IInv

\* The messages it compares are fresh.
LEMMA StatisticInv == ASSUME Count!StepCountAssumption, IInv, Count!query_statistic PROVE IInv'
<1> DEFINE n == IF counter < OuterCounter THEN counter + 1 ELSE 0
           data == Head(state)
<1>1. /\ running /\ state # <<>> /\ Types /\ Counting /\ counter' = n
      /\ state' = Tail(state)
      /\ UNCHANGED <<count, writing, cnt, dump, runs, quiet>>
      /\ \/ Count!Sample(n) /\ data = last_data /\ running' = FALSE /\ mem' = last_data
         \/ running' = running
  BY DEF Count!query_statistic, IInv, Count!laneVars, Count!Empty
<1>2. PICK S : state \in Seq(S)
  BY <1>1 DEF Types
<1>3. /\ data = state[1] /\ Len(state) \in Nat \ {0}
      /\ state' \in Seq(S) /\ Len(state') = Len(state) - 1
      /\ \A i \in 1..Len(state') : i + 1 \in 1..Len(state) /\ state'[i] = state[i + 1]
  BY <1>1, <1>2, Behead
<1>4. counter \in Nat /\ OuterCounter \in Nat
  BY <1>1, Constants DEF Types
<1>5. Types'
  <2>1. Len(state') <= StateDepth /\ counter' \in Nat
    BY <1>1, <1>3, <1>4, Constants DEF Types
  <2> QED
    BY <1>1, <1>3, <2>1 DEF Types
<1>6. ASSUME NEW m \in Nat, Fresh(m) PROVE Fresh(m + 1)'
  <2>1. \A i \in 1..Len(state') : m + 1 + i > Stale => state'[i] = Count!Total'
    BY <1>1, <1>3, <1>6, Constants DEF Fresh, Count!Total
  <2>2. \A l \in 1..Len(dump') : m + 1 + Len(state') + 1 > Stale => dump'[l] = count'[l]
    BY <1>1, <1>3, <1>6, Constants DEF Fresh
  <2>3. ASSUME NEW l \in Count!Lane, NEW i \in 1..Len(cnt'[l]), MessageOf(m + 1, l, i)' > Stale
        PROVE  cnt'[l][i] = count'[l]
    <3>1. MessageOf(m + 1, l, i)' = MessageOf(m, l, i)
      BY <1>1, <1>3 DEF MessageOf
    <3> QED
      BY <1>1, <1>6, <2>3, <3>1 DEF Fresh
  <2> QED
    BY <2>1, <2>2, <2>3 DEF Fresh
<1>7. Counting'
  <2>1. SUFFICES ASSUME quiet', running' PROVE \E m \in Nat : counter' <= m /\ Fresh(m)'
    BY DEF Counting
  <2>2. PICK m \in Nat : counter <= m /\ Fresh(m)
    BY <1>1, <2>1 DEF Counting
  <2>3. m + 1 \in Nat /\ counter' <= m + 1
    BY <1>1, <1>4, <2>2
  <2> QED
    BY <1>6, <2>2, <2>3
<1>8. FinalCount'
  <2>1. SUFFICES ASSUME ~running', quiet' PROVE mem' = Count!Total'
    BY DEF FinalCount, Count!FinalCount
  <2>2. Count!Sample(n) /\ data = last_data /\ mem' = last_data /\ quiet
    BY <1>1, <2>1
  <2>3. PICK m \in Nat : counter <= m /\ Fresh(m)
    BY <1>1, <2>2 DEF Counting
  <2>4. m + 1 > Stale
    BY <1>4, <2>2, <2>3, Constants DEF Count!Sample
  <2>5. state[1] = Count!Total
    BY <1>3, <2>3, <2>4 DEF Fresh
  <2> QED
    BY <1>1, <1>3, <2>2, <2>5 DEF Count!Total
<1> QED
  BY <1>5, <1>7, <1>8 DEF IInv

LEMMA NextInv == ASSUME Count!StepCountAssumption, IInv, [Count!Next]_(Count!vars) PROVE IInv'
<1>1. CASE UNCHANGED Count!vars
  <2>1. Types' /\ FinalCount'
    BY <1>1 DEF IInv, Types, FinalCount, Count!FinalCount, Count!Total, Count!vars,
           Count!laneVars, Count!statVars
  <2>2. \A m \in Nat : Fresh(m) => Fresh(m)'
    BY <1>1 DEF Fresh, MessageOf, Count!Total, Count!vars, Count!laneVars, Count!statVars
  <2> QED
    BY <1>1, <2>1, <2>2, Keep DEF IInv, Count!vars, Count!statVars
<1> QED
  BY <1>1, CountWalkInv, OfferCountInv, DumpReadInv, DumpWriteInv, HostStartInv, StatisticInv
     DEF Count!Next

\* FinalCount: if no walk has passed since query_statistic was started, what it returns
\* is the number of walks, although the FIFOs were full of old counts, the lanes are read
\* at different moments and counts are dropped: OUTER_COUNTER messages outlast the FIFOs.
THEOREM ResultIsFinal == ASSUME Count!StepCountAssumption PROVE Count!Spec => []FinalCount
<1>1. Count!Init => IInv
  BY InitInv
<1>2. IInv /\ [Count!Next]_(Count!vars) => IInv'
  BY NextInv
<1>3. IInv => FinalCount
  BY DEF IInv
<1> QED
  BY <1>1, <1>2, <1>3, PTL DEF Count!Spec
=============================================================================
