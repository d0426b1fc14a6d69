--------------------------- MODULE ButterflySwitch ---------------------------
(***************************************************************************)
(* The routing switch (switch_KxK_frp) between the rpa_input and           *)
(* rpa_output converters of rpa_router, cla_router and the coalescing      *)
(* routers: distribute_package picks the port from bit l of the item's     *)
(* destination.  Queries enter on any lane and must leave on the lane      *)
(* whose memory channels hold their vertex.                                *)
(***************************************************************************)
EXTENDS ButterflyNet, FiniteSets

CONSTANTS Vertex,    \* vertices a query may ask for
          Dest,      \* Dest[v]: the lane of vertex v, computed by rpa_input
          Quota      \* bound: Quota[s][d] queries are offered on lane s for lane d

ASSUME SwitchAssumption ==
  /\ Dest \in [Vertex -> Wire]
  /\ Quota \in [Wire -> [Wire -> Nat]]
  /\ \A x \in Item : x.dest \in Wire
  /\ \A w \in Wire, v \in Vertex : \A n \in 1..Quota[w][Dest[v]] :
       [dest |-> Dest[v], src |-> w, no |-> n, vid |-> v] \in Item

VARIABLES
  sent,   \* history: sent[s][d]: items written to lane s for lane d, in order
  recv    \* history: recv[d]: items read from output lane d, in order

vars == <<link, dist, inner, merge, flag, sent, recv>>

TypeOK ==
  /\ NetTypeOK
  /\ sent \in [Wire -> [Wire -> Seq(Item)]]
  /\ recv \in [Wire -> Seq(Item)]

Init ==
  /\ NetInit
  /\ sent = [s \in Wire |-> [d \in Wire |-> <<>>]]
  /\ recv = [w \in Wire |-> <<>>]

\* rpa_input reads a query for vertex v and routes it to the lane of v.
rpa_input(w, v) ==
  /\ LET d == Dest[v]
         x == [dest |-> d, src |-> w, no |-> Len(sent[w][d]) + 1, vid |-> v]
     IN  /\ Len(sent[w][d]) < Quota[w][d]
         /\ WriteLink(w, x)
         /\ sent' = [sent EXCEPT ![w][d] = Append(@, x)]
  /\ UNCHANGED recv

\* rpa_output drops the destination and passes the query on.
rpa_output(w) ==
  /\ ReadLink(w)
  /\ recv' = [recv EXCEPT ![w] = Append(@, Head(link[K + 1][w]))]
  /\ UNCHANGED sent

DistributorReads(l, w)  == distribute_package(l, w) /\ UNCHANGED <<sent, recv>>
DistributorWrites(l, w) == DistributeWrite(l, w) /\ UNCHANGED <<sent, recv>>
MergerReads(l, w)       == merge_package(l, w) /\ UNCHANGED <<sent, recv>>
MergerWrites(l, w)      == MergeWrite(l, w) /\ UNCHANGED <<sent, recv>>

Quiet ==
  /\ \A s, d \in Wire : Len(sent[s][d]) = Quota[s][d]
  /\ \A s \in Stage, w \in Wire : Empty(link[s][w])
  /\ \A l \in Level, w \in Wire : /\ Empty(dist[l][w]) /\ Empty(merge[l][w])
                                  /\ \A b \in Bit : Empty(inner[l][w][b])

\* Every query of the bounded instance has come out: the switch idles.
Idle == Quiet /\ UNCHANGED vars

NetNext ==
  \/ \E w \in Wire : rpa_output(w)
  \/ \E l \in Level, w \in Wire : \/ DistributorReads(l, w)
                                  \/ DistributorWrites(l, w)
                                  \/ MergerReads(l, w)
                                  \/ MergerWrites(l, w)

Next ==
  \/ \E w \in Wire, v \in Vertex : rpa_input(w, v)
  \/ NetNext
  \/ Idle

Spec == Init /\ [][Next]_vars

(***************************************************************************)
(* Every loop of the network is a free-running process that is never       *)
(* disabled by another one except through a full or empty FIFO, and the    *)
(* consumers of the output lanes are free running too.                     *)
(***************************************************************************)
Fairness ==
  /\ \A w \in Wire : WF_vars(rpa_output(w))
  /\ \A l \in Level, w \in Wire : /\ WF_vars(DistributorReads(l, w))
                                  /\ WF_vars(DistributorWrites(l, w))
                                  /\ WF_vars(MergerReads(l, w))
                                  /\ WF_vars(MergerWrites(l, w))

FairSpec == Spec /\ Fairness

-----------------------------------------------------------------------------
(***************************************************************************)
(* Routing.  An item is only found on a wire whose bits below its level    *)
(* are those of its destination: levels 1..l-1 have already turned it.     *)
(***************************************************************************)
Agrees(x, w, l) == \A i \in 1..(l - 1) : x.dest[i] = w[i]

AllAgree(q, w, l) == \A i \in DOMAIN q : Agrees(q[i], w, l)

RoutedLinks == \A s \in Stage, w \in Wire : AllAgree(link[s][w], w, s)
RoutedDist ==
  \A l \in Level, w \in Wire : \A i \in DOMAIN dist[l][w] :
    Agrees(dist[l][w][i].item, Turn(w, l, dist[l][w][i].port), l + 1)
RoutedInner ==
  \A l \in Level, w \in Wire, b \in Bit :
    AllAgree(inner[l][w][b], Turn(w, l, b), l + 1)
RoutedMerge == \A l \in Level, w \in Wire : AllAgree(merge[l][w], w, l + 1)

\* Routed: whatever the interleaving of the 2^K distributors and mergers of
\* each level, each FIFO and register holds only items that belong there.
Routed == RoutedLinks /\ RoutedDist /\ RoutedInner /\ RoutedMerge

\* Delivered: an item leaves the switch on the lane of its vertex (the lane
\* rpa_input computed), never on another one.
Delivered ==
  \A w \in Wire : \A i \in DOMAIN recv[w] : recv[w][i].dest = w

(***************************************************************************)
(* The channel from lane s to lane d: what was sent on it and has not come *)
(* out.  The items that came out are taken for the first ones sent; that   *)
(* they are, each once, is what the refinement shows.                      *)
(***************************************************************************)
Got(s, d) == Cardinality({i \in DOMAIN recv[d] : recv[d][i].src = s})

Channel(s, d) == SubSeq(sent[s][d], Got(s, d) + 1, Len(sent[s][d]))

Switch == INSTANCE Crossbar WITH
  Lane <- Wire, Payload <- Item,
  chan <- [s \in Wire |-> [d \in Wire |-> Channel(s, d)]]

\* ImplementsCrossbar: the switch loses, duplicates and reorders nothing
\* within a flow, and delivers every item that entered it.
ImplementsCrossbar == Switch!Spec
=============================================================================
