---------------------------- MODULE ButterflyNet ----------------------------
(***************************************************************************)
(* The stage structure shared by the butterfly switch and the work-        *)
(* stealing scheduler (src/src/switch_butterfly).  Both are 2^K x 2^K      *)
(* networks of K levels.  At level l every wire w enters a distributor,    *)
(* which feeds two inner FIFOs, and every wire leaves a merger, which      *)
(* drains two inner FIFOs.  A level exchanges only the wires that differ   *)
(* in bit l: switch_4x4 is level 1 on (1,2),(3,4) and level 2 on           *)
(* (1,3),(2,4), switch_8x8 adds level 3 on (i,i+4), switch_16x16 level 4   *)
(* on (i,i+8).  A wire is therefore its vector of bits.                    *)
(*                                                                         *)
(* Every loop body reads with read_nb and then writes with a blocking      *)
(* write, so a distributor or merger that has read an item holds it in a   *)
(* register until its output FIFO has room: the read and the write are     *)
(* two steps.  A register is a sequence of at most one element.            *)
(***************************************************************************)
EXTENDS Integers, Sequences

CONSTANTS K,       \* number of levels: the network has 2^K wires
          Depth,   \* FIFO depth (inner_fifo_size = 12, in/out_stream 13)
          Item     \* what travels through it

ASSUME NetAssumption == /\ K \in Nat \ {0}
                        /\ Depth \in Nat \ {0}

Bit   == {0, 1}
Level == 1..K
Stage == 1..(K + 1)
Wire  == [Level -> Bit]

\* The wire that differs from w at most in bit l, where it has b.
Turn(w, l, b) == [w EXCEPT ![l] = b]

VARIABLES
  link,   \* link[s][w]: FIFO that enters stage s on wire w; stage K+1 leaves
  dist,   \* dist[l][w]: item a distributor has read, with the port it goes to
  inner,  \* inner[l][w][b]: inner_connection from distributor w to port b
  merge,  \* merge[l][w]: item the merger of output wire w has read
  flag    \* flag[l][w]: the merger's schedule_flag, the side served last

netVars == <<link, dist, inner, merge, flag>>

Full(q)  == Len(q) >= Depth
Empty(q) == q = <<>>

NetTypeOK ==
  /\ link  \in [Stage -> [Wire -> Seq(Item)]]
  /\ dist  \in [Level -> [Wire -> Seq([item : Item, port : Bit])]]
  /\ inner \in [Level -> [Wire -> [Bit -> Seq(Item)]]]
  /\ merge \in [Level -> [Wire -> Seq(Item)]]
  /\ flag  \in [Level -> [Wire -> Bit]]

NetInit ==
  /\ link  = [s \in Stage |-> [w \in Wire |-> <<>>]]
  /\ dist  = [l \in Level |-> [w \in Wire |-> <<>>]]
  /\ inner = [l \in Level |-> [w \in Wire |-> [b \in Bit |-> <<>>]]]
  /\ merge = [l \in Level |-> [w \in Wire |-> <<>>]]
  /\ flag  = [l \in Level |-> [w \in Wire |-> 0]]

\* A producer outside the network writes an item to input wire w.
WriteLink(w, x) ==
  /\ ~Full(link[1][w])
  /\ link' = [link EXCEPT ![1][w] = Append(@, x)]
  /\ UNCHANGED <<dist, inner, merge, flag>>

\* A consumer outside the network reads from output wire w.
ReadLink(w) ==
  /\ ~Empty(link[K + 1][w])
  /\ link' = [link EXCEPT ![K + 1][w] = Tail(@)]
  /\ UNCHANGED <<dist, inner, merge, flag>>

\* The distributor of wire w reads an item and is committed to port b.
DistributeTo(l, w, b) ==
  /\ Empty(dist[l][w])
  /\ ~Empty(link[l][w])
  /\ dist' = [dist EXCEPT ![l][w] = <<[item |-> Head(link[l][w]), port |-> b]>>]
  /\ link' = [link EXCEPT ![l][w] = Tail(@)]
  /\ UNCHANGED <<inner, merge, flag>>

\* Variant: id1 and id2 swapped.
PortSwapped(l, x) == 1 - x.dest[l]

\* (dest & mask) == id1 = 0 picks out1, == id2 = mask picks out2.
Port(l, x) == x.dest[l]

distribute_package(l, w) ==
  /\ ~Empty(link[l][w])
  /\ DistributeTo(l, w, Port(l, Head(link[l][w])))

\* Variant: write_nb instead of write, the item is gone if the FIFO is full.
DistributeWriteNb(l, w) ==
  /\ ~Empty(dist[l][w])
  /\ LET held == Head(dist[l][w]) IN
       inner' = IF Full(inner[l][w][held.port]) THEN inner
                ELSE [inner EXCEPT ![l][w][held.port] = Append(@, held.item)]
  /\ dist' = [dist EXCEPT ![l][w] = <<>>]
  /\ UNCHANGED <<link, merge, flag>>

\* The blocking write of a distributor goes through once the inner FIFO of the port has room.
DistributeWrite(l, w) ==
  /\ ~Empty(dist[l][w])
  /\ LET held == Head(dist[l][w]) IN
       /\ ~Full(inner[l][w][held.port])
       /\ inner' = [inner EXCEPT ![l][w][held.port] = Append(@, held.item)]
  /\ dist' = [dist EXCEPT ![l][w] = <<>>]
  /\ UNCHANGED <<link, merge, flag>>

\* The inner FIFO that enters side c of the merger of output wire w.
MergeInput(l, w, c) == inner[l][Turn(w, l, c)][w[l]]

\* Variant: merge_package_with_priority, which always prefers in1.
ServesWithPriority(l, w, c) ==
  /\ ~Empty(MergeInput(l, w, c))
  /\ c = 0 \/ Empty(MergeInput(l, w, 0))

\* The new schedule_flag: the side just served.
Serve(l, w, c) == c

\* merge_package: an input is served when it is the only non-empty one or
\* when the other one was served last.
Serves(l, w, c) ==
  /\ ~Empty(MergeInput(l, w, c))
  /\ Empty(MergeInput(l, w, 1 - c)) \/ flag[l][w] = 1 - c

merge_package(l, w) ==
  /\ Empty(merge[l][w])
  /\ \E c \in Bit :
       /\ Serves(l, w, c)
       /\ merge' = [merge EXCEPT ![l][w] = <<Head(MergeInput(l, w, c))>>]
       /\ inner' = [inner EXCEPT ![l][Turn(w, l, c)][w[l]] = Tail(@)]
       /\ flag' = [flag EXCEPT ![l][w] = Serve(l, w, c)]
  /\ UNCHANGED <<link, dist>>

MergeWrite(l, w) ==
  /\ ~Empty(merge[l][w])
  /\ ~Full(link[l + 1][w])
  /\ link' = [link EXCEPT ![l + 1][w] = Append(@, Head(merge[l][w]))]
  /\ merge' = [merge EXCEPT ![l][w] = <<>>]
  /\ UNCHANGED <<dist, inner, flag>>
=============================================================================
