----------------------------- MODULE WorkStealing -----------------------------
(***************************************************************************)
(* work_stealing_KxK_frp, used by rpa_ws_scheduler to spread the new       *)
(* queries of the loader and the queries that come back from the ring over *)
(* the lanes.  It is the butterfly of the switch with distributors that    *)
(* choose the port by the state of the two inner FIFOs and not by the      *)
(* item.  An item is read first and the full flags are looked at after,    *)
(* so the choice is made once and the blocking write is stuck with it.     *)
(***************************************************************************)
EXTENDS ButterflyNet

CONSTANT Feeders    \* the input lanes that have work

ASSUME FeedersAssumption == Feeders \subseteq Wire

VARIABLE steal      \* steal[l][w]: schedule_flag of the distributor

vars == <<link, dist, inner, merge, flag, steal>>

StealTypeOK == NetTypeOK /\ steal \in [Level -> [Wire -> Bit]]

StealInit == NetInit /\ steal = [l \in Level |-> [w \in Wire |-> 0]]

\* The port with room; if both or neither has room, the other one than last
\* time.  Codes 111, 101, 100 and 001 of the switch are port 0.
StealPort(l, w) ==
  LET full == [b \in Bit |-> Full(inner[l][w][b])] IN
    IF full[0] = full[1] THEN 1 - steal[l][w]
    ELSE CHOOSE b \in Bit : ~full[b]

\* Variant: schedule_flag is never set, a lane with room is served first.
StealFlagConstant(l, w) == 0

\* The new schedule_flag: the port just chosen.
StealFlag(l, w) == StealPort(l, w)

ws_distribute_package(l, w) ==
  /\ DistributeTo(l, w, StealPort(l, w))
  /\ steal' = [steal EXCEPT ![l][w] = StealFlag(l, w)]

StealStep(l, w) ==
  \/ ws_distribute_package(l, w)
  \/ (DistributeWrite(l, w) \/ merge_package(l, w) \/ MergeWrite(l, w))
     /\ UNCHANGED steal

-----------------------------------------------------------------------------
(***************************************************************************)
(* Work without end on some lanes.                                         *)
(***************************************************************************)
\* free_run_axis_to_frp_stream
Feed(w) == (\E x \in Item : WriteLink(w, x)) /\ UNCHANGED steal
\* free_run_frp_to_axis_stream
Drain(w) == ReadLink(w) /\ UNCHANGED steal

Next ==
  \/ \E w \in Feeders : Feed(w)
  \/ \E w \in Wire : Drain(w)
  \/ \E l \in Level, w \in Wire : StealStep(l, w)

Spec == StealInit /\ [][Next]_vars

Fairness ==
  /\ \A w \in Feeders : WF_vars(Feed(w))
  /\ \A w \in Wire : WF_vars(Drain(w))
  /\ \A l \in Level, w \in Wire :
       /\ WF_vars(ws_distribute_package(l, w))
       /\ WF_vars(DistributeWrite(l, w) /\ UNCHANGED steal)
       /\ WF_vars(merge_package(l, w) /\ UNCHANGED steal)
       /\ WF_vars(MergeWrite(l, w) /\ UNCHANGED steal)

FairSpec == Spec /\ Fairness

\* EveryLaneFed: work that arrives on some lanes only is spread over all of
\* them; no output lane is left without work for ever.
EveryLaneFed == \A w \in Wire : []<><<Drain(w)>>_vars

\* EveryFeederServed: an item that is committed to a full FIFO blocks its lane, even
\* when the other FIFO drains meanwhile; but it gets in in the end, whatever the
\* lanes it competes with do, and its lane goes on taking work.
EveryFeederServed == \A w \in Feeders : []<><<Feed(w)>>_vars
=============================================================================
