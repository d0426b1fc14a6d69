--------------------------- MODULE ButterflyTraffic ---------------------------
(***************************************************************************)
(* The switch under traffic that never ends: every input lane always has   *)
(* another item, for any lane.  An item only remembers where it came from. *)
(* Nothing is numbered, so the state space is finite without a bound on    *)
(* the number of items, and starvation can be seen.                        *)
(***************************************************************************)
EXTENDS ButterflyNet

ASSUME TrafficAssumption == Item = [dest : Wire, src : Wire]

vars == netVars

Arrive(w, d) == WriteLink(w, [dest |-> d, src |-> w])

\* The item leaving on lane w came from lane s.
Leave(w, s) == ReadLink(w) /\ Head(link[K + 1][w]).src = s

Next ==
  \/ \E w, d \in Wire : Arrive(w, d) \/ Leave(w, d)
  \/ \E l \in Level, w \in Wire : \/ distribute_package(l, w)
                                  \/ DistributeWrite(l, w)
                                  \/ merge_package(l, w)
                                  \/ MergeWrite(l, w)

Spec == NetInit /\ [][Next]_vars

\* Lanes keep sending (to lanes of their choice) and keep being drained; the
\* loops of the network are free running.
Fairness ==
  /\ \A w \in Wire : /\ WF_vars(\E d \in Wire : Arrive(w, d))
                      /\ WF_vars(ReadLink(w))
  /\ \A l \in Level, w \in Wire : /\ WF_vars(distribute_package(l, w))
                                  /\ WF_vars(DistributeWrite(l, w))
                                  /\ WF_vars(merge_package(l, w))
                                  /\ WF_vars(MergeWrite(l, w))

FairSpec == Spec /\ Fairness

\* NoLaneStarves: merge_package alternates between two busy inputs, so no
\* competing traffic keeps an input lane's items from getting through.
NoLaneStarves ==
  \A s \in Wire : []<><<\E w \in Wire : Leave(w, s)>>_vars
=============================================================================
