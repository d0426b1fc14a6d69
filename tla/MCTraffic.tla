------------------------------- MODULE MCTraffic -------------------------------
(***************************************************************************)
(* The two butterflies under traffic without end: the routing switch       *)
(* (ButterflyTraffic) and the work-stealing scheduler (WorkStealing).  A   *)
(* behaviour is one of either, by the choice of part in its initial state. *)
(***************************************************************************)
EXTENDS ButterflyTraffic

CONSTANT FeederNos    \* sets of numbers of lanes: those that have work to share

VARIABLES part,       \* the butterfly that runs
          feeders,    \* the lanes of the scheduler that have work
          steal       \* see WorkStealing

MCItem == [dest : [1..K -> {0, 1}], src : [1..K -> {0, 1}]]

LaneNo(w) == w[1] + (IF K > 1 THEN 2 * w[2] ELSE 0)

FeederSets == {{w \in Wire : LaneNo(w) \in nos} : nos \in FeederNos}

\* The scheduler does not look at its items: one is enough.
Steal(F) == INSTANCE WorkStealing WITH
  Item <- {CHOOSE x \in Item : TRUE},
  Feeders <- F

InitOfPart ==
  /\ Steal({})!StealInit
  /\ \/ part = "switch" /\ feeders = {}
     \/ part = "scheduler" /\ feeders \in FeederSets

SwitchNext    == part = "switch" /\ Next /\ UNCHANGED <<part, feeders, steal>>
SchedulerNext == /\ part = "scheduler"
                 /\ \E F \in FeederSets : feeders = F /\ Steal(F)!Next
                 /\ UNCHANGED <<part, feeders>>

\* The fairness of the two modules.  The loops that both networks have need no
\* mention of the part.
PartFairness ==
  /\ \A w \in Wire :
       /\ WF_vars(part = "switch" /\ \E d \in Wire : Arrive(w, d))
       /\ WF_vars(part = "scheduler" /\ w \in feeders /\ Steal(Wire)!Feed(w))
       /\ WF_vars(ReadLink(w))
  /\ \A l \in Level, w \in Wire :
       /\ WF_vars(part = "switch" /\ distribute_package(l, w))
       /\ WF_vars(part = "scheduler" /\ Steal(Wire)!ws_distribute_package(l, w))
       /\ WF_vars(DistributeWrite(l, w))
       /\ WF_vars(merge_package(l, w))
       /\ WF_vars(MergeWrite(l, w))

PartSpec ==
  /\ InitOfPart
  /\ [][SwitchNext \/ SchedulerNext]_<<vars, part, feeders, steal>>
  /\ PartFairness

\* NoLaneStarves of the switch: see ButterflyTraffic.
SwitchStarvesNoLane == part = "switch" => NoLaneStarves

\* EveryLaneFed and EveryFeederServed of the scheduler, for the lanes that have
\* work in this behaviour: see WorkStealing.
EveryLaneFed == part = "scheduler" => Steal(Wire)!EveryLaneFed
EveryFeederServed ==
  \A F \in FeederSets : part = "scheduler" /\ feeders = F => Steal(F)!EveryFeederServed
=============================================================================
