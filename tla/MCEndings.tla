------------------------------ MODULE MCEndings ------------------------------
(***************************************************************************)
(* Instances of the two ways in which a host learns that its walks are     *)
(* over: ring_manager, which returns after the last walk (RingManager),    *)
(* and query_statistic, which watches the counts of router_state           *)
(* (StepCount).  A behaviour is one of the part its initial state picks;   *)
(* the variables of the other rest.                                        *)
(***************************************************************************)
EXTENDS RingManager

CONSTANTS Steps,                                                   \* remain_step
          Lanes, CntDepth, StateDepth, OuterCounter, Visits, Runs  \* StepCount

VARIABLES part, count, writing, cnt, dump, state, running, counter, last_data, mem, runs,
          quiet

Count == INSTANCE StepCount

countVars == <<count, writing, cnt, dump, state, running, counter, last_data, mem, runs,
               quiet>>

\* Every query has the same number of steps.
MCLength == [n \in 1..Size |-> Steps]

ASSUME RingManagerAssumption /\ Count!StepCountAssumption

InitOfPart == part \in {"ring", "count"} /\ Init /\ Count!Init

RingNext  == part = "ring" /\ Next /\ UNCHANGED <<part, countVars>>
CountNext == part = "count" /\ Count!Next /\ UNCHANGED <<part, vars>>

\* The fairness of the two modules, each while its part runs.
RingFairness ==
  /\ WF_vars(part = "ring" /\ step_loader)
  /\ WF_vars(part = "ring" /\ OldQuery)
  /\ WF_vars(part = "ring" /\ RingInsertion)
  /\ WF_vars(part = "ring" /\ OutWrite)
  /\ WF_vars(part = "ring" /\ step_update)

CountFairness ==
  /\ \A l \in 1..Lanes : WF_countVars(part = "count" /\ Count!OfferCount(l))
  /\ WF_countVars(part = "count" /\ Count!DumpRead)
  /\ WF_countVars(part = "count" /\ Count!DumpWrite)
  /\ WF_countVars(part = "count" /\ Count!query_statistic)

PartSpec ==
  /\ InitOfPart
  /\ [][RingNext \/ CountNext]_<<part, vars, countVars>>
  /\ RingFairness /\ CountFairness

-----------------------------------------------------------------------------
(* The properties of the parts, explained in their modules.  Those of the    *)
(* part that rests hold of its initial state.                                *)

\* Types and depths.
AllTypeOK == TypeOK /\ Count!TypeOK

\* StepCount: the result is the number of walks, if they were over before the start.
FinalCount == Count!FinalCount

\* ring_manager and query_statistic return, which is what the hosts wait for: the former
\* unless it has forgotten to free a slot, the latter once the walks have stopped.
Joins == (part = "ring" => Ends) /\ Count!Joins
=============================================================================
