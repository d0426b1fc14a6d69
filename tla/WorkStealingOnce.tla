--------------------------- MODULE WorkStealingOnce ---------------------------
(***************************************************************************)
(* The work-stealing network with queries that have an identity, each      *)
(* offered once: it is a pool (WorkPool).                                  *)
(***************************************************************************)
EXTENDS WorkStealing, FiniteSets, SequencesExt

CONSTANT Home    \* Home[q]: the input lane on which query q arrives

ASSUME HomeAssumption == Home \in [Item -> Feeders]

VARIABLES put,   \* history: queries written to the input lanes
          taken  \* history: queries read from the output lanes

onceVars == <<vars, put, taken>>

OnceInit == StealInit /\ put = {} /\ taken = {}

FeedQuery(q) ==
  /\ q \notin put
  /\ WriteLink(Home[q], q)
  /\ put' = put \cup {q}
  /\ UNCHANGED <<steal, taken>>

DrainQuery(w) ==
  /\ ReadLink(w)
  /\ taken' = taken \cup {Head(link[K + 1][w])}
  /\ UNCHANGED <<steal, put>>

Step(l, w) == StealStep(l, w) /\ UNCHANGED <<put, taken>>

\* All queries of the instance have been served: the network idles.
Served == taken = Item /\ UNCHANGED onceVars

OnceNext ==
  \/ \E q \in Item : FeedQuery(q)
  \/ \E w \in Wire : DrainQuery(w)
  \/ \E l \in Level, w \in Wire : Step(l, w)
  \/ Served

OnceSpec ==
  /\ OnceInit
  /\ [][OnceNext]_onceVars
  /\ \A w \in Wire : WF_onceVars(DrainQuery(w))
  /\ \A l \in Level, w \in Wire :
       /\ WF_onceVars(ws_distribute_package(l, w) /\ UNCHANGED <<put, taken>>)
       /\ WF_onceVars(DistributeWrite(l, w) /\ UNCHANGED <<steal, put, taken>>)
       /\ WF_onceVars(merge_package(l, w) /\ UNCHANGED <<steal, put, taken>>)
       /\ WF_onceVars(MergeWrite(l, w) /\ UNCHANGED <<steal, put, taken>>)

-----------------------------------------------------------------------------
\* The queries inside the network, in a FIFO or in a register.
InFlight ==
  UNION ({ToSet(link[s][w]) : s \in Stage, w \in Wire}
         \cup {ToSet(merge[l][w]) : l \in Level, w \in Wire}
         \cup {{h.item : h \in ToSet(dist[l][w])} : l \in Level, w \in Wire}
         \cup {ToSet(inner[l][w][b]) : l \in Level, w \in Wire, b \in Bit})

Pool == INSTANCE WorkPool WITH Query <- Item, pool <- InFlight

\* ImplementsPool: stealing neither loses nor repeats a query, and every query
\* that is put in comes out as long as the output lanes are drained.
ImplementsPool == Pool!Spec
=============================================================================
