------------------------------ MODULE StepCount ------------------------------
(***************************************************************************)
(* How the host learns that the walks are over.  Every lane of             *)
(* router_state counts the walks that pass it and offers the count to      *)
(* debug_dump after every iteration; debug_dump adds up one count per      *)
(* lane, read one after the other while the lanes go on counting, and      *)
(* sends the sum to query_statistic.  query_statistic, started by the      *)
(* host, compares a sum with the one OUTER_COUNTER messages earlier and    *)
(* returns when nothing has changed.  Nobody reads the sums in between, so *)
(* the FIFOs are full of old counts whenever it is started.                *)
(***************************************************************************)
EXTENDS Integers, Sequences, FiniteSetsExt

CONSTANTS
  Lanes,         \* lanes of router_state (8), numbered 1..Lanes
  CntDepth,      \* depth of debug_stream (2)
  StateDepth,    \* depth of router_state.state
  OuterCounter,  \* OUTER_COUNTER (8192)
  Visits,        \* bound: walks that pass one lane
  Runs           \* bound: times the host starts query_statistic

Lane == 1..Lanes

\* query_statistic must not compare two sums that were made of counts from
\* before its start: the messages it skips are more than the FIFOs can hold.
StepCountAssumption ==
  /\ Lanes \in Nat \ {0} /\ CntDepth \in Nat \ {0} /\ StateDepth \in Nat \ {0}
  /\ OuterCounter \in Nat /\ OuterCounter > CntDepth + StateDepth + 2
  /\ Visits \in Nat /\ Runs \in Nat \ {0}

VARIABLES
  count,     \* count[l]: counter of state_instance, static, never reset
  writing,   \* lanes that have counted a walk and wait in out.write()
  cnt,       \* cnt[l]: debug_stream
  dump,      \* dump_array, as far as debug_dump has filled it
  state,     \* sums on their way to query_statistic
  running,   \* query_statistic has been started and has not returned
  counter,   \* counter of query_statistic
  last_data, \* the sum it compares with
  mem,       \* mem[0]: its result
  runs,      \* starts so far
  quiet      \* history: no walk has passed since query_statistic was started

laneVars == <<count, writing>>
statVars == <<running, counter, last_data, mem, runs>>
vars == <<laneVars, cnt, dump, state, statVars, quiet>>

Empty(s) == s = <<>>

\* The sum of one number per lane.
Sum(f) == MapThenSumSet(LAMBDA l : f[l], Lane)
Total == Sum(count)

\* Types; the sums are no larger than all walks together.
TypeOK ==
  /\ count \in [Lane -> 0..Visits] /\ writing \subseteq Lane
  /\ cnt \in [Lane -> Seq(0..Visits)]
  /\ dump \in Seq(0..Visits) /\ Len(dump) <= Lanes
  /\ state \in Seq(0..(Lanes * Visits))
  /\ running \in BOOLEAN /\ counter \in 0..OuterCounter
  /\ {last_data, mem} \subseteq 0..(Lanes * Visits)
  /\ runs \in 0..Runs /\ quiet \in BOOLEAN

Init ==
  /\ count = [l \in Lane |-> 0] /\ writing = {}
  /\ cnt = [l \in Lane |-> <<>>]
  /\ dump = <<>> /\ state = <<>>
  /\ running = FALSE /\ counter = 0 /\ last_data = 0 /\ mem = 0
  /\ runs = 0 /\ quiet = TRUE

-----------------------------------------------------------------------------
\* in.read_nb() finds a walk: counter ++, then out.write().
CountWalk(l) ==
  /\ l \notin writing /\ count[l] < Visits
  /\ count' = [count EXCEPT ![l] = @ + 1]
  /\ writing' = writing \cup {l}
  /\ quiet' = FALSE
  /\ UNCHANGED <<cnt, dump, state, statVars>>

\* cnt.write_nb(): dropped if there is no room.
Offered(q, n) == IF Len(q) < CntDepth THEN Append(q, n) ELSE q

\* The end of an iteration of state_instance, out.write() over or not needed.
OfferCount(l) ==
  /\ cnt' = [cnt EXCEPT ![l] = Offered(@, count[l])]
  /\ writing' = writing \ {l}
  /\ UNCHANGED <<count, dump, state, statVars, quiet>>

-----------------------------------------------------------------------------
\* dump_array[i] = in[i].read()
DumpRead ==
  LET l == Len(dump) + 1 IN
    /\ l \in Lane /\ ~Empty(cnt[l])
    /\ dump' = Append(dump, Head(cnt[l]))
    /\ cnt' = [cnt EXCEPT ![l] = Tail(@)]
    /\ UNCHANGED <<laneVars, state, statVars, quiet>>

\* Variant: both halves of the tree of additions take all lanes.
DumpSumTwice == 2 * Sum(dump)

\* sum_l2[0] + sum_l2[1]
DumpSum == Sum(dump)

DumpWrite ==
  /\ Len(dump) = Lanes /\ Len(state) < StateDepth
  /\ state' = Append(state, DumpSum)
  /\ dump' = <<>>
  /\ UNCHANGED <<laneVars, cnt, statVars, quiet>>

-----------------------------------------------------------------------------
\* The host starts query_statistic.
HostStart ==
  /\ ~running /\ runs < Runs
  /\ running' = TRUE /\ runs' = runs + 1
  /\ counter' = 0 /\ last_data' = 0
  /\ quiet' = TRUE
  /\ UNCHANGED <<laneVars, cnt, dump, state, mem>>

\* Variant: every message is compared.
SampleEach(n) == n > 0

\* counter == OUTER_COUNTER - 1
Sample(n) == n = OuterCounter - 1

\* Variant: last_data is not updated.
SampledKept(data) == last_data

\* The sum to compare with from here on.
Sampled(data) == data

query_statistic ==
  /\ running /\ ~Empty(state)
  /\ LET data == Head(state)
         n == IF counter < OuterCounter THEN counter + 1 ELSE 0
     IN  /\ counter' = n
         /\ IF Sample(n) /\ data = last_data
            THEN running' = FALSE /\ mem' = last_data /\ UNCHANGED last_data
            ELSE /\ last_data' = IF Sample(n) THEN Sampled(data) ELSE last_data
                 /\ UNCHANGED <<running, mem>>
  /\ state' = Tail(state)
  /\ UNCHANGED <<laneVars, cnt, dump, runs, quiet>>

Next ==
  \/ \E l \in Lane : CountWalk(l) \/ OfferCount(l)
  \/ DumpRead \/ DumpWrite \/ HostStart \/ query_statistic

Spec == Init /\ [][Next]_vars

\* The lanes, debug_dump and query_statistic are free running, the latter once
\* it is started.
FairSpec ==
  /\ Spec
  /\ \A l \in Lane : WF_vars(OfferCount(l))
  /\ WF_vars(DumpRead) /\ WF_vars(DumpWrite) /\ WF_vars(query_statistic)

-----------------------------------------------------------------------------
\* FinalCount: when the walks were over before the host started
\* query_statistic, its result is their number, although the FIFOs held old
\* counts and the lanes were read at different moments.
FinalCount == ~running /\ runs > 0 /\ quiet => mem = Total

\* Joins: query_statistic returns once the walks have stopped, counts dropped
\* by write_nb() notwithstanding.
Joins == running ~> ~running

=============================================================================
