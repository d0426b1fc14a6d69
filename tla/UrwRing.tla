------------------------------- MODULE UrwRing -------------------------------
(***************************************************************************)
(* The ring of the uniform random walk (app/uniform_random_walk): every    *)
(* lane of query_merge sends queries into the ring and gets walks that     *)
(* made a step back, on any lane.  query_merge gives way to returning      *)
(* walks and lets a lane inject at most AHEAD_COUNTER queries beyond those *)
(* that finished on the same lane.                                         *)
(*                                                                         *)
(* The parts between out and old are represented by what their own modules *)
(* show of them: the routers deliver to the lane of the vertex             *)
(* (ButterflySwitch), a lane answers each query once (LaneAccess), the     *)
(* schedulers hand a query to any lane (WorkStealing).  The lane that      *)
(* holds the column of the sampled neighbour is arbitrary.                 *)
(***************************************************************************)
EXTENDS Integers, Sequences, FiniteSets, FiniteSetsExt

CONSTANTS
  Lane,       \* lanes (8)
  Query,      \* queries of the loader
  WalkLen,    \* WalkLen[q]: ap_qs_len of the loaded query
  Ahead,      \* AHEAD_COUNTER (7168)
  Timeout,    \* OLD_QUERY_TIMEOUT (4095)
  LinkDepth,  \* depth of new, out and old (16)
  RetDepth    \* depth of a lane's way back through router_state (2 x 4096)

ASSUME RingAssumption ==
  /\ IsFiniteSet(Lane) /\ Lane # {} /\ IsFiniteSet(Query)
  /\ WalkLen \in [Query -> Nat]
  /\ Ahead \in Nat \ {0} /\ Timeout \in Nat
  /\ LinkDepth \in Nat \ {0} /\ RetDepth \in Nat \ {0}

VARIABLES
  fresh,     \* queries query_loader has not sent yet
  new,       \* new[l]: loaded queries waiting for lane l to inject them
  hold,      \* hold[l]: the package lane l of query_merge is about to write
  out,       \* out[l]: walks that enter the ring, with the lane they will
             \* come back on
  ret,       \* ret[l]: walks that made the step, in the FIFOs of router_state
  old,       \* old[l]: walks that come back to lane l of query_merge
  counter,   \* counter[l]: queries lane l may still inject
  timeout,   \* timeout[l]: iterations without a returning walk
  finished,  \* queries whose walk is over
  steps,     \* history: steps[q] made by the walk of q
  granted    \* history: injections allowed by timeouts

ringVars == <<new, hold, out, ret, old>>
vars == <<fresh, ringVars, counter, timeout, finished, steps, granted>>

Empty(s) == s = <<>>
Walk == [query : Query, left : Nat]

TypeOK ==
  /\ fresh \subseteq Query /\ finished \subseteq Query
  /\ {new, hold, ret, old} \subseteq [Lane -> Seq(Walk)]
  /\ out \in [Lane -> Seq([query : Query, left : Nat, via : Lane])]
  /\ counter \in [Lane -> 0..Ahead]
  /\ timeout \in [Lane -> 0..Timeout]
  /\ steps \in [Query -> Nat]
  /\ granted \in Nat

Init ==
  /\ fresh = Query /\ finished = {}
  /\ new = [l \in Lane |-> <<>>]
  /\ hold = new /\ out = new /\ ret = new /\ old = new
  /\ counter = [l \in Lane |-> Ahead]
  /\ timeout = [l \in Lane |-> 0]
  /\ steps = [q \in Query |-> 0]
  /\ granted = 0

\* query_loader writes a query; rpa_ws_scheduler hands it to some lane.
Load(q, l) ==
  /\ q \in fresh
  /\ Len(new[l]) < LinkDepth
  /\ fresh' = fresh \ {q}
  /\ new' = [new EXCEPT ![l] = Append(@, [query |-> q, left |-> WalkLen[q]])]
  /\ UNCHANGED <<hold, out, ret, old, counter, timeout, finished, steps, granted>>

-----------------------------------------------------------------------------
(***************************************************************************)
(* One iteration of old_first_merge_instance on lane l, up to its blocking *)
(* write.                                                                  *)
(***************************************************************************)
\* Variant: the length is counted down before it is compared with zero.
LastStepEarly(w) == w.left <= 1

\* qs.ap_qs_len() == 0
LastStep(w) == w.left = 0

\* if (counter < AHEAD_COUNTER) counter += 1
Credit(c) == IF c < Ahead THEN c + 1 ELSE c

MergeOld(l) ==
  /\ Empty(hold[l]) /\ ~Empty(old[l])
  /\ LET w == Head(old[l]) IN
       IF LastStep(w)
       THEN /\ finished' = finished \cup {w.query}
            /\ counter' = [counter EXCEPT ![l] = Credit(@)]
            /\ UNCHANGED hold
       ELSE /\ hold' = [hold EXCEPT ![l] = <<[w EXCEPT !.left = @ - 1]>>]
            /\ UNCHANGED <<finished, counter>>
  /\ old' = [old EXCEPT ![l] = Tail(@)]
  /\ timeout' = [timeout EXCEPT ![l] = 0]
  /\ UNCHANGED <<fresh, new, out, ret, steps, granted>>

\* Variant: a lane injects whenever no walk comes back.
MayInjectAlways(l) == ~Empty(new[l])

\* counter != 0 and new_query.read_nb() succeeds
MayInject(l) == counter[l] # 0 /\ ~Empty(new[l])

\* What the lane leaves in new.
NewLeft(l) == IF MayInject(l) THEN Tail(new[l]) ELSE new[l]

\* Variant: an idle lane keeps its counter.
ExpiredNever(l) == FALSE

\* The lane has seen no returning walk for Timeout iterations.
Expired(l) == timeout[l] >= Timeout

MergeNew(l) ==
  /\ Empty(hold[l]) /\ Empty(old[l])
  /\ LET used == IF MayInject(l) THEN counter[l] - 1 ELSE counter[l] IN
       IF Expired(l)
       THEN /\ counter' = [counter EXCEPT ![l] = Ahead]
            /\ granted' = granted + (Ahead - used)
       ELSE /\ counter' = [counter EXCEPT ![l] = used]
            /\ UNCHANGED granted
  /\ timeout' = [timeout EXCEPT ![l] = IF @ < Timeout THEN @ + 1 ELSE 0]
  /\ hold' = [hold EXCEPT ![l] = IF MayInject(l) THEN <<Head(new[l])>> ELSE @]
  /\ new' = [new EXCEPT ![l] = NewLeft(l)]
  /\ UNCHANGED <<fresh, out, ret, old, finished, steps>>

\* out_query.write(): the lane stops here while out is full.
MergeWrite(l, via) ==
  /\ ~Empty(hold[l]) /\ Len(out[l]) < LinkDepth
  /\ LET w == Head(hold[l]) IN
       out' = [out EXCEPT ![l] =
                 Append(@, [query |-> w.query, left |-> w.left, via |-> via])]
  /\ hold' = [hold EXCEPT ![l] = <<>>]
  /\ UNCHANGED <<fresh, new, ret, old, counter, timeout, finished, steps, granted>>

-----------------------------------------------------------------------------
\* rpa_router, row pointer, sample, cla_router, column: the walk makes a step
\* and reaches the FIFO of the lane that holds its new vertex.
WalkStep(l) ==
  /\ ~Empty(out[l])
  /\ LET w == Head(out[l]) IN
       /\ Len(ret[w.via]) < RetDepth
       /\ ret' = [ret EXCEPT ![w.via] =
                    Append(@, [query |-> w.query, left |-> w.left])]
       /\ steps' = [steps EXCEPT ![w.query] = @ + 1]
  /\ out' = [out EXCEPT ![l] = Tail(@)]
  /\ UNCHANGED <<fresh, new, hold, old, counter, timeout, finished, granted>>

\* rpa_end_ws_scheduler hands a walk from lane l to lane m of query_merge.
Return(l, m) ==
  /\ ~Empty(ret[l]) /\ Len(old[m]) < LinkDepth
  /\ old' = [old EXCEPT ![m] = Append(@, Head(ret[l]))]
  /\ ret' = [ret EXCEPT ![l] = Tail(@)]
  /\ UNCHANGED <<fresh, new, hold, out, counter, timeout, finished, steps, granted>>

Next ==
  \/ \E q \in Query, l \in Lane : Load(q, l)
  \/ \E l \in Lane : \/ MergeOld(l) \/ MergeNew(l) \/ WalkStep(l)
                     \/ \E m \in Lane : MergeWrite(l, m) \/ Return(l, m)

Spec == Init /\ [][Next]_vars

\* All kernels are free running; the schedulers and routers deliver (their
\* own modules show it).
Fairness ==
  /\ WF_vars(\E q \in Query, l \in Lane : Load(q, l))
  /\ \A l \in Lane :
       /\ WF_vars(MergeOld(l) \/ MergeNew(l))
       /\ WF_vars(\E m \in Lane : MergeWrite(l, m))
       /\ WF_vars(WalkStep(l))
       /\ WF_vars(\E m \in Lane : Return(l, m))

FairSpec == Spec /\ Fairness

-----------------------------------------------------------------------------
InRing(f) == UNION {{f[l][i].query : i \in DOMAIN f[l]} : l \in Lane}

\* Injected queries whose walk is not over.
Outstanding == Query \ (fresh \cup finished \cup InRing(new))

Pool == INSTANCE WorkPool WITH
  pool <- (Query \ fresh) \ finished, taken <- finished

\* ImplementsPool: every query that is loaded finishes once.
ImplementsPool == Pool!Spec

\* ExactLength: a walk of length n makes n + 1 steps, wherever it is now and
\* whichever lanes it came through (the host counts on SIZE * (LEN + 1) steps).
ExactLength ==
  /\ \A l \in Lane :
       /\ \A i \in DOMAIN new[l] : steps[new[l][i].query] = 0
       /\ \A f \in {hold, out} : \A i \in DOMAIN f[l] :
            steps[f[l][i].query] = WalkLen[f[l][i].query] - f[l][i].left
       /\ \A f \in {ret, old} : \A i \in DOMAIN f[l] :
            steps[f[l][i].query] = WalkLen[f[l][i].query] - f[l][i].left + 1
  /\ \A q \in finished : steps[q] = WalkLen[q] + 1

\* RingBounded: the walks in the ring are at most AHEAD_COUNTER per lane and
\* what timeouts granted on top, although credits do not go back to the lane
\* that spent them.
RingBounded ==
  Cardinality(Outstanding) <= Ahead * Cardinality(Lane) + granted
=============================================================================
