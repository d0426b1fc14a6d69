---------------------------- MODULE MCWeightedWalk ----------------------------
(***************************************************************************)
(* Instances of the parts of the pipelines of the weighted walks, metapath *)
(* and node2vec, that are modelled one by one: the vertex cache            *)
(* (VertexCache), the burst engine (DynamicBurst), the weights of          *)
(* node2vec (SecondOrder) and the sampling kernels (Reservoir).  A         *)
(* behaviour is one of the part its initial state picks; the variables of  *)
(* the others rest.                                                        *)
(***************************************************************************)
EXTENDS VertexCache, SequencesExt

CONSTANTS BurstRounds, Word, MaxLen, IdRange, Base, Depth,  \* DynamicBurst
          SampleLists, Lanes, Bits, Draws,                  \* Reservoir
          Steps, Walks, StepWord, StepLanes, Invalid        \* SecondOrder

VARIABLES
  part,
  lists, replies, burstRound, burstTodo, burstPc, next, update, vds, gen, cmd, burstOn,
  work, out, dynamic, sync, seen, sampled, current,
  toSample, fifo, base_sum, selected, drawn, chosen,
  due, weighed, coming, ch, stopping, staList, siList, lane, rows

burstVars == <<lists, replies, burstRound, burstTodo, burstPc, next, update, vds, gen, cmd,
               burstOn, work, out, dynamic, sync, seen, sampled, current>>
sampleVars == <<toSample, fifo, base_sum, selected, drawn, chosen>>
stepVars == <<due, weighed, coming, ch, stopping, staList, siList, lane, rows>>

Burst == INSTANCE DynamicBurst WITH
  Rounds <- BurstRounds, asked <- lists, answered <- replies, round <- burstRound,
  todo <- burstTodo, pc <- burstPc, on <- burstOn

Sampler == INSTANCE Reservoir WITH Lists <- SampleLists, lists <- toSample, answers <- chosen

Step == INSTANCE SecondOrder WITH Word <- StepWord, NumLanes <- StepLanes

ASSUME Burst!BurstAssumption /\ Sampler!ReservoirAssumption /\ Step!SecondOrderAssumption

InitOfPart ==
  /\ part \in {"cache", "burst", "sample", "step"}
  /\ Init /\ Burst!Init /\ Sampler!Init /\ Step!Init
  /\ part # "cache" => policy = "none"
  /\ (part = "sample") <=> (toSample # << >>)
  /\ (part = "step") <=> (coming # << >>)

CacheNext == part = "cache" /\ Next /\ UNCHANGED <<part, burstVars, sampleVars, stepVars>>
BurstNext == part = "burst" /\ Burst!Next /\ UNCHANGED <<part, vars, sampleVars, stepVars>>
SampleNext == part = "sample" /\ Sampler!Next /\ UNCHANGED <<part, vars, burstVars, stepVars>>
StepNext == part = "step" /\ Step!Next /\ UNCHANGED <<part, vars, burstVars, sampleVars>>

\* Of the fairness of the modules this is what the properties need: the rounds of
\* the cache and of the burst engine, the lists to sample and the steps cannot go on for ever, so
\* it is enough that something moves.
CacheFairness == WF_vars(part = "cache" /\ Next)
BurstFairness == WF_burstVars(part = "burst" /\ Burst!Next)
SampleFairness == WF_sampleVars(part = "sample" /\ Sampler!Next)
StepFairness == WF_stepVars(part = "step" /\ Step!Next)

PartSpec ==
  /\ InitOfPart
  /\ [][CacheNext \/ BurstNext \/ SampleNext \/ StepNext]_<<part, vars, burstVars, sampleVars, stepVars>>
  /\ CacheFairness /\ BurstFairness /\ SampleFairness /\ StepFairness

-----------------------------------------------------------------------------
(* The instances *)

\* Two lines; vertices 0, 2 and 4 share line 0, vertex 1 has no neighbour.
MCMemory == (0 :> <<0, 3>>) @@ (1 :> <<3, 0>>) @@ (2 :> <<3, 2>>) @@ (4 :> <<5, 5>>)

Walk(v) == [v |-> v, ended |-> FALSE]
Ended(v) == [v |-> v, ended |-> TRUE]

\* Hits on a line that a miss of another vertex is about to replace, repeated misses of
\* one vertex, an ended walk on a cached vertex, a vertex without neighbours.
MCRounds == {<<Walk(0), Walk(2), Walk(0)>>, <<Walk(4), Ended(4), Walk(0)>>,
             <<Walk(2), Walk(2), Walk(1), Walk(4)>>}

\* Words of two entries.  Lists: empty, inside one word, over two words (two short
\* bursts), one long burst of three words, a long burst and a short one.
EmptyList == <<4, 0>>
InWord    == <<2, 1>>
TwoWords  == <<1, 2>>
Long      == <<2, 6>>
LongRest  == <<4, 7>>

\* Orders in which a short way could overtake a long one.
MCBurstRounds == {<<TwoWords, InWord, EmptyList>>, <<LongRest, EmptyList, InWord>>,
                  <<EmptyList, Long, TwoWords>>, <<InWord, LongRest>>}

\* Words of two weights of 3 bits.  A list over two words whose odds are exact, a list
\* whose weights are all 0 after one that is answered, words without weights, the largest
\* sum; and nothing, in the runs of the other parts.
Weighted(a, w) == [addr |-> a, weights |-> w]
MCSampleLists ==
  {<< >>,
   <<Weighted(8, <<1, 1, 2, 4>>), Weighted(4, <<0, 3>>), Weighted(2, <<0, 0>>)>>,
   <<Weighted(2, <<3, 1, 0, 0>>), Weighted(6, <<0, 0, 0, 5>>)>>,
   <<Weighted(4, <<0, 1>>), Weighted(8, <<2, 3, 1, 2>>)>>}

\* Words of four entries on two lanes.
List(o, vs) == [offset |-> o, vs |-> vs]
NoList == List(0, << >>)
StepOf(last, curr, prev) == [last |-> last, curr |-> curr, prev |-> prev, final |-> FALSE]
FinalStep(last, prev) == [last |-> last, curr |-> NoList, prev |-> prev, final |-> TRUE]

\* One step whose last list is any part of 1..6 (at most two words: see MCSecondOrder).
AnyLastList == {<<StepOf(5, List(0, <<2, 3, 5, 6>>),
                        List(1, SetToSortSeq(s, LAMBDA a, b : a < b)))>> : s \in SUBSET (1..6)}

\* Lists inside a word and over two words, no last list, walks that have ended in the
\* middle and at the end of a batch; and nothing, in the runs of the other parts.
MCWalks ==
  {<< >>,
   <<StepOf(3, List(2, <<2, 3, 5>>), List(0, <<3, 5>>)), FinalStep(5, List(0, <<3>>))>>,
   <<StepOf(5, List(0, <<1, 2, 5, 6>>), NoList), FinalStep(2, List(0, <<3>>)),
     StepOf(2, List(3, <<4>>), List(1, <<2, 4>>))>>,
   <<StepOf(6, List(1, <<6, 7>>), List(0, <<3, 7>>)), StepOf(1, NoList, List(0, <<1, 3>>)),
     StepOf(4, List(2, <<1, 2, 4, 6>>), List(3, <<2, 3, 4, 5, 7, 8>>))>>,
   <<StepOf(9, List(0, <<1, 2, 3, 4>>), List(0, <<1, 2, 3, 5, 6>>)),
     StepOf(5, List(2, <<3, 5, 7>>), List(1, <<2, 4, 7>>))>>}
  \cup AnyLastList

MCSteps == UNION {ToSet(w) : w \in MCWalks}

-----------------------------------------------------------------------------
(* The properties of the parts, explained in their modules.  Those of a part  *)
(* that rests hold of its initial state.                                      *)

\* Types and depths.
AllTypeOK == TypeOK /\ Burst!TypeOK /\ Sampler!TypeOK /\ Step!TypeOK

\* DynamicBurst: nothing of a round is left when the host sees it finished; sample sees
\* the entries of its list; the merges restore the order.
RoundsApart == Burst!RoundsApart
ExactEntries == Burst!ExactEntries
ImplementsService == Burst!ImplementsService

\* Reservoir: the kernels implement a weighted choice, the one the formula gives for the
\* numbers drawn, and in proportion to the weights.
ImplementsChoice == Sampler!ImplementsChoice
ChosenAsDrawn == Sampler!ChosenAsDrawn
Proportional == part = "sample" => Sampler!Proportional

\* SecondOrder: every word of neighbours gets the weights of node2vec.
ImplementsWeights == Step!ImplementsWeights

\* AllEnd: a round that has begun ends; vcache_mem or the burst engines return, which is
\* what the host waits for before it goes on.
RoundOn == on \/ \E e \in Burst!Engines : burstOn[e]
AllEnd == RoundOn ~> (IF part = "burst" THEN Burst!Finished ELSE Finished)
=============================================================================
