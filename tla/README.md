# RidgeWalker in TLA+

RidgeWalker runs random walks on graphs on an FPGA. Its parts are free-running
HLS kernels that exchange packages over bounded FIFOs: there is no shared memory
and no clock in the program text, only loops that read with `read_nb`, decide,
and write with a blocking `write`. What is hard about it is what the FIFOs allow:
the order of packages that took different ways, kernels that wait for each other,
a ring that must not fill up, and a host that has to find out when all is over.
These modules model that, with the data of a walk reduced to what the control
depends on.

## 1. Inventory

### Uniform random walk (`app/uniform_random_walk`)

The application is a ring of eight lanes (kernel.cfg wires it):

    query_loader -> rpa_ws_scheduler -> query_merge.new
    query_merge.out -> rpa_router -> rpa_in -> (2 channels) rpa_engine -> rpa_out
      -> uniform_sample -> cla_router -> cla_in -> (2 channels) cla_engine -> cla_out
      -> router_state -> rpa_end_ws_scheduler -> query_merge.old
    router_state.state -> query_statistic        end_ctrl -> engines

| component | state | operations | what makes it correct |
|---|---|---|---|
| butterfly switch (`switch_butterfly`) | FIFOs of each level, the item every distributor and merger holds, the mergers' `schedule_flag` | distribute by a bit of the destination, merge two inputs alternately | items leave on their own lane; no loss, repetition or reordering within a flow; no lane starves |
| rpa/cla routers | streams around the switch | compute the destination, drop it at the end | the lane is the one whose memory channels hold the vertex |
| work-stealing scheduler | as the switch, with a `schedule_flag` per distributor | send an item to the side that has room | no query lost or repeated, every lane is fed |
| lane access (`lv_rpa_access`, `lv_cla_access`) | commands, query states and data per channel, engine state, end tokens | send command and query state, read memory, pair them up again, start and end the engines | every query is answered once, with its own word, across restarts |
| query_merge | `counter` and `timeout` of each lane | prefer returning walks, inject new ones while there are credits, refill after a time-out | the number of walks in the ring is bounded, walks have the right length, all end |
| router_state, query_statistic | a count per lane, sums on their way, the last sample | count, add up, compare samples | the host is told the end, with the right count |
| end_ctrl, host | the iteration | start the engines, load, wait, write end tokens, join | tokens and starts match |
| query_loader | position in the list | write one query per lane and word | each query once |
| uniform_sample, random numbers | none | pick a neighbour | arithmetic, not modelled |

### MetaPath and node2vec (`app/metapath`, `app/node2vec`)

One in-order pipeline in a loop. The host starts `ring_manager`, `step_loader`,
`fetch_next` and the engines of every round and waits for them:

    step_loader -> ring_manager -> vertex_loader -> vcache_mem -> vcache_duplicate
      -> vcache_vd -> vd_scheduler -> cmd_generator -> dyburst_core (3 engines)
      -> intra_merge, inter_merge -> label_filter -> partial_sum, perfix_sum,
         scale_weight, reservoir_mask, sample -> update_merge -> fetch_next
      -> step_update -> ring_manager          vcache_update -> vertex_loader

A step of node2vec asks for two lists, the neighbours of the current vertex and those
of the last one, and weighs each neighbour by comparing them:

    step_duplicator -> vertex_loader -> vd_dispatch
      -> sta_vd_scheduler -> sta_cmd_generator -> staburst_core -> weight_duplicate
           -> current_mask -> weight_dispatch_2 -> (4 lanes) merge_mask
           -> weight_dispatch_1 -> (4 lanes) neighbor_mask -> merge_mask
      -> si_vd_scheduler -> si_cmd_generator -> siburst_core -> weight_duplicate_4
           -> (4 lanes) neighbor_mask
    merge_mask (4 lanes) -> merge_weight -> partial_sum, ... as above
    step_duplicator -> assert_filter_woe -> sta_cmd_generator -> current_mask
    sta_vd_scheduler -> assert_filter_woe

| component | state | operations | what makes it correct |
|---|---|---|---|
| `ring_manager`, `step_loader`, `step_update` | `slot_status`, `ring_counter`, a pending update, at most 256 walks | take a walk back, insert a new one into a free slot, count the steps | a slot has one walk, the loop cannot fill up, nothing is left when it returns |
| vertex cache (`vdac_cache`, `cache_*_update`) | a direct-mapped table, updates on their way | look up, fetch from memory, copy, update, drain and clear after the last walk | the answers are those of memory, in order; updates cannot fill their stream |
| dynamic burst engine (`sdyburst`) | ids of lists, bursts and commands, registers of three merges | send a list along one of four ways, cut it into bursts, mask, merge, stop the engines | answers in order and from the entries of the list; rounds do not mix |
| weighted sampling (`wrs`, `msample`) | `base_sum`, `selected_index` | sum, scale a random number, compare, keep the last winner | a neighbour is chosen in proportion to its weight, lists do not mix |
| second-order step (`setintersetion`, `isne_x16`, `staburst`, `siburst`) | what is left of each list, `final_current` and state of every lane's `neighbor_mask`, a row of weights | send the last vertex along with each word, drop it for ended walks, merge two sorted lists on four lanes, put the lanes together | the weights are those of node2vec, word by word in order; the lanes cannot wait for each other for ever |
| `label_filter` | tables | set weights to zero | data of a step, not modelled |

### Several boards

| component | state | operations | what makes it correct |
|---|---|---|---|
| coalescing router (`lv_coalease_net`) | a package being filled, counters, a package held back, signals | pack tasks, close frames by number or by time-out, hand complete frames over | each task once, in order, in bounded frames, and flushed when traffic stops |
| `net_scheduler` | status and turn | merge frames of two inputs | frames whole, inputs take turns |
| crossing switch (`test_butterfly_4x4_cross_net`) | buffers of filters, a frame being built | join streams with bubbles, fill the bubbles, frame, spread | items once, in order, flushed |
| reconfigurable routers (`lv_rpa_crouter`) | a copy of the routing table per lane | load the table along a chain, route to a lane or a board | a walker reaches the board that the host's table means for it |

### Hard behaviours

PROJECT.json lists them as hazards, each at its line. The main ones:

* packages of one query travel on two ways and are paired by order only (lane access);
* the host starts and ends the engines while queries may be on their way;
* credits come back on another lane than the one that spent them and can be lost;
  only the time-out of a lane without credits makes it go on (query_merge);
* termination is deduced from sums of counts that were read at different moments,
  may have been dropped, and may be older than the question (query_statistic);
* two reads of one stream in one iteration, with an arrival in between (ring_manager);
* walkers that come to a mapper while its routing table is still on the way (rpa_crouter);
* time-outs of two kernels that race for one frame, with a task that arrives in that
  moment (network framing);
* a decision about a line of a table that takes effect rounds later (vertex cache);
* words of one list that come from engines of different speed, put into order by ids
  that wrap round (burst engine);
* five kinds of streams that only their order ties together, some of which drop the
  members of empty lists and ended walks and some of which do not (node2vec).

## 2. Modules

| module | models | source |
|---|---|---|
| `ButterflyNet` | the levels, FIFOs, distributors and mergers both networks consist of | butterfly_network.hpp, butterfly_switch.hpp |
| `Crossbar` | abstract: a FIFO channel from every source lane to every destination lane | |
| `ButterflySwitch` | the routing switch with rpa_input and rpa_output | rpa_router.cpp |
| `Butterfly_proof` | theorems about both networks: the switch; the scheduler with queries that have an identity | |
| `ButterflyTraffic` | the switch under endless traffic | |
| `LaneMap` | vertex id to lane, channel, address | rw_type.h, rpa_router.cpp, cla_router.cpp |
| `WorkPool` | abstract: queries are put in and taken out exactly once, each in the end | |
| `WorkStealing`, `WorkStealingOnce` | the scheduler under endless work; with queries that have an identity | butterfly_work_stealing.hpp, rpa_ws_scheduler.cpp |
| `LaneAccess` | rpa_in, two engines, rpa_out, end_ctrl, the host | lv_rpa_access, mem_access.hpp, host.cpp |
| `LaneAccess_proof` | its theorems | |
| `UrwRing`, `UrwRing_proof` | query_merge and the ring around it; theorems | query_merge.cpp, kernel.cfg |
| `StepCount` | router_state, debug_dump, query_statistic | router_state.cpp, query_statistic.cpp |
| `RingManager` | step_loader, ring_manager and its loop | ring_manager.cpp, mrw/step_update.h |
| `MCEndings_proof` | theorems about `StepCount` and `RingManager`, as `MCEndings` instantiates them | |
| `LookupService` | abstract: every lookup is answered with what memory holds, in order | |
| `VertexCache` | vertex_loader, vcache_mem, vcache_duplicate, vcache_vd, vcache_update in its three builds, the host's rounds | vdac_cache, cache_*_update |
| `BurstService` | abstract: every list is answered with its words, in order | |
| `DynamicBurst` | vd_scheduler, cmd_generator, the engines, the merges, the host's rounds | sdyburst |
| `BurstEngine_proof` | the invariant of `DynamicBurst`, and the steps of the engines, the merges and sample | |
| `MCWeightedWalk_proof` | the steps of vd_scheduler, cmd_generator and the host; theorems about `VertexCache` and `DynamicBurst`, as `MCWeightedWalk` instantiates them | |
| `WeightedChoice` | abstract: every list is answered by one of its entries with a weight, in order | |
| `Reservoir` | bs_duplicator, partial_sum, perfix_sum, scale_weight, reservoir_mask, sample | wrs, msample |
| `SecondOrderService` | abstract: every word of neighbours is answered with its word of weights, in order | |
| `SecondOrder` | step_duplicator, vd_dispatch, assert_filter_woe, the two burst engines with their schedulers and generators, the duplicators, current_mask, neighbor_mask, merge_mask, merge_weight | setintersetion, isne_x16, staburst, siburst, app/node2vec/kernel.cfg |
| `FrameLink` | abstract: tasks in order, cut into frames that are handed over when complete | |
| `NetFraming` | rpa_to_net_with_timeout, net_framing_signal_generator, net_framing | butterfly_network.hpp, router_coalease.hpp |
| `NetScheduler` | the tree of net_scheduler and net_frame_out | butterfly_network.hpp |
| `PairLink` | coalesce_with_bubble, filter_bubble_in_pair, free_run_frp_to_net_timeout, dispatch_remote_package | butterfly_network.hpp, switch_4x4.cpp |
| `MCNetwork_proof` | theorems about `NetFraming`, `NetScheduler` and `PairLink`, as `MCNetwork` instantiates them | |
| `RemoteRouter` | the host's set_config, rng_config_loader, router_mapper_instance, dispatch_net_package, the boards | rpa_crouter.cpp, rng_config_loader.cpp, lv_host_cswitch_test_net/host.cpp |
| `RemoteRouter_proof` | its theorem | |

`MC...` modules give the constants of a specification values for TLC. `MCNetwork`
and `MCWeightedWalk` instantiate four specifications, `MCTraffic` and `MCEndings` two:
the initial state picks one of the parts (`part`) and only that one moves, so that a run is the
union of their state spaces, not the product. `Steal(F)` of `MCTraffic` and `Router(case)` of
`MCNetwork` are instances with a parameter, the lanes that have work and the boards with their
network; the initial state picks the parameter as well. The assumptions of the instanced modules
are asserted there (`ASSUME Burst!BurstAssumption`). Where a module is checked this
way, its properties are stated in the module and given a name in the MC module.

Operators commented as "Variant" are not used by any specification: each is a
plausible mistake in the operator that follows it, and PROJECT.json says which
property notices it.

### Conventions

* A stream is a sequence, bounded by its depth. A loop body that reads and then
  writes is two actions; between them the package is in a register (a sequence of
  at most one element), because the blocking write may take arbitrarily long.
* A wire of the butterfly is its vector of bits. The instances of
  `distribute_package` in switch_16x16_frp at level l have the mask 2^(l-1), and
  exchange exactly the wires that differ in bit l.
* In `LaneAccess` the engine looks at its two FIFOs (EngineSample) and reads the
  token later (EngineEnd): commands that arrive in between are served after the
  next start. The host may send end tokens at any moment, since query_statistic's
  verdict does not depend on the queries' being through; the last start of an
  instance is not ended, so that "answered" is not a matter of the bound.
* In `UrwRing` the parts between `out` and `old` are what their modules show of
  them: the way from `out` to a lane's return FIFO is one action, the lane it ends
  at is arbitrary (the graph decides), and so is the lane the scheduler returns it
  to. `RetDepth` stands for the two 4096-deep FIFOs of a lane.
* In `RingManager` the pipeline keeps the order of walks. It stands for the
  kernels between `out` and `old_query`, which return after a package with the
  last flag. The queries of a run have one length, as `set_random_query` gives
  them (host/kernel/step_loader.h); the last query has more than one step.
* In `VertexCache` an iteration of vertex_loader is up to three steps (look up, send,
  poll the updates), since its writes block; vcache_duplicate, which copies two streams
  in lock step, holds what it still has to write. The three builds of vcache_update
  differ in `Replaces` only.
* In `DynamicBurst` the head of a stream stands for the register a merge has read it
  into, and a sync package travels with its word of weights. `Unmasked` is the mask as
  the code computes it (finding 3); the lists of `weighted_walk` that need a long
  burst begin at a multiple of a word.
* In `Reservoir` an iteration is one step. Its kernels take one package from each
  input and put one on each output, always in the same order, so that where a kernel
  waits changes when, not what; the flush counters end loops that carry no other state.
  Random numbers are arbitrary members of `Draws`.
* In `SecondOrder` a kernel that writes several streams does so when all have room; in
  the code it holds the package while it waits for one of them, which only gives it more
  room. A command of a burst engine stands for the one word it reads
  (`DYNAMIC_BURST_MAX_LENGTH` is 1). vertex_loader, whose answers are in order by
  `ImplementsLookup`, is part of `DuplicateStep`. An ended walk has no neighbours of the
  current vertex; the last package of a batch is one of those. No vertex is 0: the code
  itself takes 0 for an entry outside the list.
* In `NetFraming` and `PairLink` nothing relates the speeds of the kernels: a time-out
  may fall between any two steps of the others. `RemoteRouter` keeps the place of each
  walker, and the network between the boards is a set of packages in flight. The host joins
  the loaders after writing a table and then starts the walkers: nothing makes them wait for
  the entries, which may still be on the chain.
* History variables (`sent`, `recv`, `asked`, `answers`, `answered`, `drawn`, `put`,
  `taken`, `steps`, `granted`, `finished`, `quiet`, `wire`, `home`, `early`) record what happened and
  guard nothing but the environment's bound.

## 3. What is checked

Every property is one that some plausible change of the code breaks.

| run | shows |
|---|---|
| `butterfly_2x2` | `ImplementsCrossbar`: the switch refines `Crossbar`, including delivery. The mapping takes as the channel from s to d what s has sent to d and d has not received; that d receives it in order is what the run shows. `Delivered`: each query leaves on the lane of its vertex; for more levels it is proved. |
| `traffic` | under traffic that never ends (items are not numbered, the state space is finite without a bound): `SwitchStarvesNoLane` for the switch; for the work-stealing network `EveryLaneFed`: the work of some lanes is spread over all, and `EveryFeederServed`: a lane with work goes on being served, although its items are committed to full FIFOs |
| `steal_once` | `ImplementsPool`: the scheduler refines `WorkPool`, two levels |
| `lane_access` | `Paired`, `InStep`, `NoStaleToken`, `OwnRow`, `ImplementsPool` with two starts of the engines |
| `urw_ring` | `ExactLength`, `RingBounded`, `ImplementsPool` |
| `endings`, count | `FinalCount`; `Joins`: query_statistic tells the host, which then ends |
| `endings`, ring | `OwnSlot`, `NeverBlocked`, `LeavesNothing`; `Joins`: ring_manager returns, or a slot has leaked before (finding 1) |
| `weighted_walk`, cache | `ImplementsLookup`: the cache refines `LookupService`; `NeverHeldUp`; `AllEnd`: a round ends |
| `weighted_walk`, burst engine | `ImplementsService`: it refines `BurstService`; `RoundsApart`, `ExactEntries`; `AllEnd` |
| `weighted_walk`, sampling | `ImplementsChoice`: it refines `WeightedChoice`; `ChosenAsDrawn`: the answer is the one the formula of the comment gives; `Proportional`: over all random numbers, exactly in proportion to the weights |
| `weighted_walk`, step | `ImplementsWeights`: the second-order step refines `SecondOrderService`, including that every word is answered |
| `network`, lane | `NeverWaitsMidFrame`; `CompleteFramesInOrder`: the lane refines `FrameLink` |
| `network`, scheduler | `FramesWhole`, `Alternates`; `NothingStays`: what the lanes have written goes out |
| `network`, crossing switch | `OnceInOrder`, `FramesBounded`; `NothingStays`: no item is held for ever |
| `network`, boards | `AllArrive`: every walker comes out on the board that the host's table means for it, unless a mapper looked it up before its entry had come |
| `ring_leak` | violated: `SlotFreed` (finding 1) |
| `lane_channel` | violated: `ChannelIsBit3` (finding 2) |
| `burst_mask` | violated: `ExactEntries`, with a long list that begins inside a word (finding 3) |
| `neighbor_forgets` | violated: `GroundTruth`, with a last list of three words (finding 4) |

The types are checked, as `AllTypeOK`, in `endings`, `weighted_walk` and `network`; those of
the switch, of the lane access and of the ring are proved.

### Bounds

* FIFO depths are 1 or 2 instead of 12 to 4096, so that every FIFO is full at some
  time and every write blocks at some time. Nothing in the code depends on a depth
  except through full and empty; where it does depend on the relation between two
  numbers the relation is kept: the return FIFO of `RingManager` is larger than
  the ring (512 and 256), and `OuterCounter` is larger than the number of sums the
  FIFOs hold (8192 and about a dozen). That last relation is an assumption of
  `StepCount`; 6 is the smallest value for which `FinalCount` holds with the
  depths of the run.
* Two lanes and one level show the blocking and fairness of a distributor and a
  merger; two levels show routing. The proofs cover any number of levels.
* `traffic`: the lanes of the scheduler with work are the first, the second, or both
  (`FeederNos`). With one of them, the other lane gets all its work by stealing.
* `lane_access` uses the four vertices of lane 5 in a graph of 32: two rows, two
  channels, so that order within and across channels matters.
* `urw_ring` has four queries, one credit per lane, one place per FIFO: a lane
  without credits whose walks end elsewhere, lost credits, time-outs while walks
  are on their way and full return FIFOs all occur. With fewer than
  RetDepth + (2 LinkDepth + 1) * lanes walks the ring cannot block on itself; see
  section 6.
* `endings`: ring_manager has six queries for three slots, so that slots are reused by
  both kinds of insertion and `ring_counter` wraps.
* `weighted_walk`: the cache has two lines and four
  vertices, three on one line, and requests that hit a line a miss is about to replace;
  two rounds, so that an update of the first may meet the second. The burst engine has
  words of two entries and long bursts of three words; lists go along each way in orders
  in which a short way could overtake a long one. Ids count modulo 16 and start just below
  the wrap; `BurstAssumption` asks for more ids than streams and registers can hold lists or
  commands (15 streams of depth 512 at most in the code, and 0x8000 ids). The
  sampling kernels have two lanes and numbers of three bits; a list over two words whose
  odds three bits can express, so that `Proportional` may ask for equality (4096 draws),
  a list of weight zero after one that is answered, and the largest sum. With longer
  words or more bits nothing new happens: lanes are compared one by one, and words
  interact through `base_sum` and `selected` only. The second-order step has words of four
  entries on two lanes and one place per stream. One current list meets every last list
  of vertices up to 6; walks of two and three steps have lists inside a word and over two
  words, empty ones, and walks that end in the middle and at the end of a batch. Last
  lists have at most two words, since with three neighbor_mask forgets (finding 4).
* The stream of updates in `VertexCache` is deeper than `Capacity`, the lookups the way
  through memory holds (`DepthAssumption`; 512 in the code). Where that fails,
  vertex_loader, which alone empties this stream, could be held up by it.
* `network`: seven tasks in packages of two and frames of two packages leave partial
  packages and partial frames; four lanes and two levels of schedulers; five items of
  the crossing switch packed in fours. `RouterCases` are the cases of the routers: a walker
  among all four boards for each of the parts 5, 6 and 7, which `config_bipart.h` sends
  away, with two networks; a walker between boards 2 and 3 with four lanes and two
  entries, of which part 4 stays; and two walkers with four lanes and packages of up to
  two, so that packages meet in front of a lane and take turns at the halves. A walker may
  come at any moment after the last set_config, in front of any mapper. The networks
  are `hacc_gpu2_bipart`, where an id counts the other boards, and the default
  `hacc_gpu2_test`, where it is the number of the board. With `config_bipart.h` no board
  keeps parts 5 to 7, and on a network where the id is a number a board may send a walker
  to itself; where a walker belongs is therefore read from the table of the board it
  starts on, not from that of the board it comes to. `FramingAssumption`: a frame fits in the FIFO in front of
  net_framing, and the time-out is below the wrap of its eight-bit counter. The depths
  and constants in the code satisfy both.
* `network` has `CHECK_DEADLOCK FALSE`: its traffic ends, and the system then rests.

### Fairness

Weak fairness of every loop of every free-running kernel, and nothing else: such
a loop is hardware that runs in every cycle, and only an empty or full FIFO holds
it up, which disables the action. No strong fairness is assumed anywhere; that the
merger serves both inputs is shown, not assumed. The consumers of a network are
free running too. In `LaneAccess` the host's loop is fair; in `UrwRing` each of the
parts between `out` and `old` is fair because its own module shows that it
delivers. Walks that arrive (`CountWalk`, `Put`, `Send`) are not fair.

`MCWeightedWalk` and `MCNetwork` assume less than the modules do: for a part that cannot go
on for ever without new input, only that some kernel of it moves. The liveness
properties hold already then. ring_manager and query_statistic poll without end;
`MCEndings` keeps the weak fairness of each of their loops.

## 4. What is proved

`Butterfly_proof` proves of the switch, for every number of levels, depth, set of vertices
and placement, from the module's assumptions (`NetAssumption`: at least one level,
depth at least one; `SwitchAssumption`: `Dest` maps vertices to wires, and `Item`
contains the queries offered):

* `TypeCorrect`: Spec => []TypeOK
* `RoutesCorrectly`: Spec => []Routed
* `DeliversToDest`: Spec => []Delivered
* `SwitchImplementsCrossbar`: Spec => Switch!Init /\ [][Switch!Next]_(Switch!vars), the
  safety part of `ImplementsCrossbar`

`Delivered` is not inductive: that an item leaves on the right lane rests on its
having been turned right at every level before. The inductive invariant is
`IInv == TypeOK /\ Routed /\ Delivered`, where `Routed` says for each FIFO and
register that the destinations of its items agree with the bits of the wire up to
that level. A distributor extends the agreement by its bit, a merger keeps it, and
on the links of stage K+1 it is equality. The proof has a lemma per action, and
under each the parts of `Routed` the action can disturb.

For the refinement, the channel from s to d is what s has sent to d and d has not received
(`Channel`), with the items of a flow numbered by the environment. The theorem has to show
that whatever d receives next from s is the next of these. The invariant `SwitchInv` reads
the whole network as one function from places to sequences (`IsNet`) and says of every flow
(`Flows`): the items on their way are all on the places of one path, each of those sent and
not received is at some place, and the earlier of two is ahead (`Rank` orders the places of
a path). A step moves the head of a place to the end of the next (`FlowMove`), at the
entrance an item joins its flow as the youngest, and what comes out is the oldest. The
lemmas about places serve the scheduler as well.

Of the work-stealing scheduler:

* `StealingIsPool` (`Butterfly_proof`): the safety part of `ImplementsPool`, for every
  number of levels, depth, set of queries, home lanes and feeders that satisfy the
  assumptions of `WorkStealingOnce`. `PoolInv` says over the same places that no query is
  in two of them (`EachOnce`), and that what is in the network was put in and has not been
  taken out (`Pooled`). Stealing sends a query to any of the next two places, which is why
  `FlowMove`, with its path, does not do.

`LaneAccess_proof` proves for every set of queries, placement of their words in the
two channels, contents of the memory, depths and number of engine starts, from
`LaneAssumption` (every query names a channel and an address in it; depths and the
number of starts are positive):

* `PairsRight`: Spec => []Paired
* `StaysInStep`: Spec => []InStep
* `TokensMatchStarts`: Spec => []NoStaleToken
* `LaneIsPool`: Spec => Pool!Init /\ [][Pool!Next]_(Pool!vars), the safety part of
  `ImplementsPool`
* `LaneTypeCorrect`: Spec => []TypeOK
* `RowIsOwn`: Spec => []OwnRow, for the lanes 0 to 7 of a graph with any number of rows
  of 16 vertices, laid out as `MCLaneAccess` translates it from the host; `Paired` gives
  the word the address names, and `WordIsVertex` shows that it is the vertex's own.

Neither `Paired` (it says nothing of what is still inside) nor `InStep` (it counts,
and the engine might lose the word it holds when it returns) is inductive. The
invariant is `Aligned`: the words of a channel that are not paired yet (held by
rpa_out, in `data`, held by the engine, and those the commands in `cmd` will load),
in this order, are the words that the query states in `vds`, and the one rpa_in is
about to write, ask for. An engine or rpa_out moves a word along that sequence and
changes nothing; rpa_in appends to both sides; ReadQs takes the first of both. It
rests on `NothingHeld`: an engine about to return holds no word. For the tokens,
`Tokens` relates the host's place in its loop to the state of each engine.

That a query is inside is the union of what ten places hold, and taking a query from
one of them removes it from the union only if it is in no other. The invariant of
`LaneIsPool` therefore lines the places up (`IsWay`) and says that a query is on this way
once (`Once`); a step passes the head of one place to the end of the next. What it has to
know of the code besides is `Apart`: rpa_out reads no word while it holds a pair.

`MCNetwork_proof` is about three instances of `MCNetwork`. It proves for every number of tasks,
package and frame size, time-out and depth that satisfy `FramingAssumption`: `LaneTypeCorrect` (TypeOK), `SignalsMatchFrames`
(SignalPerFrame) and `NeverWaits` (NeverWaitsMidFrame). The invariant is `Balance`: the
closing packages in front of net_framing, with the one that is about to be written, are
as many as the signals that wait and the one it is working on. `NeverWaitsMidFrame`
alone is not inductive: whether the signals that wait are as many as the frames decides
what the next frame finds.

For every number of lanes, length
of frames and depth that satisfy `SchedulerAssumption`: `FramesStayWhole` (FramesWhole).
What may come next on the
wire depends on the FIFO the last scheduler keeps to, and that on the one before, up to a
lane; with one frame spread over several levels the FIFOs in between may be empty, so that
no state of the FIFOs alone is inductive. The invariant names for every FIFO the package
taken out of it last: what is in a FIFO may follow it, and a node that keeps to an input
has written just what it took there.

If the number of lanes is a power of two, also `TakesTurns` (Alternates): two frames that
follow each other come from different halves of the tree unless the other half had nothing
at the last scheduler. The property reads the half from the lane of a package, the
scheduler from the input it came by; `Placed` says that a package in FIFO c comes from a
lane below c. `PowerOfTwo` states the shape of the tree this takes, a number of lanes below
each node that its inputs halve; the tree of the code has eight lanes, and `EightLanes`
shows that eight is such a number.

For every frame size, time-out, depth and supply of items that satisfy `PairAssumption`:
`NoLongFrame` (FramesBounded). The bound on closed frames says nothing of the open one;
`OpenFrame` adds that frame_counter packages have been sent since the last frame was
closed, by count or by time-out.

`RemoteRouter_proof` proves, from `RouterAssumption`, for every set of boards, parts and
walkers, all tables and any number of lanes: `ArrivesAsMeant` (NoneAstray), the safety part
of `AllArrive`, if the socket table sends what is meant for a board there (`NetworkFits`,
which both networks do). Any mapper may be behind when a walker comes, so the invariant says
of each mapper and entry that it has the entry or has it in front of it on the chain
(`NoneMissing`), and of each walker that was not looked up too early where it may be
(`OnCourse`); a package carries its tasks to the board meant for each of them.

`MCWeightedWalk_proof` proves for every memory, table, build and depth that satisfy
`CacheAssumption` and `DepthAssumption`: `UpdatesFit` (NeverHeldUp). A lookup is on two
ways at once; the invariant `LengthsOK` says that both ways hold equally many, that the
way through memory holds at most `Capacity`, and that lookups and updates together
exceed that by at most one, until vertex_loader has polled.

`AnswersFromMemory` is the safety part of `ImplementsLookup`: every step of the cache is a
step of `LookupService` or leaves it alone, and the lines of the table are those of memory
at all times. It needs the invariant of `UpdatesFit`, by which the streams read in pairs
have equally many lookups behind them. The invariant `CacheInv` keeps a book of all lookups asked, each with what the table
said of it at that moment; every stream, and every package a process holds, is a run of
this book from a place that depends on how much is behind it (`Booked`). So what meets in
vcache_duplicate and vcache_vd belongs to one lookup.

With `BurstEngine_proof` it proves of the burst engine, for every set of rounds, word,
length of a long burst, depth and first id that satisfy `BurstAssumption`:

* `BurstRoundsApart`: PartSpec => [](Burst!TypeOK /\ RoundsApart)
* `BurstAnswersInOrder`: the safety part of `ImplementsService`
* `BurstExactEntries`: PartSpec => []ExactEntries, if `Exact`: every list a round may ask
  for that is long enough for a long burst begins with a memory word, and ends with one if
  it ends in a long burst. The lists of `weighted_walk` are such lists; finding 3 is what
  happens to the others.

A list goes one of three ways (answered at once, one command, cut into commands for two
engines), and nothing but two merges that compare ids, which go round, puts its words back
in order. No property of one stream is inductive, since what is at the head of one may
have to wait for something that is not cut yet. The proof has two layers.

*The words on their way* (`Way`) leaves the streams aside. An item is a range of words of
one list, with the number of its command; items stand at 13 places. `Ordered` says that
further on along a way is earlier in the order of the lists, `Present` and `Unseen` that
the words on their way are those sample has not seen, `Numbered` and `Bursts` that the
commands, and lists, on their way have all numbers from the one the merge waits for on, in
the same order. A step moves the front of an item to another place (`MoveTo`), and keeps
all of this unless it enters a place where two ways meet; there it takes that nothing of the
other way comes before it (`Clear`), which follows from its having the number that is due
(`IntraApart`, `InterApart`). Hence the next word that reaches sample is the next one of
its list, or the first one of the next list that has words (`NextWord`). The answers are in
two rising sequences, of empty lists and of others (`Answers`), which update_merge merges.

*The streams carry the items* (`BurstInv`): the values of each stream and register stand
for the items of its place (`Chain`), with the address, length, mask, flags and ids of
the item. Numbers become ids modulo `IdRange`. Because the numbers on their way have no
gap and every one has a place, there are at most 15 * Depth of them (`FewNumbers`), and
equal ids are equal numbers (`NumDue`, `AnswerDue`): this is where `BurstAssumption`
is needed. `Stopping` follows the list and the commands that make the engines return. When
they have, nothing is on its way (`NothingLeft`) and the ids due are the ids to be given,
wherever they stand, so that the next round may start without a reset (`Over`). The steps
are one lemma each (`DispatchEmpty`, `DispatchSingleKeeps`, `CutListKeeps`,
`IntraMergeKeeps`, ...), put together in `GoodStep`.

`MCEndings_proof` proves `ResultIsFinal` (FinalCount), from `StepCountAssumption`: for every
number of lanes, walks and starts, and depths that OUTER_COUNTER messages outlast.
`FinalCount` speaks of the moment at which query_statistic returns. The invariant numbers
the messages from its start on: those that are, or will be, made of what the FIFOs held at
the start are the first `Stale` ones (`Fresh`), so that the last message of a comparison is
made of final counts. counter restarts with each comparison and the number of messages
does not, which is why the invariant asks for one that is no smaller.

It also proves, assuming `RingManagerAssumption`, for every number of
queries, lengths of walks, ring size and depths: `SlotsApart` (OwnSlot) and, if the way
back is deeper than the ring (512 and 256 in the code), `LoopNeverBlocked`
(NeverBlocked). The invariant takes all streams of the loop as one sequence whose walks
have distinct, marked slots; a pending release frees a slot that nobody has. The second
theorem counts: distinct slots are at most as many as there are slots.

`NothingLeft` (LeavesNothing) assumes besides that no query is longer than the last one
(`NoneLonger`); the queries of the code have one length (`set_random_query`,
host/kernel/step_loader.h). Without it the property is false: ring_manager returns with the
last query, whatever is behind it. The invariant `RowInv` looks at the loop as a row of
turns: how often each walk will still come back with steps left. A walk in front of the last
query has no more turns than it, and one behind it fewer (`Ranked`), so when the last query
comes back for the last time it is alone.

`UrwRing_proof` proves for every set of queries and lanes, lengths of walks, number of
credits, time-out and depths that satisfy `RingAssumption`: `WalksExact` (ExactLength) and
`RingTypeCorrect` (TypeOK). The step of a walk adds one to a count by which every package
of the same query is measured, so `ExactLength` is only kept if there is no other such
package. The invariant gives each query a home, the one stream it is in: `AllPlaced` says
that the packages of a stream are those of the queries at home there, each once, and
`AllRight` what the count of a query is at each home. Every action but the first and the
last of a walk moves one package from one stream to another, and `MoveStep` treats them
together.

From the same invariant follow `RingStaysBounded` (RingBounded) and `RingIsPool`, the safety
part of `ImplementsPool`. For the bound, `WithinDebt` says that the walks in the ring are at
most the credits all lanes have spent (counted as a set, `Debt`) and what time-outs granted
on top; a walk that ends gives the credit to whichever lane it ends on, and one that
finds its lane full loses it, which leaves the debt larger than the walks.

Model-checked only:

* liveness, and with it the fairness part of every refinement (`Joins`, `AllEnd`,
  `NothingStays`, `EveryLaneFed`, `EveryFeederServed`, `SwitchStarvesNoLane`, arrival in `AllArrive`, delivery in `ImplementsPool`,
  `ImplementsCrossbar`, `ImplementsLookup`, ...), which the proof system does not reach;
* what a recursive definition computes for every input: `OnceInOrder` and
  `CompleteFramesInOrder` (what the packages on their way unpack to; filtered and flattened
  sequences have no definition the provers can use), `ChosenAsDrawn` and `Proportional`
  (sums over lists of weights), `ImplementsChoice`, `ImplementsWeights`; the bounds on sums in the types
  checked as `AllTypeOK` in `endings`, and the filtered streams in those of `network`;
* the safety parts of `ImplementsChoice` and `ImplementsWeights`, whose invariants need the
  same sums and filtered lists; that no list is lost between the kernels of `Reservoir`
  could be proved without them.

## 5. Findings

1. `ring_manager.cpp` keeps one pending update of `slot_status` per iteration. If a
   walk ends when `new_query` is empty, and a query arrives before ring insertion
   reads `new_query` in the same iteration, the release of the slot is replaced by
   the new slot's update. The slot is marked as taken for ever. When `ring_counter`
   gets there, ring insertion stops; with no walk left in the loop at that time
   ring_manager never returns: six queries in three slots are enough. The comment at
   line 128 says that the array is updated. `Joins` therefore asks of ring_manager to
   return unless a slot has leaked.
2. `rw_type.h` lines 120-121 name bits 2..0 as the destination and bit 3 as the
   channel; the code uses bits 3..1 and bit 0.
3. `dynamic_burst_32.h` masks the entries of a burst with start and end, `inclusive` and
   `exclusive` by the comment in `dyburst_helper.h:17`, but compares them in every word
   with the address of the burst, not of the word. A list that begins inside a word and is
   long enough for a long burst loses, in every word of it, the entries at the positions
   before its start. One that ends inside the last word of a long burst is given the
   entries of that word behind its end.
4. `neighbor_mask.cpp` merges two sorted lists. When the last entry of a lane is all that is
   left of the current list, the words of the last list that follow are compared with it,
   and `final_current` keeps whether one held it. A word that does not, unless it is the
   last, resets it (line 237), although a word before did. A neighbour of the last vertex
   then gets the weight 4 of a stranger instead of 2: the last vertex needs more than two
   words of neighbours, 33 or more in the code. `adj_test.cpp` compares with the right
   result (lines 206-214) and prints the number of errors.

Noted, without a property: as they stand, `label_filter.cpp`
line 25 reads a stream that is not declared and `metapath_sm.cpp` lacks a semicolon.

## 6. What is not modelled

* The data of a walk: neighbours, random number generation, the packing of fields, the
  labels that set weights to zero (`label_filter`, `metapath_sm`). `uniform_sample` consumes one package and produces one.
* A ring that is full. If all walks of a graph return to one lane, its return
  FIFOs hold 8192 of them while eight lanes have 57344 credits; the ring then
  blocks on itself. Nothing in the repository excludes such graphs; the runs stay
  below the number.
* The scheduler does not isolate a lane that stops: with both FIFOs of a
  distributor full, it commits to one, and waits there if the other drains first.
  `EveryLaneFed` and `EveryFeederServed` assume that all lanes are drained.
* query_statistic may end early when walks stand still for OUTER_COUNTER messages.
  `FinalCount` therefore only speaks of runs in which the walks were over. That an
  early end of the engines loses nothing is part of `lane_access`.
* step_loader's bursts of 32 (sizes that are no multiple load queries beyond the
  last), queries of one step in the last place, dead ends.
* In the second-order step: the copy of the words that waits for `sample`, the ids (one
  engine answers in order, so that none is compared), and the way of an ended walk
  (`update`, sta_update_merge, fetch_next). The weights p and q of node2vec are the
  constants 1, 2 and 4 of the code.
* Sums of weights of 2^32 and more, which wrap (`ReservoirAssumption`).
* What a walker looked up too early does to a host: `AllArrive` says nothing of it. The
  tables of `config_cross.h`, which no host includes.
* cla_crouter, which has the control of rpa_crouter with another task; the coalescers of
  `coalesce/`; the older caches (`src_cache`, `vcache_switch`), whose kernels no
  application's kernel.cfg instantiates in the modelled form.
* The host libraries, file formats, graph loading, the parser of `automation`, unit
  tests and reports.

The share of the repository that is mapped is small (about three in a hundred lines)
because most of the repository is no program of its own: vendored HLS and OpenCL headers,
a hash map library, tables of jump polynomials of the random number generator, graph
loaders, and a test bench per kernel with copies of its code. The kernels that the three
applications instantiate are some 6000 lines.

## 7. Plan

Done, in this order: `ButterflyNet`, `ButterflySwitch` with `Crossbar` and its
proofs; `WorkStealing` with `WorkPool`; `LaneAccess` and its proofs; `UrwRing`;
`StepCount`; `RingManager`; `NetFraming`, `NetScheduler`, `PairLink`, `RemoteRouter`;
`VertexCache`; `DynamicBurst`; `Reservoir`; `SecondOrder`; the proofs of `NetFraming`,
`NetScheduler`, `PairLink`, `RemoteRouter`, `VertexCache`, `RingManager`, `UrwRing` and `StepCount`; the
safety parts of the refinements of `LaneAccess`, `UrwRing`, `VertexCache`, `DynamicBurst`,
the scheduler and the switch.
`UrwRing` composes the promises of the first three (pool, crossbar, lane) rather than the modules, whose product is out of TLC's reach; the parts of the metapath
loop meet in the same way, each at the interface the next one assumes.

Left:

1. The way of an ended walk through node2vec: `update`, sta_update_merge and fetch_next,
   composed with `SecondOrder` and `Reservoir`.
2. cla_crouter on `RemoteRouter`.
3. A run of `StepCount` composed with `UrwRing`.
4. A proof of the alignment of the streams of `Reservoir`.
