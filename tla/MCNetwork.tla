------------------------------- MODULE MCNetwork -------------------------------
(***************************************************************************)
(* Instances of the four parts of the way between two boards that are      *)
(* modelled one by one: a lane of the coalescing router (NetFraming), the  *)
(* schedulers behind the lanes (NetScheduler), the remote path of the      *)
(* crossing switch (PairLink) and the routers that pick the board          *)
(* (RemoteRouter).  A behaviour is one of the part its initial state       *)
(* picks; the variables of the others rest.                                *)
(***************************************************************************)
EXTENDS NetFraming, TLC

CONSTANTS Lanes, FrameLen, Depth,          \* NetScheduler
          Items, FilterWait, NetWait,      \* PairLink
          RouterCases                      \* RemoteRouter

VARIABLES
  part,
  given, fifo, status, turn, wire,
  pairFed, pairFifo, pairBuffer, idle, pairHeld, netIdle, pairFrameCount, pairWire, taken,
  arrived,
  routing,   \* the case of the routers: boards, parts, walkers, network
  loaded, chain, map_array, vertex, place, flight, schedule, home, early

schedVars  == <<given, fifo, status, turn, wire>>
pairVars   == <<pairFed, pairFifo, pairBuffer, idle, pairHeld, netIdle, pairFrameCount,
                pairWire, taken, arrived>>
routerVars == <<loaded, chain, map_array, vertex, place, flight, schedule, home, early>>

Sched == INSTANCE NetScheduler

Pair == INSTANCE PairLink WITH
  fed <- pairFed, fifo <- pairFifo, buffer <- pairBuffer, held <- pairHeld,
  frameCount <- pairFrameCount, wire <- pairWire

Router(case) == INSTANCE RemoteRouter WITH
  Boards <- case.boards, Part <- case.parts, Slots <- case.slots, Walker <- case.walkers,
  Table <- case.table, Socket <- case.network.socket, Peer <- case.network.peer

ASSUME /\ Sched!SchedulerAssumption /\ Pair!PairAssumption
       /\ \A c \in RouterCases : Router(c)!RouterAssumption

InitOfPart ==
  /\ part \in {"lane", "scheduler", "pair", "router"}
  /\ routing \in RouterCases
  /\ part # "router" => routing = CHOOSE c \in RouterCases : TRUE
  /\ Init /\ Sched!Init /\ Pair!Init /\ \A c \in RouterCases : routing = c => Router(c)!Init
  /\ part # "router" => vertex = [w \in routing.walkers |-> CHOOSE p \in routing.parts : TRUE]

LaneNext   == part = "lane" /\ Next /\ UNCHANGED <<part, schedVars, pairVars, routing, routerVars>>
SchedNext  == part = "scheduler" /\ Sched!Next /\ UNCHANGED <<part, vars, pairVars, routing, routerVars>>
PairNext   == part = "pair" /\ Pair!Next /\ UNCHANGED <<part, vars, schedVars, routing, routerVars>>
RouterStep == \E c \in RouterCases : routing = c /\ Router(c)!Next
RouterNext == part = "router" /\ RouterStep /\ UNCHANGED <<part, routing, vars, schedVars, pairVars>>

\* Of the fairness of the four modules this is what the properties need: no part can go
\* on for ever without input, so it is enough that some kernel moves.
LaneFairness ==
  WF_vars(/\ part = "lane"
          /\ NoTask \/ HoldPackage \/ NoPackage \/ EmitPackage \/ BeginFrame \/ FramePackage)

SchedFairness ==
  WF_schedVars(/\ part = "scheduler"
               /\ \/ \E l \in Lanes .. 2 * Lanes - 1 : given[l][2] # 0 /\ Sched!LaneWrite(l)
                  \/ \E n \in 1 .. Lanes - 1 : Sched!net_scheduler(n))

PairFairness ==
  WF_pairVars(/\ part = "pair"
              /\ \/ \E c \in 1 .. 3 : \/ Pair!coalesce_with_bubble(c)
                                     \/ Pair!filter_bubble_in_pair(c)
                 \/ Pair!free_run_frp_to_net_timeout
                 \/ Pair!dispatch_remote_package)

RouterFairness == WF_routerVars(part = "router" /\ RouterStep)

PartSpec ==
  /\ InitOfPart
  /\ [][LaneNext \/ SchedNext \/ PairNext \/ RouterNext]_<<part, vars, schedVars, pairVars, routing, routerVars>>
  /\ LaneFairness /\ SchedFairness /\ PairFairness /\ RouterFairness

-----------------------------------------------------------------------------
(* The instances *)

\* Frames of one and of two packages: two lanes of one half with two frames each,
\* two of the other half with one or two.
MCFrameLen == [l \in 4 .. 7 |-> CASE l = 4 -> <<2, 1>>
                                  [] l = 5 -> <<1, 2>>
                                  [] l = 6 -> <<2, 1>>
                                  [] OTHER -> <<1>>]

\* Every stream but the third has an item; the first has two.
MCItems == <<2, 1, 0, 1>>

\* config_bipart.h: id_map_1 to id_map_4 are the same.
IdMap ==
  [b \in 1 .. 4 |-> 0 :> 0 @@ 1 :> 0 @@ 2 :> 0 @@ 3 :> 0 @@ 4 :> 0 @@ 5 :> 3 @@ 6 :> 2 @@ 7 :> 1]

\* hacc_gpu2_bipart/socket_table.h: entries 0 and 1 are the board's own, then come the
\* three other boards in order; entry 5 is the second board of a pair.
BipartSocket ==
  <<0 :> 1 @@ 1 :> 1 @@ 2 :> 2 @@ 3 :> 3 @@ 4 :> 4 @@ 5 :> 2,
    0 :> 2 @@ 1 :> 2 @@ 2 :> 1 @@ 3 :> 3 @@ 4 :> 4 @@ 5 :> 1,
    0 :> 3 @@ 1 :> 3 @@ 2 :> 1 @@ 3 :> 2 @@ 4 :> 4 @@ 5 :> 4,
    0 :> 4 @@ 1 :> 4 @@ 2 :> 1 @@ 3 :> 2 @@ 4 :> 3 @@ 5 :> 3>>

\* hacc_gpu2_test/socket_table.h: entry k above 1 is the board of number k - 1.
TestSocket == [b \in 1 .. 4 |-> [k \in 0 .. 5 |-> IF k < 2 THEN b ELSE k - 1]]

\* What an id means on a board: the id-th of the other boards (bipart), or the number
\* of the board ("remote router use fpga id", rpa_crouter.cpp).
Bipart == [socket |-> BipartSocket,
           peer |-> [b \in 1 .. 4 |-> [id \in 1 .. 3 |-> IF id < b THEN id ELSE id + 1]]]
ByNumber == [socket |-> TestSocket, peer |-> [b \in 1 .. 4 |-> [id \in 1 .. 4 |-> id]]]

RouterCase(boards, parts, slots, walkers, network) ==
  [boards |-> boards, parts |-> parts, slots |-> slots, walkers |-> walkers,
   network |-> network, table |-> IdMap]

\* A walker among all four boards, for each part that is sent and either network; between
\* boards 2 and 3, one with a part that stays or one that is sent, and two that may share
\* a package.
MCRouterCases ==
  {RouterCase(1 .. 4, {p}, 1, {1}, n) : p \in 5 .. 7, n \in {Bipart, ByNumber}}
  \cup {RouterCase({2, 3}, {4, 6}, 2, {1}, Bipart), RouterCase({2, 3}, {6}, 2, {1, 2}, Bipart)}

-----------------------------------------------------------------------------
(* The properties of the parts, explained in their modules.  Those of a part  *)
(* that rests hold of its initial state.                                      *)

\* Types and depths.
AllTypeOK ==
  /\ TypeOK /\ Sched!TypeOK /\ Pair!TypeOK
  /\ \A c \in RouterCases : routing = c => Router(c)!TypeOK

\* NetScheduler: no frame is cut by another one, and the halves of the tree take turns.
FramesWhole == Sched!FramesWhole
Alternates == Sched!Alternates

\* PairLink: items of a stream go out once and in order, and frames are bounded.
OnceInOrder == Pair!OnceInOrder
FramesBounded == Pair!FramesBounded

\* NothingStays: what the lanes have written to their scheduler goes out, and no item of
\* the crossing switch is held for ever.
NothingStays == Sched!AllSent /\ Pair!Flushed

\* RemoteRouter: every walker comes out on the board that the host's table means for it,
\* unless a mapper looked it up before its entry had come.
AllArrive ==
  part = "router" => <>[](\A c \in RouterCases : routing = c => Router(c)!AllOut)
=============================================================================
