----------------------------- MODULE RemoteRouter -----------------------------
(***************************************************************************)
(* Several boards with an rpa_crouter each.  A graph is cut into parts;    *)
(* each board keeps the walkers of some parts and sends those of the       *)
(* others to another board.  The routers look the part up in a table that  *)
(* the host loads through rng_config_loader: the entries run down a chain  *)
(* of router_mapper_instance kernels, one per lane, each of which keeps a  *)
(* copy of the table and passes the entry on.  The host starts the walkers *)
(* when the loaders have returned, which is before the entries have come   *)
(* to the end of the chain.                                                *)
(*                                                                         *)
(* The way between the routers (coalescing, framing, the network) is a set *)
(* of packages in flight; NetFraming and NetScheduler are about that part. *)
(***************************************************************************)
EXTENDS Integers, Sequences, FiniteSets, Functions

CONSTANTS Boards,      \* numbers of the boards: 1 .. 4 in the tests
          Part,        \* vid >> 29: 0 .. 7
          Slots,       \* tasks of a package: 4
          Table,       \* Table[b][p]: mapped_id of part p on board b, 0: here
          Socket,      \* Socket[b][k]: the board that entry k of the socket
                       \* table of b sends to
          Peer,        \* Peer[b][id]: the board that mapped_id stands for on b
          Walker

Lane    == 0 .. 2 * Slots - 1
BoardId == 0 .. 7      \* ap_uint<3>
Unset   == -1          \* an entry of map_array before it is loaded
NoBoard == 0           \* of a walker that the host has not started

RouterAssumption ==
  /\ Boards \subseteq BoardId \ {NoBoard} /\ Part \subseteq 0 .. 7 /\ Slots \in Nat \ {0}
  /\ \A b \in Boards, p \in Part : Table[b][p] \in BoardId

VARIABLES
  loaded,     \* loaded[b]: entries that rng_config_loader has written
  chain,      \* chain[b][i]: map_stream[i]
  map_array,  \* map_array[b][i]: the table of lane i
  vertex,     \* vertex[w]: the part of the walker's vertex
  place,      \* where the walker is
  flight,     \* packages in the network: [dest, tasks]
  schedule,   \* schedule[b] of dispatch_net_package
  home,       \* history: the board the walker was started on
  early       \* history: the walkers that were looked up before their entry came

config == <<loaded, chain, map_array>>
vars == <<config, vertex, place, flight, schedule, home, early>>

\* The entries in the order of the configuration: part by part.
PartNo(p) == Cardinality({q \in Part : q < p})

\* Where a walker may be: not yet started, in front of the mapper of a lane,
\* in the router towards the network, in a package, in front of the merger of a
\* lane (from its mapper or from the network), or out on the board's lanes.
Place == {<<"host">>, <<"net">>, <<"lost">>}
         \cup ({"in", "local", "remote"} \X Boards \X Lane)
         \cup ({"rout"} \X Boards \X BoardId)
         \cup ({"out"} \X Boards)

TaskList == UNION {[1 .. n -> Walker] : n \in 1 .. Slots}

TypeOK ==
  /\ loaded \in [Boards -> 0 .. Cardinality(Part)]
  /\ \A b \in Boards, i \in Lane : \A k \in DOMAIN chain[b][i] :
       chain[b][i][k] \in Part \X BoardId
  /\ map_array \in [Boards -> [Lane -> [Part -> BoardId \cup {Unset}]]]
  /\ vertex \in [Walker -> Part]
  /\ place \in [Walker -> Place]
  /\ \A m \in flight : m.tasks \in TaskList
  /\ schedule \in [Boards -> {0, 1}]
  /\ home \in [Walker -> Boards \cup {NoBoard}] /\ early \subseteq Walker

Init ==
  /\ loaded = [b \in Boards |-> 0]
  /\ chain = [b \in Boards |-> [i \in Lane |-> <<>>]]
  /\ map_array = [b \in Boards |-> [i \in Lane |-> [p \in Part |-> Unset]]]
  /\ vertex \in [Walker -> Part]
  /\ place = [w \in Walker |-> <<"host">>]
  /\ flight = {} /\ schedule = [b \in Boards |-> 0]
  /\ home = [w \in Walker |-> NoBoard] /\ early = {}

-----------------------------------------------------------------------------
\* The host loads one board after the other and joins each loader.
Loaded(b) == loaded[b] = Cardinality(Part)

\* Mode 1: the entries of one word, in the order of the parts.
rng_config_loader(b) ==
  /\ \A c \in Boards : c < b => Loaded(c)
  /\ \E p \in Part :
       /\ PartNo(p) = loaded[b]
       /\ chain' = [chain EXCEPT ![b][0] = Append(@, <<p, Table[b][p]>>)]
  /\ loaded' = [loaded EXCEPT ![b] = @ + 1]
  /\ UNCHANGED <<map_array, vertex, place, flight, schedule, home, early>>

\* The entry goes to the next lane; the last lane's goes into a sink.
PassOn(b, i) ==
  LET rest == [chain[b] EXCEPT ![i] = Tail(@)]
  IN IF i + 1 \in Lane THEN [rest EXCEPT ![i + 1] = Append(@, Head(chain[b][i]))] ELSE rest

\* The first half of an iteration of router_mapper_instance.
LoadEntry(b, i) ==
  /\ chain[b][i] # <<>>
  /\ LET e == Head(chain[b][i]) IN map_array' = [map_array EXCEPT ![b][i][e[1]] = e[2]]
  /\ chain' = [chain EXCEPT ![b] = PassOn(b, i)]
  /\ UNCHANGED <<loaded, vertex, place, flight, schedule, home, early>>

\* The loaders are started a second time, for the queries, after all set_config
\* calls; a walker comes to the router of its board on any lane.
StartWalker(w) ==
  /\ place[w] = <<"host">>
  /\ \A b \in Boards : Loaded(b)
  /\ \E b \in Boards, i \in Lane :
       /\ place' = [place EXCEPT ![w] = <<"in", b, i>>]
       /\ home' = [home EXCEPT ![w] = b]
  /\ UNCHANGED <<config, vertex, flight, schedule, early>>

-----------------------------------------------------------------------------
\* What reading an entry may return: any value, before it is loaded.
Lookup(b, i, p) == IF map_array[b][i][p] = Unset THEN BoardId ELSE {map_array[b][i][p]}

\* The entry of part p is still on its way to lane i, or in front of it.
OnItsWay(b, i, p) ==
  \E j \in Lane : j <= i /\ \E k \in DOMAIN chain[b][j] : chain[b][j][k][1] = p

\* The second half of an iteration of router_mapper_instance.
RouteWalker(w) ==
  /\ place[w][1] = "in"
  /\ LET b == place[w][2]  i == place[w][3] IN
       /\ \E id \in Lookup(b, i, vertex[w]) :
            place' = [place EXCEPT ![w] = IF id = 0 THEN <<"local", b, i>> ELSE <<"rout", b, id>>]
       /\ early' = early \cup (IF OnItsWay(b, i, vertex[w]) THEN {w} ELSE {})
  /\ UNCHANGED <<config, vertex, flight, schedule, home>>

\* Variant: the stream number is the socket number.
NetDestSame(id) == id

\* rout_stream[id] is framed with destination id + 1.
NetDest(id) == id + 1

\* Up to Slots tasks of a rout_stream leave in a package; the network takes it to
\* the board the socket names and drops it when there is none.
SendPackage(b, id) ==
  \E n \in 1 .. Slots : \E ts \in [1 .. n -> {w \in Walker : place[w] = <<"rout", b, id>>}] :
    /\ IsInjective(ts)
    /\ IF NetDest(id) \in DOMAIN Socket[b]
       THEN /\ flight' = flight \cup {[dest |-> Socket[b][NetDest(id)], tasks |-> ts]}
            /\ place' = [w \in Walker |-> IF w \in Range(ts) THEN <<"net">> ELSE place[w]]
       ELSE /\ place' = [w \in Walker |-> IF w \in Range(ts) THEN <<"lost">> ELSE place[w]]
            /\ UNCHANGED flight
    /\ UNCHANGED <<config, vertex, schedule, home, early>>

NextHalf(b) == 1 - schedule[b]

\* A package is spread over the lower or the upper half of the lanes, in turn,
\* when there is room for every task of it (one task in front of a lane).
dispatch_net_package(b) ==
  \E m \in flight :
    LET at(k) == <<"remote", b, k - 1 + schedule[b] * Slots>>
    IN /\ m.dest = b
       /\ \A k \in DOMAIN m.tasks : \A v \in Walker : place[v] # at(k)
       /\ flight' = flight \ {m}
       /\ place' = [w \in Walker |->
            IF \E k \in DOMAIN m.tasks : m.tasks[k] = w
            THEN at(CHOOSE k \in DOMAIN m.tasks : m.tasks[k] = w) ELSE place[w]]
       /\ schedule' = [schedule EXCEPT ![b] = NextHalf(b)]
       /\ UNCHANGED <<config, vertex, home, early>>

\* merge_package and switch_8x8_frp on to the board's lanes.
Deliver(w) ==
  /\ place[w][1] \in {"local", "remote"}
  /\ place' = [place EXCEPT ![w] = <<"out", place[w][2]>>]
  /\ UNCHANGED <<config, vertex, flight, schedule, home, early>>

Next == \/ \E b \in Boards : rng_config_loader(b) \/ \E i \in Lane : LoadEntry(b, i)
        \/ \E w \in Walker : StartWalker(w) \/ RouteWalker(w) \/ Deliver(w)
        \/ \E b \in Boards, id \in BoardId : SendPackage(b, id)
        \/ \E b \in Boards : dispatch_net_package(b)

Fairness == /\ \A b \in Boards : WF_vars(rng_config_loader(b))
            /\ \A b \in Boards, i \in Lane : WF_vars(LoadEntry(b, i))
            /\ \A w \in Walker : WF_vars(StartWalker(w) \/ RouteWalker(w) \/ Deliver(w))
            /\ \A b \in Boards, id \in BoardId : WF_vars(SendPackage(b, id))
            /\ \A b \in Boards : WF_vars(dispatch_net_package(b))

Spec == Init /\ [][Next]_vars
FairSpec == Spec /\ Fairness

-----------------------------------------------------------------------------
\* The board the host's table means for a walker: its own, or the one that the
\* mapped_id stands for there.
Meant(w) == LET id == Table[home[w]][vertex[w]] IN IF id = 0 THEN home[w] ELSE Peer[home[w]][id]

\* Every walker is out on the board that the host's table means for it, except those
\* that a mapper looked up while their entry was still on its way to it: nothing keeps
\* them behind the entry, and they may go anywhere.  An entry that is lost or put in the
\* wrong place on the way is no excuse.
AllOut ==
  \A w \in Walker : w \in early \/ (home[w] \in Boards /\ place[w] = <<"out", Meant(w)>>)

\* AllArrive: in the end this is so, and stays so.
AllArrive == <>[]AllOut
=============================================================================
