------------------------------- MODULE PairLink -------------------------------
(***************************************************************************)
(* The remote path of the crossing 4x4 switch: the items of four streams   *)
(* for one other board are packed in fours.                                *)
(*                                                                         *)
(*   coalesce_with_bubble         joins the heads of two streams; a missing *)
(*                                one leaves a bubble                      *)
(*   filter_bubble_in_pair        moves items up to fill the bubbles       *)
(*   free_run_frp_to_net_timeout  cuts the packages into frames            *)
(*   dispatch_remote_package      spreads a package over four streams      *)
(*                                                                         *)
(* Two pairs of streams are coalesced and filtered (1 and 2), the results  *)
(* are coalesced and filtered once more (3).  An element of a stream is an *)
(* item or, behind a coalescer, the sequence of the one or two elements of *)
(* a package, so that its length is the size field.                        *)
(***************************************************************************)
EXTENDS Integers, Sequences, SequencesExt

CONSTANTS Items,        \* Items[s]: how many items stream s is given
          Depth,        \* depth of every stream
          FilterWait,   \* timeout of filter_bubble_in_pair: 16
          NetWait,      \* timeout of free_run_frp_to_net_timeout: 2
          FrameSize     \* frame_size: 20

Source == 1 .. 4
Stage  == 1 .. 3
Bit    == {0, 1}
In(c, b)    == IF c = 3 THEN 8 + b ELSE 2 * c - 1 + b   \* inputs of a coalescer
Coalesced(c) == 4 + c
Filtered(c)  == 7 + c
Stream == 1 .. 10

CounterRange == 256

PairAssumption ==
  /\ Items \in [Source -> Nat] /\ Depth \in Nat \ {0}
  /\ FilterWait \in 0 .. CounterRange - 1 /\ NetWait \in 0 .. CounterRange - 1
  /\ FrameSize \in 1 .. CounterRange

VARIABLES
  fed,         \* fed[s]: items of stream s that have arrived
  fifo,        \* the streams
  buffer,      \* buffer of the filters if valid_flag, as a sequence
  idle,        \* timeout_counter of the filters
  held,        \* in_data of the framer if valid_flag, as a sequence
  netIdle,     \* its timeout_counter
  frameCount,  \* its frame_counter
  wire,        \* the packages sent to the other board, from the beginning
  taken,       \* how many of them dispatch_remote_package has read
  arrived      \* arrived[i]: items written to stream i of the other board

framer == <<held, netIdle, frameCount>>
vars == <<fed, fifo, buffer, idle, framer, wire, taken, arrived>>

TypeOK ==
  /\ \A s \in Source : fed[s] \in 0 .. Items[s]
  /\ \A i \in Stream : Len(fifo[i]) <= Depth
  /\ \A c \in Stage : Len(buffer[c]) <= 1 /\ idle[c] \in 0 .. FilterWait
  /\ Len(held) <= 1 /\ netIdle \in 0 .. NetWait
  /\ frameCount \in 0 .. FrameSize - 1

Init ==
  /\ fed = [s \in Source |-> 0]
  /\ fifo = [i \in Stream |-> <<>>]
  /\ buffer = [c \in Stage |-> <<>>] /\ idle = [c \in Stage |-> 0]
  /\ held = <<>> /\ netIdle = 0 /\ frameCount = 0
  /\ wire = <<>> /\ taken = 0
  /\ arrived = [i \in Source |-> <<>>]

Room(i) == Len(fifo[i]) < Depth

\* filter_to_other_node takes the next item out of the stream of a lane.
filter_to_other_node(s) ==
  /\ fed[s] < Items[s] /\ Room(s)
  /\ fed' = [fed EXCEPT ![s] = @ + 1]
  /\ fifo' = [fifo EXCEPT ![s] = Append(@, <<s, fed'[s]>>)]
  /\ UNCHANGED <<buffer, idle, framer, wire, taken, arrived>>

coalesce_with_bubble(c) ==
  LET here == SelectSeq(<<In(c, 0), In(c, 1)>>, LAMBDA i : fifo[i] # <<>>)
      pair == [i \in DOMAIN here |-> Head(fifo[here[i]])]
  IN /\ here # <<>> /\ Room(Coalesced(c))
     /\ fifo' = [i \in Stream |->
                   IF \E k \in DOMAIN here : here[k] = i THEN Tail(fifo[i])
                   ELSE IF i = Coalesced(c) THEN Append(fifo[i], pair) ELSE fifo[i]]
     /\ UNCHANGED <<fed, buffer, idle, framer, wire, taken, arrived>>

\* Variant: the item held back is kept behind the ones that have come.
FilterNewFirst(c, pair) == pair \o buffer[c]

\* The elements a filter has after reading a pair.
FilterAll(c, pair) == buffer[c] \o pair

\* A filter reads a pair: it passes two elements on, if it has two, and holds
\* back what is left.
FilterRead(c) ==
  LET all == FilterAll(c, Head(fifo[Coalesced(c)]))
      out == IF Len(all) = 1 THEN <<>> ELSE <<SubSeq(all, 1, 2)>>
  IN /\ fifo[Coalesced(c)] # <<>>
     /\ out # <<>> => Room(Filtered(c))
     /\ fifo' = [fifo EXCEPT ![Coalesced(c)] = Tail(@), ![Filtered(c)] = @ \o out]
     /\ buffer' = [buffer EXCEPT ![c] = SubSeq(all, 1 + 2 * Len(out), Len(all))]
     /\ idle' = [idle EXCEPT ![c] = 0]
     /\ UNCHANGED <<fed, framer, wire, taken, arrived>>

FilterFlush(c) ==
  /\ idle[c] >= FilterWait /\ Room(Filtered(c))
  /\ fifo' = [fifo EXCEPT ![Filtered(c)] = Append(@, buffer[c])]
  /\ buffer' = [buffer EXCEPT ![c] = <<>>]
  /\ UNCHANGED idle

FilterIdle(c) ==
  /\ fifo[Coalesced(c)] = <<>> /\ buffer[c] # <<>>
  /\ \/ FilterFlush(c)
     \/ idle[c] < FilterWait /\ idle' = [idle EXCEPT ![c] = @ + 1] /\ UNCHANGED <<fifo, buffer>>
  /\ UNCHANGED <<fed, framer, wire, taken, arrived>>

filter_bubble_in_pair(c) == FilterRead(c) \/ FilterIdle(c)

-----------------------------------------------------------------------------
\* free_run_frp_to_net_timeout
Pkg(x, last) == [data |-> x, last |-> last]

\* Variant: the frame is closed one package later.
ClosesFrameLate == frameCount = FrameSize

ClosesFrame == frameCount = FrameSize - 1

FrameRead ==
  /\ fifo[Filtered(3)] # <<>>
  /\ fifo' = [fifo EXCEPT ![Filtered(3)] = Tail(@)]
  /\ held' = <<Head(fifo[Filtered(3)])>>
  /\ netIdle' = 0
  /\ IF held = <<>> THEN UNCHANGED <<wire, frameCount>>
     ELSE /\ wire' = Append(wire, Pkg(held[1], ClosesFrame))
          /\ frameCount' = IF ClosesFrame THEN 0 ELSE frameCount + 1
  /\ UNCHANGED <<fed, buffer, idle, taken, arrived>>

\* Variant: only a package that is complete is sent when nothing follows it.
FrameFlushOpen == Append(wire, Pkg(held[1], FALSE))

FrameFlush == Append(wire, Pkg(held[1], TRUE))

FrameIdle ==
  /\ fifo[Filtered(3)] = <<>> /\ held # <<>>
  /\ \/ /\ netIdle >= NetWait
        /\ wire' = FrameFlush
        /\ held' = <<>> /\ frameCount' = 0
        /\ UNCHANGED netIdle
     \/ netIdle < NetWait /\ netIdle' = netIdle + 1 /\ UNCHANGED <<wire, held, frameCount>>
  /\ UNCHANGED <<fed, fifo, buffer, idle, taken, arrived>>

free_run_frp_to_net_timeout == FrameRead \/ FrameIdle

\* dispatch_remote_package, on the other board: the items of the first pair to
\* streams 1 and 2, those of the second to streams 3 and 4.
dispatch_remote_package ==
  /\ taken < Len(wire)
  /\ taken' = taken + 1
  /\ arrived' = [i \in Source |->
       LET quad == wire[taken'].data
           g == (i + 1) \div 2
           k == 2 - (i % 2)
       IN IF g <= Len(quad) /\ k <= Len(quad[g]) THEN Append(arrived[i], quad[g][k])
          ELSE arrived[i]]
  /\ UNCHANGED <<fed, fifo, buffer, idle, framer, wire>>

Next == \/ \E s \in Source : filter_to_other_node(s)
        \/ \E c \in Stage : coalesce_with_bubble(c) \/ filter_bubble_in_pair(c)
        \/ free_run_frp_to_net_timeout
        \/ dispatch_remote_package

\* The kernels run free; items may stop coming at any time.
Fairness == /\ \A c \in Stage : WF_vars(coalesce_with_bubble(c))
            /\ \A c \in Stage : WF_vars(filter_bubble_in_pair(c))
            /\ WF_vars(free_run_frp_to_net_timeout)
            /\ WF_vars(dispatch_remote_package)

Spec == Init /\ [][Next]_vars
FairSpec == Spec /\ Fairness

-----------------------------------------------------------------------------
\* The items on the wire, in the order they were packed.
OnWire == FlattenSeq(FlattenSeq([i \in DOMAIN wire |-> wire[i].data]))

\* OnceInOrder: however the items are paired, moved up and held back, those of
\* a stream go out in the order they came, none twice and none left out.
OnceInOrder ==
  \A s \in Source :
    LET own == SelectSeq(OnWire, LAMBDA x : x[1] = s)
    IN own = [i \in 1 .. Len(own) |-> <<s, i>>]

\* FramesBounded: no frame is longer than FrameSize packages, however the
\* closing by count and the closing by time-out fall together.
FramesBounded ==
  \A i \in 1 .. Len(wire) - FrameSize + 1 :
    \E j \in i .. i + FrameSize - 1 : wire[j].last

\* The network does not send an open frame.
LastFrameClosed == wire = <<>> \/ wire[Len(wire)].last

AllArrived ==
  \A s \in Source : \A n \in 1 .. fed[s] :
    \E i \in Source : \E k \in DOMAIN arrived[i] : arrived[i][k] = <<s, n>>

\* Flushed: when the traffic stops, wherever in a pair or a frame that is, the frame is
\* closed and every item gets to the other board, without the help of later items that
\* would push it out of a filter or of the framer.
Flushed == <>[](LastFrameClosed /\ AllArrived)
=============================================================================
