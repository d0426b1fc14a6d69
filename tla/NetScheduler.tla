----------------------------- MODULE NetScheduler -----------------------------
(***************************************************************************)
(* The tree of net_scheduler kernels that merges the frames of the lanes   *)
(* of router_coalease_p onto the network port, and net_frame_out behind    *)
(* it.  Node 1 is the last scheduler; the inputs of node n are the FIFOs   *)
(* 2n and 2n + 1, and FIFO n is the output of node n.  The FIFOs Lanes ..  *)
(* 2 Lanes - 1 are the lanes' l1_switch.                                   *)
(*                                                                         *)
(* A lane writes a frame package by package, at its own speed: a frame may *)
(* be in the tree in part.                                                 *)
(***************************************************************************)
EXTENDS Integers, Sequences

CONSTANTS Lanes,      \* 8 in the code; a power of two
          FrameLen,   \* FrameLen[l]: the packages of each frame that lane l is given
          Depth       \* depth of every FIFO of the tree

Node == 1 .. Lanes - 1
Fifo == 2 .. 2 * Lanes - 1
Lane == Lanes .. 2 * Lanes - 1
Bit  == {0, 1}

SchedulerAssumption ==
  /\ Lanes \in Nat \ {0, 1} /\ Depth \in Nat \ {0}
  /\ FrameLen \in [Lane -> Seq(Nat \ {0})]

VARIABLES
  given,    \* given[l] = <<f, k>>: the lane has written k packages of frame f
  fifo,     \* the FIFOs of the tree
  status,   \* status[n]: "INIT", or the input the scheduler keeps to
  turn,     \* schedule_flag
  wire      \* packages written to the network port

vars == <<given, fifo, status, turn, wire>>

Pkg(l, f, k) == [lane |-> l, frame |-> f, no |-> k, last |-> k = FrameLen[l][f]]

Init ==
  /\ given  = [l \in Lane |-> <<1, 0>>]
  /\ fifo   = [c \in Fifo |-> <<>>]
  /\ status = [n \in Node |-> "INIT"]
  /\ turn   = [n \in Node |-> 0]
  /\ wire   = <<>>

\* The next package of a lane's frames arrives in its l1_switch.
LaneWrite(l) ==
  LET f == given[l][1]
      k == given[l][2] + 1
  IN /\ f <= Len(FrameLen[l]) /\ Len(fifo[l]) < Depth
     /\ fifo' = [fifo EXCEPT ![l] = Append(@, Pkg(l, f, k))]
     /\ given' = [given EXCEPT ![l] = IF k = FrameLen[l][f] THEN <<f + 1, 0>> ELSE <<f, k>>]
     /\ UNCHANGED <<status, turn, wire>>

Input(n, b) == 2 * n + b

\* Variant: a scheduler that is inside no frame takes whatever input it prefers,
\* and so does one that is inside a frame whose next package is late.
ChosenEager(n) ==
  IF fifo[Input(n, 0)] = <<>> THEN 1
  ELSE IF fifo[Input(n, 1)] = <<>> THEN 0
  ELSE IF status[n] = "IN1" THEN 0 ELSE IF status[n] = "IN2" THEN 1 ELSE 1 - turn[n]

\* The input a scheduler reads in this iteration: the one it keeps to, or by
\* the empty flags and schedule_flag: code 101, 100 and 001 are in1, code
\* 011, 010 and 000 are in2.
Chosen(n) ==
  IF status[n] = "IN1" THEN 0
  ELSE IF status[n] = "IN2" THEN 1
  ELSE IF fifo[Input(n, 0)] = <<>> THEN 1
  ELSE IF fifo[Input(n, 1)] = <<>> THEN 0
  ELSE 1 - turn[n]

Keep(b) == IF b = 0 THEN "IN1" ELSE "IN2"

\* Variant: after a frame the scheduler is free again, whatever the other input
\* holds, and schedule_flag is not set.
AfterFrameGreedy(n, b) == IF fifo[Input(n, b)] = <<>> THEN "INIT" ELSE Keep(b)

\* Variant: the scheduler keeps to the input it served.
AfterFrameStays(n, b) == Keep(b)

\* After a frame the other input has its turn, if it was not empty.
AfterFrame(n, b) == IF fifo[Input(n, 1 - b)] = <<>> THEN "INIT" ELSE Keep(1 - b)

\* Variant: the write does not wait for room.
RoomAlways(n) == TRUE

\* The output of a scheduler has room; the port of the board always has.
Room(n) == n # 1 => Len(fifo[n]) < Depth

\* One iteration that reads a package: __READ_IN1__, __READ_IN2__.
net_scheduler(n) ==
  LET b == Chosen(n)
      c == Input(n, b)
      p == Head(fifo[c])
  IN /\ fifo[c] # <<>> /\ Room(n)
     /\ fifo' = [i \in Fifo |-> IF i = c THEN Tail(fifo[c])
                                ELSE IF i = n THEN Append(fifo[n], p) ELSE fifo[i]]
     /\ wire' = IF n = 1 THEN Append(wire, p) ELSE wire
     /\ status' = [status EXCEPT ![n] = IF p.last THEN AfterFrame(n, b) ELSE Keep(b)]
     /\ turn' = [turn EXCEPT ![n] = IF p.last THEN b ELSE @]
     /\ UNCHANGED given

Next == (\E l \in Lane : LaneWrite(l)) \/ (\E n \in Node : net_scheduler(n))

\* What arrives in part is completed (NetFraming), and the schedulers run free.
Fairness == /\ \A l \in Lane : WF_vars(given[l][2] # 0 /\ LaneWrite(l))
            /\ \A n \in Node : WF_vars(net_scheduler(n))

Spec == Init /\ [][Next]_vars
FairSpec == Spec /\ Fairness

-----------------------------------------------------------------------------
TypeOK ==
  /\ \A l \in Lane : /\ given[l][1] \in 1 .. Len(FrameLen[l]) + 1
                     /\ given[l][2] # 0 => given[l][2] < FrameLen[l][given[l][1]]
  /\ \A c \in Fifo : Len(fifo[c]) <= Depth
  /\ status \in [Node -> {"INIT", "IN1", "IN2"}]
  /\ turn \in [Node -> Bit]

\* FramesWhole: on the wire a frame is never cut: between its first and its last
\* package no package of another lane goes out, and none is missing.
FramesWhole ==
  \A i \in 2 .. Len(wire) :
     LET p == wire[i - 1]  q == wire[i] IN
       IF p.last THEN q.no = 1
       ELSE q = Pkg(p.lane, p.frame, p.no + 1)

\* Alternates: while both halves of the tree have a package at the port, no half
\* gets two frames in a row.  (The other half waited when the frame began.)
Half(p) == IF 2 * p.lane < 3 * Lanes THEN 0 ELSE 1

Alternates ==
  [][wire' # wire /\ wire # <<>> =>
       LET p == wire[Len(wire)]
           q == wire'[Len(wire')]
       IN p.last /\ fifo[Input(1, 1 - Half(q))] # <<>> => Half(p) # Half(q)]_vars

\* AllSent: what a lane has written goes out, however busy the other lanes are
\* and wherever their frames stop for a while.
Sent(l, f, k) == \E i \in DOMAIN wire : wire[i] = Pkg(l, f, k)

AllSent ==
  <>[](\A l \in Lane : \A f \in DOMAIN FrameLen[l] :
         given[l][1] > f => Sent(l, f, FrameLen[l][f]))
=============================================================================
