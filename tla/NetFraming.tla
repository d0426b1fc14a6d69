------------------------------ MODULE NetFraming ------------------------------
(***************************************************************************)
(* One lane of router_coalease_p: three free-running kernels in a row.     *)
(*                                                                         *)
(*   rpa_to_net_with_timeout       packs tasks, counts frames, flushes a   *)
(*                                 partial package when no task comes      *)
(*   net_framing_signal_generator  holds one package back so that it can   *)
(*                                 close a frame nobody closed             *)
(*   net_framing                   hands over a frame when its signal says *)
(*                                 that it is complete                     *)
(*                                                                         *)
(* An iteration of a kernel is a step; a blocking write is a guard on the  *)
(* FIFO's room.  Nothing relates the speeds of the kernels, so a time-out  *)
(* of either kernel may fall between any two steps of the others.          *)
(***************************************************************************)
EXTENDS Integers, Sequences, SequencesExt, FiniteSets

CONSTANTS Tasks,        \* tasks the lane is given, one after the other
          Slots,        \* tasks of a package: 4 in the code
          FrameSize,    \* frame_size
          Timeout,      \* timeout
          NetDepth,     \* depth of coaleased_frame
          FrameDepth,   \* depth of coaleased_frame_framing
          SignalDepth   \* depth of frame_signal

CounterRange == 256     \* the counters are ap_uint<8>
Slack        == 4       \* timeout + 4 in net_framing_signal_generator
Slot         == 0 .. Slots - 1

ASSUME FramingAssumption ==
  /\ Tasks \in Nat /\ Slots \in Nat \ {0}
  /\ FrameSize \in 1 .. CounterRange - 1
  \* the counter passes timeout + 4 before it wraps
  /\ Timeout \in Nat /\ Timeout + Slack < CounterRange - 1
  \* an open frame fits in the FIFO in front of net_framing
  /\ FrameDepth \in Nat /\ FrameDepth >= FrameSize
  /\ NetDepth \in Nat \ {0} /\ SignalDepth \in Nat \ {0}

VARIABLES
  fed,          \* tasks read from the input stream
  buffer,       \* buffer: the data slots, stale ones included
  count,        \* buffer_counter
  wait,         \* wait_counter of the converter
  frameCount,   \* frame_counter
  net,          \* coaleased_frame
  held,         \* last_frp_pkg if last_valid, as a sequence of at most one
  heldWait,     \* wait_counter of the signal generator
  emit,         \* the package whose out.write follows the signal's
  framed,       \* coaleased_frame_framing
  signals,      \* signals in frame_signal
  framing,      \* net_framing is inside a frame
  sent          \* packages written to l1_switch

converter == <<fed, buffer, count, wait, frameCount>>
generator == <<held, heldWait, emit>>
framer    == <<framing, sent>>
vars == <<converter, net, generator, framed, signals, framer>>

Pkg(data, n, last) == [data |-> data, mask |-> 0 .. n - 1, last |-> last]

Packages == [data : [Slot -> 0 .. Tasks], mask : {0 .. n - 1 : n \in 1 .. Slots},
             last : BOOLEAN]

TypeOK ==
  /\ fed \in 0 .. Tasks
  /\ buffer \in [Slot -> 0 .. Tasks]
  /\ count \in Slot
  /\ wait \in 0 .. CounterRange - 1 /\ heldWait \in 0 .. CounterRange - 1
  /\ frameCount \in 0 .. FrameSize
  /\ net \in Seq(Packages) /\ Len(net) <= NetDepth
  /\ held \in Seq(Packages) /\ Len(held) <= 1
  /\ emit \in Seq(Packages) /\ Len(emit) <= 1
  /\ framed \in Seq(Packages) /\ Len(framed) <= FrameDepth
  /\ signals \in 0 .. SignalDepth
  /\ framing \in BOOLEAN
  /\ sent \in Seq(Packages)

Init ==
  /\ fed = 0 /\ buffer = [s \in Slot |-> 0] /\ count = 0 /\ wait = 0
  /\ frameCount = 0
  /\ net = <<>>
  /\ held = <<>> /\ heldWait = 0 /\ emit = <<>>
  /\ framed = <<>> /\ signals = 0
  /\ framing = FALSE /\ sent = <<>>

-----------------------------------------------------------------------------
\* rpa_to_net_with_timeout
FrameFull == frameCount >= FrameSize

FullPackage(data) ==
  /\ Len(net) < NetDepth
  /\ net' = Append(net, Pkg(data, Slots, FrameFull))
  /\ frameCount' = IF FrameFull THEN 0 ELSE frameCount + 1
  /\ count' = 0

ReadTask ==
  /\ fed < Tasks
  /\ fed' = fed + 1
  /\ wait' = 0
  /\ buffer' = [buffer EXCEPT ![count] = fed']
  /\ \/ count = Slots - 1 /\ FullPackage(buffer')
     \/ count < Slots - 1 /\ count' = count + 1 /\ UNCHANGED <<net, frameCount>>
  /\ UNCHANGED <<generator, framed, signals, framer>>

\* Variant: a partial package is sent with the mask of a full one.
FlushSizeFull == Slots

\* The tasks that the mask of a partial package names: 0x1, 0x3 or 0x7.
FlushSize == count

FlushPackage ==
  /\ Len(net) < NetDepth
  /\ net' = Append(net, Pkg(buffer, FlushSize, TRUE))
  /\ count' = 0
  /\ frameCount' = 0

NoTask ==
  /\ count # 0
  /\ wait' = (wait + 1) % CounterRange
  /\ \/ wait' > Timeout /\ FlushPackage
     \/ wait' <= Timeout /\ UNCHANGED <<count, net, frameCount>>
  /\ UNCHANGED <<fed, buffer, generator, framed, signals, framer>>

-----------------------------------------------------------------------------
\* net_framing_signal_generator
SignalWrite == signals < SignalDepth /\ signals' = signals + 1

\* Variant: the signal follows the package just read, not the one that goes out.
SignalDueEarly == held # <<>> /\ Head(net).last

SignalDue == held # <<>> /\ held[1].last

\* A package was read: the one held before goes out, its signal first.
HoldPackage ==
  /\ emit = <<>> /\ net # <<>>
  /\ net' = Tail(net)
  /\ heldWait' = 0
  /\ held' = <<Head(net)>>
  /\ emit' = held
  /\ IF SignalDue THEN SignalWrite ELSE UNCHANGED signals
  /\ UNCHANGED <<converter, framed, framer>>

CloseHeld == [held[1] EXCEPT !.last = TRUE]

NoPackage ==
  /\ emit = <<>> /\ net = <<>> /\ held # <<>>
  /\ heldWait' = (heldWait + 1) % CounterRange
  /\ \/ /\ heldWait' > Timeout + Slack
        /\ SignalWrite
        /\ emit' = <<CloseHeld>>
        /\ held' = <<>>
     \/ heldWait' <= Timeout + Slack /\ UNCHANGED <<signals, emit, held>>
  /\ UNCHANGED <<converter, net, framed, framer>>

EmitPackage ==
  /\ emit # <<>> /\ Len(framed) < FrameDepth
  /\ framed' = Append(framed, emit[1])
  /\ emit' = <<>>
  /\ UNCHANGED <<converter, net, held, heldWait, signals, framer>>

-----------------------------------------------------------------------------
\* net_framing
BeginFrame ==
  /\ ~framing /\ signals > 0
  /\ signals' = signals - 1
  /\ framing' = TRUE
  /\ UNCHANGED <<converter, net, generator, framed, sent>>

FramePackage ==
  /\ framing /\ framed # <<>>
  /\ framed' = Tail(framed)
  /\ sent' = Append(sent, Head(framed))
  /\ framing' = ~Head(framed).last
  /\ UNCHANGED <<converter, net, generator, signals>>

Next == \/ ReadTask \/ NoTask
        \/ HoldPackage \/ NoPackage \/ EmitPackage
        \/ BeginFrame \/ FramePackage

\* Every kernel is free-running and takes the next iteration it can; tasks may
\* stop coming at any time.
Fairness == /\ WF_vars(NoTask)
            /\ WF_vars(HoldPackage \/ NoPackage)
            /\ WF_vars(EmitPackage)
            /\ WF_vars(BeginFrame \/ FramePackage)

Spec == Init /\ [][Next]_vars
FairSpec == Spec /\ Fairness

-----------------------------------------------------------------------------
\* The packages that are or will be in front of net_framing without any
\* further read of the generator.
Ahead == IF emit = <<>> THEN framed ELSE Append(framed, emit[1])

Lasts(ps) == {i \in DOMAIN ps : ps[i].last}

\* SignalPerFrame: a signal in the FIFO, or the one net_framing is working on,
\* stands for one closing package in front of it; the FIFO order of two
\* separate streams never lets them drift apart.
SignalPerFrame ==
  Cardinality(Lasts(Ahead)) = signals + (IF framing THEN 1 ELSE 0)

\* NeverWaitsMidFrame: net_framing, once it has begun a frame, never waits for
\* a task: the rest of the frame is in front of it, so that it does not hold
\* the scheduler's output while other lanes have complete frames.
NeverWaitsMidFrame == framing => Lasts(Ahead) # {}

\* Link: the lane implements the abstract link.  The complete frames are the
\* packages up to the last closing one.
Named(ps) == [i \in DOMAIN ps |->
                [tasks |-> [j \in 1 .. Cardinality(ps[i].mask) |-> ps[i].data[j - 1]],
                 last  |-> ps[i].last]]
Complete == SubSeq(Ahead, 1, Cardinality({i \in DOMAIN Ahead :
                                 \E j \in Lasts(Ahead) : i <= j}))

Link == INSTANCE FrameLink
          WITH ready <- Named(Complete), sent <- Named(sent),
               FrameMax <- FrameSize + 1

CompleteFramesInOrder == Link!Spec
=============================================================================
