---------------------------- MODULE MCNetwork_proof ----------------------------
(***************************************************************************)
(* Three parts of the way between two boards, for every value of the       *)
(* constants.                                                              *)
(*                                                                         *)
(* A lane of the coalescing router (NetFraming), for every number of tasks *)
(* and slots, every frame size, time-out and depth: a signal stands for a  *)
(* closing package in front of net_framing, so that net_framing never      *)
(* waits inside a frame. TypeOK and SignalPerFrame together are inductive. *)
(* The closing packages of a FIFO are a set of positions; the lemmas say   *)
(* what reading and writing the FIFO does to their number.                 *)
(*                                                                         *)
(* The schedulers behind the lanes (NetScheduler), for every number of     *)
(* lanes, frames and depths: the tree cuts no frame (FramesWhole), and the *)
(* halves of the tree take turns at the port (Alternates). What may come   *)
(* next on the wire depends on what may come next out of the FIFO the last *)
(* scheduler keeps to, and so on up to a lane; with frames that are in the *)
(* tree in part, the FIFOs in between may be empty. The invariant          *)
(* therefore names, for every FIFO, the package that was taken out of it   *)
(* last: seen[c].                                                          *)
(*                                                                         *)
(* The framer of the crossing switch (PairLink), for every frame size,     *)
(* time-out, depth and supply of items: it sends no frame of more than     *)
(* FrameSize packages (FramesBounded), however the closing by count and    *)
(* the closing by time-out fall together.                                  *)
(***************************************************************************)
EXTENDS MCNetwork, FiniteSetTheorems, TLAPS

Bit(b) == IF b THEN 1 ELSE 0
Closing(ps) == Cardinality(Lasts(ps))

\* The closing packages of a FIFO are finitely many.
LEMMA ClosingType ==
  ASSUME NEW ps \in Seq(Packages)
  PROVE  IsFiniteSet(Lasts(ps)) /\ Closing(ps) \in Nat
<1>1. /\ Lasts(ps) \in SUBSET (1 .. Len(ps))
      /\ 1 \in Int /\ Len(ps) \in Int
  BY DEF Lasts
<1>2. IsFiniteSet(1 .. Len(ps))
  BY <1>1, FS_Interval
<1>3. IsFiniteSet(Lasts(ps))
  BY <1>1, <1>2, FS_Subset
<1> QED
  BY <1>3, FS_CardinalityType DEF Closing

\* An empty FIFO has none.
LEMMA ClosingEmpty == Lasts(<<>>) = {} /\ Closing(<<>>) = 0
<1>1. Lasts(<<>>) = {}
  BY DEF Lasts
<1> QED
  BY <1>1, FS_EmptySet DEF Closing

\* Writing a package adds one if the package closes a frame.
LEMMA ClosingAppend ==
  ASSUME NEW ps \in Seq(Packages), NEW p \in Packages
  PROVE  Closing(Append(ps, p)) = Closing(ps) + Bit(p.last)
<1>1. IsFiniteSet(Lasts(ps)) /\ Closing(ps) \in Nat
  BY ClosingType
<1>2. Len(ps) + 1 \notin Lasts(ps)
  BY DEF Lasts
<1>3. CASE p.last
  <2>1. Lasts(Append(ps, p)) = Lasts(ps) \cup {Len(ps) + 1}
    BY <1>3 DEF Lasts
  <2> QED
    BY <1>1, <1>2, <1>3, <2>1, FS_AddElement DEF Closing, Bit
<1>4. CASE ~p.last
  <2>1. Lasts(Append(ps, p)) = Lasts(ps)
    BY <1>4 DEF Lasts
  <2> QED
    BY <1>1, <1>4, <2>1 DEF Closing, Bit
<1> QED
  BY <1>3, <1>4

\* Reading a package takes one away if the package closes a frame.
LEMMA ClosingTail ==
  ASSUME NEW ps \in Seq(Packages), ps # <<>>
  PROVE  Closing(ps) = Closing(Tail(ps)) + Bit(Head(ps).last)
<1> DEFINE S == Lasts(Tail(ps))
           T == Lasts(ps) \ {1}
           f == [i \in S |-> i + 1]
<1>1. Tail(ps) \in Seq(Packages) /\ Len(ps) \in Nat \ {0}
  OBVIOUS
<1>2. IsFiniteSet(S) /\ Closing(Tail(ps)) \in Nat
  BY <1>1, ClosingType
<1>3. IsFiniteSet(Lasts(ps)) /\ Closing(ps) \in Nat
  BY ClosingType
<1>4. \A i \in S : i \in Nat /\ i + 1 \in T
  BY <1>1 DEF Lasts
<1>5. \A j \in T : j - 1 \in S /\ (j - 1) + 1 = j
  BY <1>1 DEF Lasts
<1>6. f \in Bijection(S, T)
  BY <1>4, <1>5 DEF Bijection, Injection, Surjection, IsInjective
<1>7. Cardinality(T) = Cardinality(S)
  <2>1. ExistsBijection(S, T)
    BY <1>6 DEF ExistsBijection
  <2> QED
    BY <1>2, <2>1, FS_Bijection
<1>8. 1 \in Lasts(ps) <=> Head(ps).last
  BY <1>1 DEF Lasts
<1>9. Cardinality(T) = IF 1 \in Lasts(ps) THEN Closing(ps) - 1 ELSE Closing(ps)
  BY <1>3, FS_RemoveElement DEF Closing
<1>10. CASE Head(ps).last
  BY <1>2, <1>3, <1>7, <1>8, <1>9, <1>10 DEF Closing, Bit
<1>11. CASE ~Head(ps).last
  BY <1>2, <1>3, <1>7, <1>8, <1>9, <1>11 DEF Closing, Bit
<1> QED
  BY <1>10, <1>11

-----------------------------------------------------------------------------
\* A package of one to Slots tasks.
LEMMA PkgType ==
  ASSUME NEW data \in [Slot -> 0 .. Tasks], NEW n \in 1 .. Slots, NEW last \in BOOLEAN
  PROVE  Pkg(data, n, last) \in Packages
BY DEF Pkg, Packages

\* Closing the held package changes nothing but its flag.
LEMMA CloseHeldType ==
  ASSUME TypeOK, held # <<>>
  PROVE  /\ CloseHeld \in Packages
         /\ CloseHeld.last
         /\ held[1] \in Packages
<1>1. held[1] \in Packages
  BY DEF TypeOK
<1>2. \A p \in Packages : /\ [p EXCEPT !.last = TRUE] \in Packages
                          /\ [p EXCEPT !.last = TRUE].last
  BY DEF Packages
<1> QED
  BY <1>1, <1>2 DEF CloseHeld

LEMMA SignalWriteType ==
  ASSUME TypeOK, SignalWrite
  PROVE  signals' \in 0 .. SignalDepth
<1>1. signals \in Nat /\ SignalDepth \in Nat
  BY FramingAssumption DEF TypeOK
<1> QED
  BY <1>1 DEF SignalWrite

LEMMA InitTypeOK == Init => TypeOK
BY FramingAssumption DEF Init, TypeOK, Slot, CounterRange

\* The converter fills the slots and keeps its counters in range.
LEMMA TypeOKConverter ==
  ASSUME TypeOK, ReadTask \/ NoTask
  PROVE  TypeOK'
<1> USE FramingAssumption
<1>1. /\ Slots \in Nat \ {0} /\ FrameSize \in Nat \ {0} /\ NetDepth \in Nat
      /\ CounterRange = 256
  BY DEF CounterRange
<1>2. CASE ReadTask
  <2>1. fed' \in 0 .. Tasks /\ buffer' \in [Slot -> 0 .. Tasks]
    BY <1>2 DEF ReadTask, TypeOK
  <2>2. wait' \in 0 .. CounterRange - 1
    BY <1>1, <1>2 DEF ReadTask
  <2>3. /\ count' \in Slot /\ frameCount' \in 0 .. FrameSize
        /\ net' \in Seq(Packages) /\ Len(net') <= NetDepth
    <3>1. CASE count = Slots - 1 /\ FullPackage(buffer')
      <4>1. Pkg(buffer', Slots, FrameFull) \in Packages
        <5>1. FrameFull \in BOOLEAN /\ Slots \in 1 .. Slots
          BY <1>1 DEF FrameFull
        <5> QED
          BY <2>1, <5>1, PkgType
      <4>2. frameCount' \in 0 .. FrameSize
        BY <1>1, <3>1 DEF FullPackage, FrameFull, TypeOK
      <4> QED
        BY <1>1, <3>1, <4>1, <4>2 DEF FullPackage, TypeOK, Slot
    <3>2. CASE count < Slots - 1 /\ count' = count + 1 /\ UNCHANGED <<net, frameCount>>
      BY <1>1, <3>2 DEF TypeOK, Slot
    <3> QED
      BY <1>2, <3>1, <3>2 DEF ReadTask
  <2> QED
    BY <1>2, <2>1, <2>2, <2>3 DEF ReadTask, TypeOK, generator, framer
<1>3. CASE NoTask
  <2>1. wait' \in 0 .. CounterRange - 1
    BY <1>1, <1>3 DEF NoTask, TypeOK
  <2>2. /\ count' \in Slot /\ frameCount' \in 0 .. FrameSize
        /\ net' \in Seq(Packages) /\ Len(net') <= NetDepth
    <3>1. CASE FlushPackage
      <4>1. count \in 1 .. Slots
        BY <1>1, <1>3 DEF NoTask, TypeOK, Slot
      <4>2. Pkg(buffer, FlushSize, TRUE) \in Packages
        BY <4>1, PkgType DEF TypeOK, FlushSize
      <4>3. net' = Append(net, Pkg(buffer, FlushSize, TRUE)) /\ Len(net) < NetDepth
        BY <3>1 DEF FlushPackage
      <4>4. net' \in Seq(Packages) /\ Len(net') <= NetDepth
        <5>1. net \in Seq(Packages)
          BY DEF TypeOK
        <5>2. \A p \in Packages : /\ Append(net, p) \in Seq(Packages)
                                  /\ Len(Append(net, p)) = Len(net) + 1
          BY <5>1
        <5>3. Len(net) \in Nat
          BY <5>1
        <5>4. net' \in Seq(Packages) /\ Len(net') = Len(net) + 1
          BY <4>2, <4>3, <5>2
        <5>5. Len(net) < NetDepth
          BY <4>3
        <5>6. Len(net') <= NetDepth
          BY <1>1, <5>3, <5>4, <5>5
        <5> QED
          BY <5>4, <5>6
      <4>5. count' = 0 /\ frameCount' = 0
        BY <3>1 DEF FlushPackage
      <4>6. 0 \in Slot /\ 0 \in 0 .. FrameSize
        BY <1>1 DEF Slot
      <4> QED
        BY <4>4, <4>5, <4>6
    <3>2. CASE UNCHANGED <<count, net, frameCount>>
      BY <3>2 DEF TypeOK
    <3> QED
      BY <1>3, <3>1, <3>2 DEF NoTask
  <2> QED
    BY <1>3, <2>1, <2>2 DEF NoTask, TypeOK, generator, framer
<1> QED
  BY <1>2, <1>3

\* The generator and net_framing only pass packages on.
LEMMA TypeOKRest ==
  ASSUME TypeOK,
         \/ HoldPackage \/ NoPackage \/ EmitPackage \/ BeginFrame \/ FramePackage
         \/ UNCHANGED vars
  PROVE  TypeOK'
<1> USE FramingAssumption
<1>1. CASE HoldPackage
  <2>1. signals' \in 0 .. SignalDepth
    <3>1. CASE SignalDue
      BY <1>1, <3>1, SignalWriteType DEF HoldPackage
    <3>2. CASE ~SignalDue
      BY <1>1, <3>2 DEF HoldPackage, TypeOK
    <3> QED
      BY <3>1, <3>2
  <2>2. heldWait' \in 0 .. CounterRange - 1
    BY <1>1 DEF HoldPackage, CounterRange
  <2>3. /\ net' \in Seq(Packages) /\ Len(net') <= NetDepth
        /\ held' \in Seq(Packages) /\ Len(held') <= 1
        /\ emit' \in Seq(Packages) /\ Len(emit') <= 1
    BY <1>1 DEF HoldPackage, TypeOK
  <2> QED
    BY <1>1, <2>1, <2>2, <2>3 DEF HoldPackage, TypeOK, converter, framer
<1>2. CASE NoPackage
  <2>1. heldWait' \in 0 .. CounterRange - 1
    BY <1>2 DEF NoPackage, TypeOK, CounterRange
  <2>2. /\ signals' \in 0 .. SignalDepth
        /\ held' \in Seq(Packages) /\ Len(held') <= 1
        /\ emit' \in Seq(Packages) /\ Len(emit') <= 1
    <3>1. CloseHeld \in Packages
      BY <1>2, CloseHeldType DEF NoPackage
    <3>2. CASE SignalWrite /\ emit' = <<CloseHeld>> /\ held' = <<>>
      BY <3>1, <3>2, SignalWriteType
    <3>3. CASE UNCHANGED <<signals, emit, held>>
      BY <3>3 DEF TypeOK
    <3> QED
      BY <1>2, <3>2, <3>3 DEF NoPackage
  <2> QED
    BY <1>2, <2>1, <2>2 DEF NoPackage, TypeOK, converter, framer
<1>3. CASE EmitPackage
  <2>1. /\ framed' \in Seq(Packages) /\ Len(framed') <= FrameDepth
        /\ emit' \in Seq(Packages) /\ Len(emit') <= 1
    BY <1>3 DEF EmitPackage, TypeOK
  <2> QED
    BY <1>3, <2>1 DEF EmitPackage, TypeOK, converter, framer
<1>4. CASE BeginFrame
  BY <1>4 DEF BeginFrame, TypeOK, converter, generator
<1>5. CASE FramePackage
  <2>1. Head(framed) \in Packages
    BY <1>5 DEF FramePackage, TypeOK
  <2>2. /\ framed' \in Seq(Packages) /\ Len(framed') <= FrameDepth
        /\ sent' \in Seq(Packages)
    BY <1>5, <2>1 DEF FramePackage, TypeOK
  <2>3. framing' \in BOOLEAN
    BY <1>5 DEF FramePackage
  <2> QED
    BY <1>5, <2>2, <2>3 DEF FramePackage, TypeOK, converter, generator
<1>6. CASE UNCHANGED vars
  BY <1>6 DEF vars, converter, generator, framer, TypeOK
<1> QED
  BY <1>1, <1>2, <1>3, <1>4, <1>5, <1>6

\* TypeOK: the counters stay below 256 and at most FrameSize, a package carries between
\* one and all of its slots, and no FIFO holds more than its depth.
THEOREM LaneTypeCorrect == Spec => []TypeOK
<1>1. TypeOK /\ [Next]_vars => TypeOK'
  BY TypeOKConverter, TypeOKRest DEF Next
<1> QED
  BY InitTypeOK, <1>1, PTL DEF Spec

-----------------------------------------------------------------------------
\* The closing packages in front of net_framing, counted in the FIFO and in the register
\* of the generator.
Emitting == IF emit = <<>> THEN 0 ELSE Bit(emit[1].last)
Balance == Closing(framed) + Emitting = signals + Bit(framing)

LEMMA EmitType ==
  ASSUME TypeOK
  PROVE  /\ emit # <<>> => emit[1] \in Packages
         /\ Emitting \in {0, 1}
         /\ Closing(framed) \in Nat
         /\ signals \in Nat
<1>1. Closing(framed) \in Nat
  BY ClosingType DEF TypeOK
<1> QED
  BY <1>1, FramingAssumption DEF TypeOK, Emitting, Bit

LEMMA BalanceIsSignalPerFrame ==
  ASSUME TypeOK
  PROVE  /\ Closing(Ahead) = Closing(framed) + Emitting
         /\ SignalPerFrame <=> Balance
<1>1. CASE emit = <<>>
  <2>1. Ahead = framed /\ Emitting = 0
    BY <1>1 DEF Ahead, Emitting
  <2>2. Closing(framed) \in Nat
    BY EmitType
  <2> QED
    BY <2>1, <2>2 DEF SignalPerFrame, Balance, Closing, Bit
<1>2. CASE emit # <<>>
  <2>1. emit[1] \in Packages
    BY <1>2, EmitType
  <2>2. Closing(Append(framed, emit[1])) = Closing(framed) + Bit(emit[1].last)
    BY <2>1, ClosingAppend DEF TypeOK
  <2>3. Ahead = Append(framed, emit[1]) /\ Emitting = Bit(emit[1].last)
    BY <1>2 DEF Ahead, Emitting
  <2> QED
    BY <2>2, <2>3 DEF SignalPerFrame, Balance, Closing, Bit
<1> QED
  BY <1>1, <1>2

LEMMA InitBalance == Init => Balance
BY ClosingEmpty DEF Init, Balance, Emitting, Bit

\* The signal goes out with the package that needs it, whoever moves in between.
LEMMA BalanceKept ==
  ASSUME TypeOK, Balance, [Next]_vars
  PROVE  Balance'
<1>1. /\ Closing(framed) \in Nat /\ signals \in Nat /\ Emitting \in {0, 1}
      /\ framed \in Seq(Packages)
  BY EmitType DEF TypeOK
<1>2. CASE UNCHANGED <<framed, emit, signals, framing>>
  BY <1>2 DEF Balance, Emitting, Closing
<1>3. CASE HoldPackage
  <2>1. /\ emit = <<>> /\ emit' = held /\ framed' = framed /\ framing' = framing
    BY <1>3 DEF HoldPackage, framer
  <2>2. Emitting = 0 /\ Closing(framed') = Closing(framed)
    BY <2>1 DEF Emitting
  <2>3. CASE SignalDue
    <3>1. Emitting' = 1
      BY <2>1, <2>3 DEF SignalDue, Emitting, Bit
    <3>2. signals' = signals + 1
      BY <1>3, <2>3 DEF HoldPackage, SignalWrite
    <3> QED
      BY <1>1, <2>1, <2>2, <3>1, <3>2 DEF Balance, Bit
  <2>4. CASE ~SignalDue
    <3>1. Emitting' = 0
      BY <2>1, <2>4 DEF SignalDue, Emitting, Bit
    <3>2. signals' = signals
      BY <1>3, <2>4 DEF HoldPackage
    <3> QED
      BY <1>1, <2>1, <2>2, <3>1, <3>2 DEF Balance, Bit
  <2> QED
    BY <2>3, <2>4
<1>4. CASE NoPackage
  <2>1. /\ emit = <<>> /\ held # <<>> /\ framed' = framed /\ framing' = framing
    BY <1>4 DEF NoPackage, framer
  <2>2. Emitting = 0 /\ Closing(framed') = Closing(framed)
    BY <2>1 DEF Emitting
  <2>3. CASE SignalWrite /\ emit' = <<CloseHeld>>
    <3>1. CloseHeld.last
      BY <2>1, CloseHeldType
    <3>2. Emitting' = 1
      BY <2>3, <3>1 DEF Emitting, Bit
    <3>3. signals' = signals + 1
      BY <2>3 DEF SignalWrite
    <3> QED
      BY <1>1, <2>1, <2>2, <3>2, <3>3 DEF Balance, Bit
  <2>4. CASE UNCHANGED <<signals, emit>>
    BY <1>2, <2>1, <2>4
  <2> QED
    BY <1>4, <2>3, <2>4 DEF NoPackage
<1>5. CASE EmitPackage
  <2>1. /\ emit # <<>> /\ framed' = Append(framed, emit[1]) /\ emit' = <<>>
        /\ signals' = signals /\ framing' = framing
    BY <1>5 DEF EmitPackage, framer
  <2>2. Closing(framed') = Closing(framed) + Bit(emit[1].last)
    BY <1>1, <2>1, EmitType, ClosingAppend
  <2>3. Emitting = Bit(emit[1].last) /\ Emitting' = 0
    BY <2>1 DEF Emitting
  <2> QED
    BY <1>1, <2>1, <2>2, <2>3 DEF Balance
<1>6. CASE BeginFrame
  <2>1. /\ signals' = signals - 1 /\ ~framing /\ framing'
        /\ framed' = framed /\ emit' = emit
    BY <1>6 DEF BeginFrame, generator
  <2>2. Closing(framed') = Closing(framed) /\ Emitting' = Emitting
    BY <2>1 DEF Emitting
  <2> QED
    BY <1>1, <2>1, <2>2 DEF Balance, Bit
<1>7. CASE FramePackage
  <2>1. /\ framing /\ framed # <<>> /\ framed' = Tail(framed)
        /\ framing' = ~Head(framed).last /\ signals' = signals /\ emit' = emit
    BY <1>7 DEF FramePackage, generator
  <2>2. Closing(framed) = Closing(framed') + Bit(Head(framed).last)
    BY <1>1, <2>1, ClosingTail
  <2>3. Emitting' = Emitting
    BY <2>1 DEF Emitting
  <2>4. framed' \in Seq(Packages)
    BY <1>1, <2>1
  <2>5. Closing(framed') \in Nat
    BY <2>4, ClosingType
  <2>6. Bit(framing) = 1 /\ signals' = signals
    BY <2>1 DEF Bit
  <2>7. CASE Head(framed).last
    <3>1. Bit(Head(framed).last) = 1 /\ Bit(framing') = 0
      BY <2>1, <2>7 DEF Bit
    <3> QED
      BY <1>1, <2>2, <2>3, <2>5, <2>6, <3>1 DEF Balance
  <2>8. CASE ~Head(framed).last
    <3>1. Bit(Head(framed).last) = 0 /\ Bit(framing') = 1
      BY <2>1, <2>8 DEF Bit
    <3> QED
      BY <1>1, <2>2, <2>3, <2>5, <2>6, <3>1 DEF Balance
  <2> QED
    BY <2>7, <2>8
<1>8. CASE ReadTask \/ NoTask \/ UNCHANGED vars
  BY <1>2, <1>8 DEF ReadTask, NoTask, vars, converter, generator, framer
<1> QED
  BY <1>3, <1>4, <1>5, <1>6, <1>7, <1>8 DEF Next

LEMMA BalanceCorrect == Spec => [](TypeOK /\ Balance)
<1>1. Init => TypeOK /\ Balance
  BY InitTypeOK, InitBalance
<1>2. TypeOK /\ Balance /\ [Next]_vars => TypeOK' /\ Balance'
  BY TypeOKConverter, TypeOKRest, BalanceKept DEF Next
<1> QED
  BY <1>1, <1>2, PTL DEF Spec

\* SignalPerFrame: the signals, with the one net_framing works on, are as many as the
\* closing packages in front of it.
THEOREM SignalsMatchFrames == Spec => []SignalPerFrame
<1>1. TypeOK /\ Balance => SignalPerFrame
  BY BalanceIsSignalPerFrame
<1> QED
  BY <1>1, BalanceCorrect, PTL

\* NeverWaitsMidFrame: inside a frame net_framing has the end of the frame in front of
\* it, and does not hold the scheduler while it waits for a task.
THEOREM NeverWaits == Spec => []NeverWaitsMidFrame
<1>1. TypeOK /\ Balance => NeverWaitsMidFrame
  <2>1. SUFFICES ASSUME TypeOK, Balance, framing
                 PROVE  Lasts(Ahead) # {}
    BY DEF NeverWaitsMidFrame
  <2>2. Closing(Ahead) = signals + 1 /\ signals \in Nat
    BY <2>1, BalanceIsSignalPerFrame, EmitType DEF Balance, Bit
  <2>3. Closing(Ahead) # 0
    BY <2>2
  <2> QED
    BY <2>3, FS_EmptySet DEF Closing
<1> QED
  BY <1>1, BalanceCorrect, PTL

-----------------------------------------------------------------------------
Package == [lane : Nat, frame : Nat, no : Nat, last : BOOLEAN]

\* Before the first package.
Start == [lane |-> 0, frame |-> 0, no |-> 0, last |-> TRUE]

\* q may come after p.
Follows(p, q) == IF p.last THEN q.no = 1 ELSE q = Sched!Pkg(p.lane, p.frame, p.no + 1)

\* The packages of s may come, in this order, after p; the last of p and s.
WholeAfter(p, s) == \A i \in 1 .. Len(s) : Follows(IF i = 1 THEN p ELSE s[i - 1], s[i])
LastOf(p, s) == IF Len(s) = 0 THEN p ELSE s[Len(s)]

\* The output of a node or lane: the wire for node 1.
Out(c) == IF c = 1 THEN wire ELSE fifo[c]
Before(seen, c) == IF c = 1 THEN Start ELSE seen[c]
Written(seen, c) == LastOf(Before(seen, c), Out(c))

-----------------------------------------------------------------------------
Types ==
  /\ given \in [Sched!Lane -> (Nat \ {0}) \X Nat]
  /\ fifo \in [Sched!Fifo -> Seq(Package)] /\ wire \in Seq(Package)
  /\ status \in [Sched!Node -> {"INIT", "IN1", "IN2"}] /\ turn \in [Sched!Node -> Sched!Bit]

\* A lane is inside a frame when the last package it has written is.
LaneRight(seen, l) ==
  IF given[l][2] = 0 THEN Written(seen, l).last
  ELSE /\ Written(seen, l) = Sched!Pkg(l, given[l][1], given[l][2])
       /\ ~Written(seen, l).last

\* A scheduler is inside a frame when it keeps to the input this frame comes from; it is
\* between two frames of every other input.
NodeRight(seen, n) ==
  IF Written(seen, n).last THEN \A b \in Sched!Bit : seen[Sched!Input(n, b)].last
  ELSE \E b \in Sched!Bit : /\ status[n] = Sched!Keep(b)
                      /\ seen[Sched!Input(n, b)] = Written(seen, n)
                      /\ seen[Sched!Input(n, 1 - b)].last

Right(seen) ==
  /\ \A c \in 1 .. 2 * Lanes - 1 : WholeAfter(Before(seen, c), Out(c))
  /\ \A l \in Sched!Lane : LaneRight(seen, l)
  /\ \A n \in Sched!Node : NodeRight(seen, n)

SchedInv == Types /\ \E seen \in [Sched!Fifo -> Package] : Right(seen)

-----------------------------------------------------------------------------
\* The ranges of the tree: two inputs of different nodes are different FIFOs.
LEMMA Tree ==
  ASSUME Sched!SchedulerAssumption
  PROVE  /\ Lanes \in Nat /\ Lanes > 1 /\ 1 \notin Sched!Fifo
         /\ Sched!Node \cap Sched!Lane = {} /\ Sched!Lane \subseteq Sched!Fifo
         /\ Sched!Node \subseteq 1 .. 2 * Lanes - 1
         /\ Sched!Fifo = (1 .. 2 * Lanes - 1) \ {1}
         /\ \A n \in Sched!Node, b \in Sched!Bit :
              Sched!Input(n, b) \in Sched!Fifo /\ Sched!Input(n, b) # n
         /\ \A m, n \in Sched!Node, a, b \in Sched!Bit :
              Sched!Input(m, a) = Sched!Input(n, b) => m = n /\ a = b
BY DEF Sched!SchedulerAssumption, Sched!Node, Sched!Fifo, Sched!Lane, Sched!Bit, Sched!Input

LEMMA SchedPkgType ==
  ASSUME NEW l \in Nat, NEW f \in Nat, NEW k \in Nat
  PROVE  /\ Sched!Pkg(l, f, k) \in Package
         /\ Sched!Pkg(l, f, k).lane = l /\ Sched!Pkg(l, f, k).frame = f
         /\ Sched!Pkg(l, f, k).no = k
         /\ Sched!Pkg(l, f, k).last <=> k = FrameLen[l][f]
BY DEF Sched!Pkg, Package

LEMMA StartType == Start \in Package /\ Start.last
BY DEF Start, Package

\* What is taken out of a stream may follow what was taken out before.
LEMMA TakeOut ==
  ASSUME NEW p, NEW s \in Seq(Package), s # << >>, WholeAfter(p, s)
  PROVE  /\ Head(s) \in Package /\ Tail(s) \in Seq(Package) /\ Follows(p, Head(s))
         /\ WholeAfter(Head(s), Tail(s)) /\ LastOf(Head(s), Tail(s)) = LastOf(p, s)
<1>1. /\ Len(s) \in Nat \ {0} /\ Tail(s) \in Seq(Package) /\ Len(Tail(s)) = Len(s) - 1
      /\ Head(s) = s[1] /\ Head(s) \in Package
      /\ \A i \in 1 .. Len(s) - 1 : Tail(s)[i] = s[i + 1]
  OBVIOUS
<1>2. Follows(p, Head(s))
  <2>1. Follows(IF 1 = 1 THEN p ELSE s[1 - 1], s[1])
    BY <1>1 DEF WholeAfter
  <2> QED
    BY <2>1, <1>1
<1>3. ASSUME NEW i \in 1 .. Len(Tail(s))
      PROVE  Follows(IF i = 1 THEN Head(s) ELSE Tail(s)[i - 1], Tail(s)[i])
  <2>1. Follows(IF i + 1 = 1 THEN p ELSE s[i + 1 - 1], s[i + 1])
    BY <1>1 DEF WholeAfter
  <2>2. (IF i = 1 THEN Head(s) ELSE Tail(s)[i - 1]) = s[i] /\ Tail(s)[i] = s[i + 1]
    BY <1>1
  <2>3. i + 1 # 1 /\ i + 1 - 1 = i
    OBVIOUS
  <2> QED
    BY <2>1, <2>2, <2>3
<1>4. LastOf(Head(s), Tail(s)) = LastOf(p, s)
  <2>1. CASE Len(s) = 1
    BY <1>1, <2>1 DEF LastOf
  <2>2. CASE Len(s) # 1
    <3>1. Len(Tail(s)) # 0 /\ Tail(s)[Len(s) - 1] = s[Len(s) - 1 + 1] /\ Len(s) - 1 + 1 = Len(s)
      BY <1>1, <2>2
    <3> QED
      BY <1>1, <3>1 DEF LastOf
  <2> QED
    BY <2>1, <2>2
<1> QED
  BY <1>1, <1>2, <1>3, <1>4 DEF WholeAfter

\* What is written may follow what was written last.
LEMMA PutIn ==
  ASSUME NEW p, NEW s \in Seq(Package), NEW q \in Package,
         WholeAfter(p, s), Follows(LastOf(p, s), q)
  PROVE  /\ Append(s, q) \in Seq(Package)
         /\ WholeAfter(p, Append(s, q)) /\ LastOf(p, Append(s, q)) = q
<1> DEFINE t == Append(s, q)
<1>1. /\ Len(s) \in Nat /\ t \in Seq(Package) /\ Len(t) = Len(s) + 1
      /\ t[Len(s) + 1] = q /\ \A i \in 1 .. Len(s) : t[i] = s[i]
  OBVIOUS
<1> HIDE DEF t
<1>2. ASSUME NEW i \in 1 .. Len(t)
      PROVE  Follows(IF i = 1 THEN p ELSE t[i - 1], t[i])
  <2>1. CASE i \in 1 .. Len(s)
    <3>1. Follows(IF i = 1 THEN p ELSE s[i - 1], s[i])
      BY <2>1 DEF WholeAfter
    <3>2. i # 1 => t[i - 1] = s[i - 1]
      BY <1>1, <2>1
    <3>3. t[i] = s[i]
      BY <1>1, <2>1
    <3> QED
      BY <3>1, <3>2, <3>3
  <2>2. CASE i = Len(s) + 1
    <3>1. (IF i = 1 THEN p ELSE t[i - 1]) = LastOf(p, s)
      BY <1>1, <2>2 DEF LastOf
    <3> QED
      BY <3>1, <1>1, <2>2
  <2> QED
    BY <1>1, <2>1, <2>2
<1>3. LastOf(p, t) = q
  BY <1>1 DEF LastOf
<1> QED
  BY <1>1, <1>2, <1>3 DEF WholeAfter, t

-----------------------------------------------------------------------------
LEMMA InitRight == ASSUME Sched!SchedulerAssumption, Sched!Init PROVE SchedInv
<1> USE Tree
<1> DEFINE seen == [c \in Sched!Fifo |-> Start]
<1>1. Types
  BY DEF Sched!Init, Types, Sched!Bit
<1>2. \A c \in 1 .. 2 * Lanes - 1 : Out(c) = << >> /\ Before(seen, c) = Start
  BY DEF Sched!Init, Out, Before
<1>3. \A c \in 1 .. 2 * Lanes - 1 : Written(seen, c) = Start
  BY <1>2 DEF Written, LastOf
<1>4. \A c \in 1 .. 2 * Lanes - 1 : WholeAfter(Before(seen, c), Out(c))
  BY <1>2 DEF WholeAfter
<1>5. \A l \in Sched!Lane : LaneRight(seen, l)
  BY <1>3, StartType DEF LaneRight, Sched!Init
<1>6. \A n \in Sched!Node : NodeRight(seen, n)
  BY <1>3, StartType DEF NodeRight
<1>7. seen \in [Sched!Fifo -> Package]
  BY StartType
<1> QED
  BY <1>1, <1>4, <1>5, <1>6, <1>7 DEF SchedInv, Right

\* What the right of a lane or node rests on.
LEMMA LaneSame ==
  ASSUME NEW seen, NEW seen2, NEW l, LaneRight(seen, l),
         Written(seen2, l)' = Written(seen, l), given'[l] = given[l]
  PROVE  LaneRight(seen2, l)'
BY DEF LaneRight

LEMMA NodeSame ==
  ASSUME NEW seen, NEW seen2, NEW n, NodeRight(seen, n),
         Written(seen2, n)' = Written(seen, n), status'[n] = status[n],
         \A b \in Sched!Bit : seen2[Sched!Input(n, b)] = seen[Sched!Input(n, b)]
  PROVE  NodeRight(seen2, n)'
BY DEF NodeRight, Sched!Bit

\* A lane writes the next package of its frames.
LEMMA WriteRight ==
  ASSUME Sched!SchedulerAssumption, SchedInv, NEW l \in Sched!Lane, Sched!LaneWrite(l)
  PROVE  SchedInv'
<1> DEFINE f == given[l][1]
           k == given[l][2] + 1
           p == Sched!Pkg(l, f, k)
<1>0. /\ l \in Nat /\ f \in Nat /\ k \in Nat
      /\ given[l][2] \in Nat /\ given[l][2] + 1 \in Nat /\ given[l][2] + 1 # 0
  <2>1. given[l] \in (Nat \ {0}) \X Nat
    BY DEF SchedInv, Types
  <2>2. l \in Nat
    BY Tree DEF Sched!Lane
  <2> QED
    BY <2>1, <2>2
<1>1. PICK seen \in [Sched!Fifo -> Package] : Right(seen)
  BY DEF SchedInv
<1>2. Types
  BY DEF SchedInv
<1>3. /\ l \in Nat /\ l \in Sched!Fifo /\ l # 1 /\ l \notin Sched!Node /\ f \in Nat \ {0}
      /\ k \in Nat
  BY <1>2, Tree DEF Types, Sched!Lane
<1>4. /\ p \in Package /\ p.lane = l /\ p.frame = f /\ p.no = k
      /\ p.last <=> k = FrameLen[l][f]
  <2> HIDE DEF f, k
  <2> QED
    BY <1>0, SchedPkgType
<1>5. /\ fifo' = [fifo EXCEPT ![l] = Append(@, p)]
      /\ given' = [given EXCEPT ![l] = IF k = FrameLen[l][f] THEN <<f + 1, 0>> ELSE <<f, k>>]
      /\ UNCHANGED <<status, turn, wire>>
  BY DEF Sched!LaneWrite
<1> HIDE DEF p
<1>6. Follows(Written(seen, l), p)
  <2>1. LaneRight(seen, l)
    BY <1>1 DEF Right
  <2>2. CASE given[l][2] = 0
    BY <2>1, <2>2, <1>4 DEF LaneRight, Follows
  <2>3. CASE given[l][2] # 0
    <3>1. Written(seen, l) = Sched!Pkg(l, f, given[l][2]) /\ ~Written(seen, l).last
      BY <2>1, <2>3 DEF LaneRight
    <3>2. Written(seen, l).lane = l /\ Written(seen, l).frame = f
          /\ Written(seen, l).no = given[l][2]
      <4> DEFINE j == given[l][2]
      <4>1. j \in Nat
        BY <1>0
      <4> HIDE DEF f, j
      <4>2. Sched!Pkg(l, f, j).lane = l /\ Sched!Pkg(l, f, j).frame = f
            /\ Sched!Pkg(l, f, j).no = j
        BY <1>0, <4>1, SchedPkgType
      <4> QED
        BY <3>1, <4>2 DEF j
    <3> QED
      BY <3>1, <3>2 DEF Follows, p
  <2> QED
    BY <2>2, <2>3
<1>7. /\ WholeAfter(seen[l], fifo[l]) /\ fifo[l] \in Seq(Package)
      /\ Written(seen, l) = LastOf(seen[l], fifo[l])
  BY <1>1, <1>2, <1>3, Tree DEF Right, Types, Before, Out, Written
<1>8. /\ Append(fifo[l], p) \in Seq(Package) /\ WholeAfter(seen[l], Append(fifo[l], p))
      /\ LastOf(seen[l], Append(fifo[l], p)) = p
  BY <1>4, <1>6, <1>7, PutIn
<1>9. /\ fifo'[l] = Append(fifo[l], p)
      /\ \A c \in Sched!Fifo : c # l => fifo'[c] = fifo[c]
      /\ fifo' \in [Sched!Fifo -> Seq(Package)]
  BY <1>2, <1>3, <1>5, <1>8 DEF Types
<1>10. Types'
  BY <1>2, <1>3, <1>5, <1>9 DEF Types
<1>11. \A c \in 1 .. 2 * Lanes - 1 : c # l => Out(c)' = Out(c)
  BY <1>5, <1>9, Tree DEF Out
<1>12. Out(l)' = Append(fifo[l], p) /\ Written(seen, l)' = p
  BY <1>3, <1>8, <1>9 DEF Out, Written, Before
<1>13. \A c \in 1 .. 2 * Lanes - 1 : WholeAfter(Before(seen, c), Out(c))'
  <2>1. \A c \in 1 .. 2 * Lanes - 1 : WholeAfter(Before(seen, c), Out(c))
    BY <1>1 DEF Right
  <2>2. WholeAfter(Before(seen, l), Out(l)')
    BY <1>3, <1>8, <1>12 DEF Before
  <2>3. \A c \in 1 .. 2 * Lanes - 1 : WholeAfter(Before(seen, c), Out(c)')
    BY <2>1, <2>2, <1>11
  <2> QED
    BY <2>3 DEF WholeAfter, Before
<1>14. \A c \in 1 .. 2 * Lanes - 1 : c # l => Written(seen, c)' = Written(seen, c)
  BY <1>11 DEF Written, Before
<1>15. \A m \in Sched!Lane : LaneRight(seen, m)'
  <2> SUFFICES ASSUME NEW m \in Sched!Lane PROVE LaneRight(seen, m)'
    OBVIOUS
  <2>1. CASE m = l
    <3>1. given'[l] = IF k = FrameLen[l][f] THEN <<f + 1, 0>> ELSE <<f, k>>
      BY <1>2, <1>5 DEF Types
    <3>2. CASE p.last
      BY <2>1, <3>1, <3>2, <1>4, <1>12 DEF LaneRight
    <3>3. CASE ~p.last
      <4>1. given'[l][1] = f /\ given'[l][2] = k /\ k # 0
        BY <3>1, <3>3, <1>0, <1>4
      <4> QED
        BY <2>1, <4>1, <3>3, <1>12 DEF LaneRight, p
    <3> QED
      BY <3>2, <3>3
  <2>2. CASE m # l
    <3>1. LaneRight(seen, m) /\ given'[m] = given[m] /\ Written(seen, m)' = Written(seen, m)
      BY <1>1, <1>2, <1>5, <1>14, <2>2, Tree DEF Right, Types
    <3> QED
      BY <3>1, LaneSame
  <2> QED
    BY <2>1, <2>2
<1>16. \A n \in Sched!Node : NodeRight(seen, n)'
  <2> SUFFICES ASSUME NEW n \in Sched!Node PROVE NodeRight(seen, n)'
    OBVIOUS
  <2>1. NodeRight(seen, n) /\ status'[n] = status[n] /\ Written(seen, n)' = Written(seen, n)
    BY <1>1, <1>3, <1>5, <1>14, Tree DEF Right
  <2> QED
    BY <2>1, NodeSame
<1> QED
  BY <1>10, <1>13, <1>15, <1>16 DEF SchedInv, Right

LEMMA ChosenBit == ASSUME SchedInv, NEW n \in Sched!Node PROVE Sched!Chosen(n) \in Sched!Bit
<1>1. turn[n] \in {0, 1} /\ 1 - turn[n] \in {0, 1}
  BY DEF SchedInv, Types, Sched!Bit
<1> QED
  BY <1>1 DEF Sched!Chosen, Sched!Bit

\* A scheduler inside a frame reads the FIFO the frame comes from; outside of a frame
\* every input it may read begins one.
LEMMA ChosenFollows ==
  ASSUME Sched!SchedulerAssumption, SchedInv, NEW seen \in [Sched!Fifo -> Package], Right(seen),
         NEW n \in Sched!Node, fifo[Sched!Input(n, Sched!Chosen(n))] # << >>
  PROVE  Follows(Written(seen, n), Head(fifo[Sched!Input(n, Sched!Chosen(n))]))
<1> DEFINE b == Sched!Chosen(n)
           c == Sched!Input(n, b)
<1>1. b \in Sched!Bit /\ c \in Sched!Fifo /\ c # 1
  <2>1. b \in Sched!Bit
    BY ChosenBit
  <2> QED
    BY <2>1, Tree
<1>2. Follows(seen[c], Head(fifo[c]))
  <2>1. WholeAfter(seen[c], fifo[c]) /\ fifo[c] \in Seq(Package)
    BY <1>1, Tree DEF Right, Before, Out, SchedInv, Types
  <2> QED
    BY <2>1, TakeOut
<1>3. NodeRight(seen, n)
  BY DEF Right
<1>4. CASE Written(seen, n).last
  BY <1>1, <1>2, <1>3, <1>4 DEF NodeRight, Follows
<1>5. CASE ~Written(seen, n).last
  <2>1. PICK a \in Sched!Bit :
          status[n] = Sched!Keep(a) /\ seen[Sched!Input(n, a)] = Written(seen, n)
    BY <1>3, <1>5 DEF NodeRight
  <2>2. b = a
    BY <2>1 DEF Sched!Chosen, Sched!Keep, Sched!Bit
  <2> QED
    BY <1>2, <2>1, <2>2
<1> QED
  BY <1>4, <1>5

\* A scheduler moves a package.
LEMMA ScheduleRight ==
  ASSUME Sched!SchedulerAssumption, SchedInv, NEW n \in Sched!Node, Sched!net_scheduler(n)
  PROVE  SchedInv'
<1>a. PICK b \in Sched!Bit : b = Sched!Chosen(n)
  BY ChosenBit
<1> DEFINE c == Sched!Input(n, b)
<1>b. PICK p : p = Head(fifo[c])
  OBVIOUS
<1>1. PICK seen \in [Sched!Fifo -> Package] : Right(seen)
  BY DEF SchedInv
<1>2. Types
  BY DEF SchedInv
<1>3. /\ fifo[c] # << >>
      /\ fifo' = [i \in Sched!Fifo |-> IF i = c THEN Tail(fifo[c])
                                 ELSE IF i = n THEN Append(fifo[n], p) ELSE fifo[i]]
      /\ wire' = IF n = 1 THEN Append(wire, p) ELSE wire
      /\ status' = [status EXCEPT ![n] =
                               IF p.last THEN Sched!AfterFrame(n, b) ELSE Sched!Keep(b)]
      /\ turn' = [turn EXCEPT ![n] = IF p.last THEN b ELSE @]
      /\ UNCHANGED given
  BY <1>a, <1>b DEF Sched!net_scheduler
<1>4. b \in Sched!Bit /\ c \in Sched!Fifo /\ c # 1 /\ c # n /\ n \in 1 .. 2 * Lanes - 1
  BY Tree
<1>5. Follows(Written(seen, n), p)
  BY <1>1, <1>3, <1>a, <1>b, ChosenFollows
<1>6. /\ WholeAfter(seen[c], fifo[c]) /\ fifo[c] \in Seq(Package)
      /\ Written(seen, c) = LastOf(seen[c], fifo[c])
  BY <1>1, <1>2, <1>4, Tree DEF Right, Types, Before, Out, Written
<1>7. /\ p \in Package /\ Tail(fifo[c]) \in Seq(Package)
      /\ WholeAfter(p, Tail(fifo[c])) /\ LastOf(p, Tail(fifo[c])) = Written(seen, c)
  BY <1>3, <1>6, <1>b, TakeOut
<1>8. /\ WholeAfter(Before(seen, n), Out(n)) /\ Out(n) \in Seq(Package)
      /\ Written(seen, n) = LastOf(Before(seen, n), Out(n))
  BY <1>1, <1>2, <1>4, Tree DEF Right, Types, Out, Written
<1>9. /\ Append(Out(n), p) \in Seq(Package) /\ WholeAfter(Before(seen, n), Append(Out(n), p))
      /\ LastOf(Before(seen, n), Append(Out(n), p)) = p
  BY <1>5, <1>7, <1>8, PutIn
<1> DEFINE after == [seen EXCEPT ![c] = p]
<1> HIDE DEF c
<1>10. /\ after \in [Sched!Fifo -> Package] /\ after[c] = p
       /\ \A i \in Sched!Fifo : i # c => after[i] = seen[i]
  BY <1>4, <1>7
<1> HIDE DEF after
<1>11. Out(c)' = Tail(fifo[c]) /\ Out(n)' = Append(Out(n), p)
  BY <1>3, <1>4, Tree DEF Out
<1>12. \A i \in 1 .. 2 * Lanes - 1 : i # c /\ i # n => Out(i)' = Out(i)
  BY <1>3, <1>4, Tree DEF Out
<1>13. /\ Before(after, c) = p
       /\ \A i \in 1 .. 2 * Lanes - 1 : i # c => Before(after, i) = Before(seen, i)
  BY <1>4, <1>10, Tree DEF Before
<1>14. Types'
  <2>1. wire' \in Seq(Package) /\ fifo' \in [Sched!Fifo -> Seq(Package)]
    <3>1. n = 1 => wire' \in Seq(Package)
      BY <1>9, <1>11 DEF Out
    <3>2. n # 1 => Append(fifo[n], p) \in Seq(Package)
      BY <1>9 DEF Out
    <3>3. n \in Sched!Fifo => n # 1
      BY Tree
    <3> QED
      BY <1>2, <1>3, <1>7, <3>1, <3>2, <3>3 DEF Types
  <2>2. Sched!AfterFrame(n, b) \in {"INIT", "IN1", "IN2"}
        /\ Sched!Keep(b) \in {"INIT", "IN1", "IN2"}
    BY <1>4 DEF Sched!AfterFrame, Sched!Keep
  <2> QED
    BY <1>2, <1>3, <1>4, <2>1, <2>2 DEF Types
<1>15. \A i \in 1 .. 2 * Lanes - 1 : WholeAfter(Before(after, i), Out(i))'
  <2>1. \A i \in 1 .. 2 * Lanes - 1 : WholeAfter(Before(seen, i), Out(i))
    BY <1>1 DEF Right
  <2>2. WholeAfter(Before(after, c), Out(c)')
    BY <1>7, <1>11, <1>13
  <2>3. WholeAfter(Before(after, n), Out(n)')
    BY <1>4, <1>9, <1>11, <1>13
  <2>4. \A i \in 1 .. 2 * Lanes - 1 : WholeAfter(Before(after, i), Out(i)')
    BY <2>1, <2>2, <2>3, <1>12, <1>13
  <2> QED
    BY <2>4 DEF WholeAfter, Before
<1>16. /\ Written(after, n)' = p /\ Written(after, c)' = Written(seen, c)
       /\ \A i \in 1 .. 2 * Lanes - 1 : i # n => Written(after, i)' = Written(seen, i)
  <2>1. \A i \in 1 .. 2 * Lanes - 1 : Written(after, i)' = LastOf(Before(after, i), Out(i)')
    BY DEF Written, Before, LastOf
  <2>2. c \in 1 .. 2 * Lanes - 1
    BY <1>4, Tree
  <2>3. Written(after, n)' = p
    BY <2>1, <1>4, <1>9, <1>11, <1>13
  <2>4. Written(after, c)' = Written(seen, c)
    BY <2>1, <2>2, <1>7, <1>11, <1>13
  <2>5. \A i \in 1 .. 2 * Lanes - 1 : i # n /\ i # c => Written(after, i)' = Written(seen, i)
    BY <2>1, <1>12, <1>13 DEF Written
  <2> QED
    BY <2>3, <2>4, <2>5
<1>17. \A l \in Sched!Lane : LaneRight(after, l)'
  <2> SUFFICES ASSUME NEW l \in Sched!Lane PROVE LaneRight(after, l)'
    OBVIOUS
  <2>1. LaneRight(seen, l) /\ given'[l] = given[l] /\ l # n /\ l \in 1 .. 2 * Lanes - 1
    BY <1>1, <1>3, Tree DEF Right
  <2>2. Written(after, l)' = Written(seen, l)
    BY <2>1, <1>16
  <2> QED
    BY <2>1, <2>2, LaneSame
<1>18. \A m \in Sched!Node : NodeRight(after, m)'
  <2> SUFFICES ASSUME NEW m \in Sched!Node PROVE NodeRight(after, m)'
    OBVIOUS
  <2>1. CASE m = n
    <3>1. seen[Sched!Input(n, 1 - b)].last
          /\ after[Sched!Input(n, 1 - b)] = seen[Sched!Input(n, 1 - b)]
      <4>1. 1 - b \in Sched!Bit /\ 1 - b # b /\ Sched!Input(n, 1 - b) \in Sched!Fifo
            /\ Sched!Input(n, 1 - b) # c
        BY <1>4, Tree DEF Sched!Bit, c
      <4>2. NodeRight(seen, n)
        BY <1>1 DEF Right
      <4>3. CASE Written(seen, n).last
        BY <4>1, <4>2, <4>3, <1>10 DEF NodeRight
      <4>4. CASE ~Written(seen, n).last
        <5>1. PICK a \in Sched!Bit :
                status[n] = Sched!Keep(a) /\ seen[Sched!Input(n, 1 - a)].last
          BY <4>2, <4>4 DEF NodeRight
        <5>2. b = a
          BY <5>1, <1>a DEF Sched!Chosen, Sched!Keep, Sched!Bit
        <5> QED
          BY <5>1, <5>2, <4>1, <1>10
      <4> QED
        BY <4>3, <4>4
    <3>2. after[Sched!Input(n, b)] = p
      BY <1>10 DEF c
    <3>3. \A a \in Sched!Bit : a = b \/ a = 1 - b
      BY <1>4 DEF Sched!Bit
    <3>4. CASE p.last
      <4>1. \A a \in Sched!Bit : after[Sched!Input(n, a)].last
        BY <3>1, <3>2, <3>3, <3>4
      <4> QED
        BY <2>1, <3>4, <4>1, <1>16 DEF NodeRight
    <3>5. CASE ~p.last
      <4>1. status'[n] = Sched!Keep(b)
        BY <1>2, <1>3, <3>5 DEF Types
      <4> QED
        BY <2>1, <3>1, <3>2, <3>5, <4>1, <1>4, <1>16 DEF NodeRight
    <3> QED
      BY <3>4, <3>5
  <2>2. CASE m # n
    <3>1. NodeRight(seen, m) /\ status'[m] = status[m] /\ m \in 1 .. 2 * Lanes - 1
      BY <1>1, <1>2, <1>3, <2>2, Tree DEF Right, Types
    <3>2. \A a \in Sched!Bit : Sched!Input(m, a) \in Sched!Fifo /\ Sched!Input(m, a) # c
      BY <1>4, <2>2, Tree DEF c
    <3>3. Written(after, m)' = Written(seen, m)
      BY <1>16, <2>2, <3>1
    <3> QED
      BY <3>1, <3>2, <3>3, <1>10, NodeSame
  <2> QED
    BY <2>1, <2>2
<1> QED
  BY <1>10, <1>14, <1>15, <1>17, <1>18 DEF SchedInv, Right

LEMMA StutterRight == ASSUME Sched!SchedulerAssumption, SchedInv, UNCHANGED Sched!vars
  PROVE SchedInv'
<1>1. PICK seen \in [Sched!Fifo -> Package] : Right(seen)
  BY DEF SchedInv
<1>2. Types'
  BY DEF SchedInv, Types, Sched!vars
<1>3. \A c \in 1 .. 2 * Lanes - 1 : Out(c)' = Out(c)
  BY DEF Out, Sched!vars
<1>4. \A c \in 1 .. 2 * Lanes - 1 : Written(seen, c)' = Written(seen, c)
  BY <1>3 DEF Written, Before
<1>5. \A c \in 1 .. 2 * Lanes - 1 : WholeAfter(Before(seen, c), Out(c))'
  <2>1. \A c \in 1 .. 2 * Lanes - 1 : WholeAfter(Before(seen, c), Out(c)')
    BY <1>1, <1>3 DEF Right
  <2> QED
    BY <2>1 DEF WholeAfter, Before
<1>6. \A l \in Sched!Lane : LaneRight(seen, l)'
  BY <1>1, <1>4, LaneSame, Tree DEF Right, Sched!vars
<1>7. \A n \in Sched!Node : NodeRight(seen, n)'
  BY <1>1, <1>4, NodeSame, Tree DEF Right, Sched!vars
<1> QED
  BY <1>1, <1>2, <1>5, <1>6, <1>7 DEF SchedInv, Right

-----------------------------------------------------------------------------
\* FramesStayWhole: between the first and the last package of a frame no package of another
\* lane goes out on the port of the board, however many schedulers and lanes there are.
THEOREM FramesStayWhole ==
  ASSUME Sched!SchedulerAssumption PROVE Sched!Spec => []FramesWhole
<1>1. Sched!Init => SchedInv
  BY InitRight
<1>2. SchedInv /\ [Sched!Next]_(Sched!vars) => SchedInv'
  BY WriteRight, ScheduleRight, StutterRight DEF Sched!Next
<1>3. SchedInv => FramesWhole
  <2> SUFFICES ASSUME SchedInv, NEW i \in 2 .. Len(wire)
               PROVE  Follows(wire[i - 1], wire[i])
    BY DEF FramesWhole, Sched!FramesWhole, Follows
  <2>1. WholeAfter(Start, wire)
    <3>1. PICK seen \in [Sched!Fifo -> Package] : Right(seen)
      BY DEF SchedInv
    <3> QED
      BY <3>1, Tree DEF Right, Before, Out
  <2>2. Len(wire) \in Nat
    BY DEF SchedInv, Types
  <2>3. i \in 1 .. Len(wire) /\ i # 1
    BY <2>2
  <2> QED
    BY <2>1, <2>3 DEF WholeAfter
<1> QED
  BY <1>1, <1>2, <1>3, PTL DEF Sched!Spec

-----------------------------------------------------------------------------
(* Turns: size[c] is the number of lanes below FIFO or node c.  It is even at *)
(* every node, with one half below each input: Lanes is a power of two.       *)
Below(size) ==
  /\ size[1] = Lanes
  /\ \A l \in Sched!Lane : size[l] = 1
  /\ \A n \in Sched!Node : size[2 * n] = size[2 * n + 1] /\ size[n] = 2 * size[2 * n]

PowerOfTwo == \E size \in [1 .. 2 * Lanes - 1 -> Nat \ {0}] : Below(size)

\* A package in FIFO c comes from a lane below c.
From(size, c, p) == c * size[c] <= p.lane /\ p.lane < (c + 1) * size[c]
Placed(size) == \A c \in Sched!Fifo : \A i \in 1 .. Len(fifo[c]) : From(size, c, fifo[c][i])

\* After a frame the last scheduler knows which half it served, and keeps to no input or
\* to the other one.
Turned ==
  wire # << >> /\ wire[Len(wire)].last =>
    LET h == Sched!Half(wire[Len(wire)])
    IN turn[1] = h /\ status[1] \in {"INIT", Sched!Keep(1 - h)}

TurnInv == Types /\ Turned /\ \E size \in [1 .. 2 * Lanes - 1 -> Nat \ {0}] :
                                 Below(size) /\ Placed(size)

\* What is below an input is below its node.
LEMMA FromUp ==
  ASSUME Sched!SchedulerAssumption, NEW size \in [1 .. 2 * Lanes - 1 -> Nat \ {0}],
         Below(size), NEW n \in Sched!Node, NEW b \in Sched!Bit, NEW p \in Package,
         From(size, Sched!Input(n, b), p)
  PROVE  From(size, n, p)
<1>1. n \in Nat /\ p.lane \in Nat /\ (b = 0 \/ b = 1)
  BY DEF Sched!Node, Package, Sched!Bit, Sched!SchedulerAssumption
<1>2. PICK s : s = size[2 * n]
  OBVIOUS
<1>3. size[2 * n + 1] = s /\ size[n] = 2 * s
  BY <1>2 DEF Below
<1>4. s \in Nat
  <2>1. 2 * n \in 1 .. 2 * Lanes - 1
    BY DEF Sched!Node, Sched!SchedulerAssumption
  <2> QED
    BY <1>2, <2>1
<1>5. \A m \in Nat : n * (2 * s) = (2 * n) * s /\ (n + 1) * (2 * s) = (2 * n + 1) * s + s
                     /\ (2 * n + 1) * s = (2 * n) * s + s
                     /\ (2 * n + 1 + 1) * s = (2 * n + 1) * s + s
  BY <1>1, <1>4
<1>6. CASE b = 0
  <2>1. (2 * n) * s <= p.lane /\ p.lane < (2 * n + 1) * s
    <3>1. Sched!Input(n, b) = 2 * n
      BY <1>1, <1>6 DEF Sched!Input
    <3> QED
      BY <1>2, <3>1 DEF From
  <2> QED
    BY <1>1, <1>3, <1>4, <1>5, <2>1 DEF From
<1>7. CASE b = 1
  <2>1. (2 * n + 1) * s <= p.lane /\ p.lane < (2 * n + 1 + 1) * s
    <3>1. Sched!Input(n, b) = 2 * n + 1
      BY <1>1, <1>7 DEF Sched!Input
    <3> QED
      BY <1>3, <3>1 DEF From
  <2> QED
    BY <1>1, <1>3, <1>4, <1>5, <2>1 DEF From
<1> QED
  BY <1>1, <1>6, <1>7

LEMMA Thrice ==
  ASSUME NEW l \in Nat, NEW s \in Nat
  PROVE  /\ l < 3 * s => 2 * l < 3 * (2 * s)
         /\ 3 * s <= l => ~(2 * l < 3 * (2 * s))
OBVIOUS

\* The inputs of the last scheduler are the halves of the lanes.
LEMMA HalfOf ==
  ASSUME Sched!SchedulerAssumption, NEW size \in [1 .. 2 * Lanes - 1 -> Nat \ {0}],
         Below(size), NEW b \in Sched!Bit, NEW p \in Package,
         From(size, Sched!Input(1, b), p)
  PROVE  Sched!Half(p) = b
<1>1. p.lane \in Nat /\ (b = 0 \/ b = 1) /\ Lanes \in Nat /\ 1 \in Sched!Node
  BY DEF Sched!Node, Package, Sched!Bit, Sched!SchedulerAssumption
<1>2. size[2] \in Nat /\ size[3] = size[2] /\ Lanes = 2 * size[2]
  <2>1. 2 \in 1 .. 2 * Lanes - 1
    BY DEF Sched!SchedulerAssumption
  <2>2. size[2 * 1] = size[2 * 1 + 1] /\ size[1] = 2 * size[2 * 1] /\ size[1] = Lanes
    BY <1>1 DEF Below
  <2>3. 2 * 1 = 2 /\ 2 * 1 + 1 = 3
    OBVIOUS
  <2> QED
    BY <2>1, <2>2, <2>3
<1>3. CASE b = 0
  <2>1. p.lane < 3 * size[2]
    <3>1. Sched!Input(1, b) = 2 /\ Sched!Input(1, b) + 1 = 3
      BY <1>3 DEF Sched!Input
    <3> QED
      BY <3>1 DEF From
  <2>2. 2 * p.lane < 3 * Lanes
    BY <1>1, <1>2, <2>1, Thrice
  <2> QED
    BY <1>3, <2>2 DEF Sched!Half
<1>4. CASE b = 1
  <2>1. 3 * size[2] <= p.lane
    <3>1. Sched!Input(1, b) = 3
      BY <1>4 DEF Sched!Input
    <3> QED
      BY <1>2, <3>1 DEF From
  <2>2. ~(2 * p.lane < 3 * Lanes)
    BY <1>1, <1>2, <2>1, Thrice
  <2> QED
    BY <1>4, <2>2 DEF Sched!Half
<1> QED
  BY <1>1, <1>3, <1>4

\* The eight lanes of the code.
LEMMA EightLanes == ASSUME Lanes = 8 PROVE PowerOfTwo
<1> DEFINE size == [c \in 1 .. 15 |-> IF c = 1 THEN 8 ELSE IF c < 4 THEN 4
                                   ELSE IF c < 8 THEN 2 ELSE 1]
<1>1. size \in [1 .. 2 * Lanes - 1 -> Nat \ {0}]
  OBVIOUS
<1>2. \A n \in Sched!Node : size[2 * n] = size[2 * n + 1] /\ size[n] = 2 * size[2 * n]
  BY DEF Sched!Node
<1>3. size[1] = Lanes /\ \A l \in Sched!Lane : size[l] = 1
  BY DEF Sched!Lane
<1> QED
  BY <1>1, <1>2, <1>3 DEF PowerOfTwo, Below

LEMMA TurnInit == ASSUME Sched!SchedulerAssumption, PowerOfTwo, Sched!Init PROVE TurnInv
<1>1. Types
  BY InitRight DEF SchedInv
<1>2. Turned
  BY DEF Sched!Init, Turned
<1>3. \A size : Placed(size)
  BY DEF Sched!Init, Placed
<1> QED
  BY <1>1, <1>2, <1>3 DEF TurnInv, PowerOfTwo

LEMMA TurnWrite ==
  ASSUME Sched!SchedulerAssumption, TurnInv, Types', NEW l \in Sched!Lane, Sched!LaneWrite(l)
  PROVE  TurnInv'
<1>1. PICK size \in [1 .. 2 * Lanes - 1 -> Nat \ {0}] : Below(size) /\ Placed(size)
  BY DEF TurnInv
<1>2. PICK p : fifo' = [fifo EXCEPT ![l] = Append(@, p)] /\ p.lane = l
  <2> DEFINE x == Sched!Pkg(l, given[l][1], given[l][2] + 1)
  <2>1. fifo' = [fifo EXCEPT ![l] = Append(@, x)]
    BY DEF Sched!LaneWrite
  <2>2. x.lane = l
    BY DEF Sched!Pkg
  <2> HIDE DEF x
  <2> QED
    BY <2>1, <2>2
<1>3. UNCHANGED <<status, turn, wire>>
  BY DEF Sched!LaneWrite
<1>4. Placed(size)'
  <2> SUFFICES ASSUME NEW c \in Sched!Fifo, NEW i \in 1 .. Len(fifo'[c])
               PROVE  From(size, c, fifo'[c][i])
    BY DEF Placed, From
  <2>1. fifo \in [Sched!Fifo -> Seq(Package)] /\ l \in Sched!Fifo
    BY Tree DEF TurnInv, Types
  <2>2. CASE c = l /\ i = Len(fifo[l]) + 1
    <3>1. fifo'[c][i] = p
      BY <1>2, <2>1, <2>2
    <3>2. l \in Nat /\ size[l] = 1
      BY <1>1, Tree DEF Below, Sched!Lane
    <3> QED
      BY <1>2, <2>2, <3>1, <3>2 DEF From
  <2>3. CASE ~(c = l /\ i = Len(fifo[l]) + 1)
    <3>1. i \in 1 .. Len(fifo[c]) /\ fifo'[c][i] = fifo[c][i]
      BY <1>2, <2>1, <2>3
    <3> QED
      BY <1>1, <3>1 DEF Placed
  <2> QED
    BY <2>2, <2>3
<1>5. Turned'
  BY <1>3 DEF TurnInv, Turned, Sched!Half
<1> QED
  BY <1>1, <1>4, <1>5 DEF TurnInv, Below

LEMMA TurnSchedule ==
  ASSUME Sched!SchedulerAssumption, TurnInv, Types', NEW n \in Sched!Node,
         Sched!net_scheduler(n)
  PROVE  TurnInv'
<1>1. PICK size \in [1 .. 2 * Lanes - 1 -> Nat \ {0}] : Below(size) /\ Placed(size)
  BY DEF TurnInv
<1>2. PICK b : b = Sched!Chosen(n)
  OBVIOUS
<1> DEFINE c == Sched!Input(n, b)
<1>3. PICK p : p = Head(fifo[c])
  OBVIOUS
<1>4. /\ fifo[c] # << >>
      /\ fifo' = [i \in Sched!Fifo |-> IF i = c THEN Tail(fifo[c])
                                 ELSE IF i = n THEN Append(fifo[n], p) ELSE fifo[i]]
      /\ wire' = IF n = 1 THEN Append(wire, p) ELSE wire
      /\ status' = [status EXCEPT ![n] =
                               IF p.last THEN Sched!AfterFrame(n, b) ELSE Sched!Keep(b)]
      /\ turn' = [turn EXCEPT ![n] = IF p.last THEN b ELSE @]
  BY <1>2, <1>3 DEF Sched!net_scheduler
<1>5. /\ fifo \in [Sched!Fifo -> Seq(Package)] /\ wire \in Seq(Package)
      /\ turn \in [Sched!Node -> Sched!Bit]
      /\ status \in [Sched!Node -> {"INIT", "IN1", "IN2"}]
  BY DEF TurnInv, Types
<1>6. b \in Sched!Bit /\ c \in Sched!Fifo /\ c # n /\ c # 1
  <2>1. b \in Sched!Bit
    <3>1. turn[n] \in {0, 1} /\ 1 - turn[n] \in {0, 1}
      BY <1>5 DEF Sched!Bit
    <3> QED
      BY <1>2, <3>1 DEF Sched!Chosen, Sched!Bit
  <2> QED
    BY <2>1, Tree
<1>7. p \in Package /\ From(size, c, p) /\ From(size, n, p)
  <2>1. p = fifo[c][1] /\ 1 \in 1 .. Len(fifo[c]) /\ p \in Package
    BY <1>3, <1>4, <1>5, <1>6
  <2>2. From(size, c, p)
    BY <1>1, <1>6, <2>1 DEF Placed
  <2> QED
    BY <1>1, <1>6, <2>1, <2>2, FromUp
<1>8. Placed(size)'
  <2> SUFFICES ASSUME NEW d \in Sched!Fifo, NEW i \in 1 .. Len(fifo'[d])
               PROVE  From(size, d, fifo'[d][i])
    BY DEF Placed, From
  <2> HIDE DEF c
  <2>1. CASE d = c
    <3>1. fifo'[d] = Tail(fifo[d]) /\ fifo[d] \in Seq(Package) /\ fifo[d] # << >>
      BY <1>4, <1>5, <2>1
    <3>2. fifo'[d][i] = fifo[d][i + 1] /\ i + 1 \in 1 .. Len(fifo[d])
      BY <3>1
    <3> QED
      BY <1>1, <3>2 DEF Placed
  <2>2. CASE d = n
    <3>1. fifo'[d] = Append(fifo[d], p) /\ fifo[d] \in Seq(Package)
      BY <1>4, <1>5, <1>6, <2>2
    <3>2. CASE i = Len(fifo[d]) + 1
      BY <1>7, <2>2, <3>1, <3>2
    <3>3. CASE i # Len(fifo[d]) + 1
      <4>1. i \in 1 .. Len(fifo[d]) /\ fifo'[d][i] = fifo[d][i]
        BY <3>1, <3>3
      <4> QED
        BY <1>1, <4>1 DEF Placed
    <3> QED
      BY <3>2, <3>3
  <2>3. CASE d # c /\ d # n
    <3>1. fifo'[d] = fifo[d]
      BY <1>4, <2>3
    <3> QED
      BY <1>1, <3>1 DEF Placed
  <2> QED
    BY <2>1, <2>2, <2>3
<1>9. Turned'
  <2>1. CASE n = 1
    <3>1. wire' = Append(wire, p) /\ wire'[Len(wire')] = p
      BY <1>4, <1>5, <1>7, <2>1
    <3>2. Sched!Half(p) = b
      BY <1>1, <1>6, <1>7, <2>1, HalfOf
    <3>3. p.last => turn'[1] = b /\ status'[1] = Sched!AfterFrame(1, b)
      BY <1>4, <1>5, <2>1
    <3>4. Sched!AfterFrame(1, b) \in {"INIT", Sched!Keep(1 - b)}
      BY DEF Sched!AfterFrame
    <3>5. Sched!Half(wire[Len(wire)])' = b
      BY <3>1, <3>2 DEF Sched!Half
    <3> QED
      BY <3>1, <3>3, <3>4, <3>5 DEF Turned, Sched!Keep
  <2>2. CASE n # 1
    <3>1. 1 \in Sched!Node /\ wire' = wire /\ turn'[1] = turn[1] /\ status'[1] = status[1]
      BY <1>4, <1>5, <2>2 DEF Sched!Node, Sched!SchedulerAssumption
    <3> QED
      BY <3>1 DEF TurnInv, Turned, Sched!Half
  <2> QED
    BY <2>1, <2>2
<1> QED
  BY <1>1, <1>8, <1>9 DEF TurnInv, Below

\* The last scheduler writes a frame of the half that waited, if it did.
LEMMA TurnStep ==
  ASSUME Sched!SchedulerAssumption, TurnInv, Sched!Next, wire' # wire, wire # << >>,
         NEW p, NEW q, p = wire[Len(wire)], q = wire'[Len(wire')],
         p.last, fifo[Sched!Input(1, 1 - Sched!Half(q))] # << >>
  PROVE  Sched!Half(p) # Sched!Half(q)
<1>1. PICK size \in [1 .. 2 * Lanes - 1 -> Nat \ {0}] : Below(size) /\ Placed(size)
  BY DEF TurnInv
<1>2. PICK b : b = Sched!Chosen(1)
  OBVIOUS
<1>3. Sched!net_scheduler(1)
  <2>1. \A l \in Sched!Lane : ~Sched!LaneWrite(l)
    BY DEF Sched!LaneWrite
  <2>2. PICK n \in Sched!Node : Sched!net_scheduler(n)
    BY <2>1 DEF Sched!Next
  <2>3. n = 1
    BY <2>2 DEF Sched!net_scheduler
  <2> QED
    BY <2>2, <2>3
<1>4. /\ fifo \in [Sched!Fifo -> Seq(Package)] /\ wire \in Seq(Package)
      /\ turn[1] \in {0, 1} /\ 1 \in Sched!Node
  BY DEF TurnInv, Types, Sched!Bit, Sched!Node, Sched!SchedulerAssumption
<1>5. b \in Sched!Bit /\ Sched!Input(1, b) \in Sched!Fifo
  <2>1. b \in Sched!Bit
    <3>1. 1 - turn[1] \in {0, 1}
      BY <1>4
    <3> QED
      BY <1>2, <1>4, <3>1 DEF Sched!Chosen, Sched!Bit
  <2> QED
    BY <1>4, <2>1, Tree
<1>6. PICK s : s = fifo[Sched!Input(1, b)]
  OBVIOUS
<1>7. s # << >> /\ wire' = Append(wire, Head(s))
  BY <1>2, <1>3, <1>6 DEF Sched!net_scheduler
<1>8. q = Head(s) /\ s \in Seq(Package) /\ q = s[1] /\ q \in Package /\ 1 \in 1 .. Len(s)
  <2>1. s \in Seq(Package)
    BY <1>4, <1>5, <1>6
  <2>2. Head(s) = s[1] /\ Head(s) \in Package /\ 1 \in 1 .. Len(s)
    BY <1>7, <2>1
  <2> QED
    BY <1>4, <1>7, <2>1, <2>2
<1>9. Sched!Half(q) = b
  <2>1. From(size, Sched!Input(1, b), q)
    BY <1>1, <1>5, <1>6, <1>8 DEF Placed
  <2> QED
    BY <1>1, <1>5, <1>8, <2>1, HalfOf
<1>10. turn[1] = Sched!Half(p) /\ status[1] \in {"INIT", Sched!Keep(1 - Sched!Half(p))}
  BY DEF TurnInv, Turned
<1>11. ASSUME Sched!Half(p) = b PROVE FALSE
  <2>1. b = 0 \/ b = 1
    BY <1>5 DEF Sched!Bit
  <2>2. fifo[Sched!Input(1, b)] # << >> /\ fifo[Sched!Input(1, 1 - b)] # << >>
    BY <1>6, <1>7, <1>9
  <2>3. Sched!Chosen(1) = 1 - b
    BY <1>10, <1>11, <2>1, <2>2 DEF Sched!Chosen, Sched!Keep
  <2> QED
    BY <1>2, <2>1, <2>3
<1> QED
  BY <1>9, <1>11

\* TakesTurns: for every power of two of lanes, frames of every length and FIFOs of every
\* depth, two frames that follow each other on the wire come from different halves of the
\* tree, unless the other half has nothing at the last scheduler when the second begins.
THEOREM TakesTurns ==
  ASSUME Sched!SchedulerAssumption, PowerOfTwo
  PROVE  Sched!Spec => Alternates
<1>1. Sched!Init => SchedInv /\ TurnInv
  BY InitRight, TurnInit
<1>2. SchedInv /\ [Sched!Next]_(Sched!vars) => SchedInv'
  BY WriteRight, ScheduleRight, StutterRight DEF Sched!Next
<1>3. SchedInv /\ TurnInv /\ [Sched!Next]_(Sched!vars) => TurnInv'
  <2> SUFFICES ASSUME SchedInv, TurnInv, [Sched!Next]_(Sched!vars) PROVE TurnInv'
    OBVIOUS
  <2>1. Types'
    BY <1>2 DEF SchedInv
  <2>2. CASE UNCHANGED Sched!vars
    BY <2>1, <2>2 DEF TurnInv, Turned, Placed, From, Below, Sched!vars, Sched!Half
  <2> QED
    BY <2>1, <2>2, TurnWrite, TurnSchedule DEF Sched!Next
<1>4. TurnInv /\ [Sched!Next]_(Sched!vars) =>
        [wire' # wire /\ wire # << >> =>
           LET p == wire[Len(wire)]
               q == wire'[Len(wire')]
           IN p.last /\ fifo[Sched!Input(1, 1 - Sched!Half(q))] # << >> =>
                Sched!Half(p) # Sched!Half(q)]_(Sched!vars)
  BY TurnStep
<1> QED
  BY <1>1, <1>2, <1>3, <1>4, PTL DEF Sched!Spec, Alternates, Sched!Alternates

-----------------------------------------------------------------------------
(* The framer of the crossing switch *)

\* frame_counter packages have been sent since the last frame was closed.
OpenFrame ==
  /\ pairFrameCount \in 0 .. FrameSize - 1 /\ pairFrameCount <= Len(pairWire)
  /\ pairFrameCount # Len(pairWire) => pairWire[Len(pairWire) - pairFrameCount].last

PairInv == (\E S : pairWire \in Seq(S)) /\ OpenFrame /\ Pair!FramesBounded

LEMMA Size == ASSUME Pair!PairAssumption PROVE FrameSize \in Nat \ {0}
BY DEF Pair!PairAssumption

LEMMA InitBounded == ASSUME Pair!PairAssumption, Pair!Init PROVE PairInv
<1>1. pairWire \in Seq({}) /\ Len(pairWire) = 0 /\ pairFrameCount = 0
  BY DEF Pair!Init
<1>2. OpenFrame
  BY <1>1, Size DEF OpenFrame
<1>3. Pair!FramesBounded
  BY <1>1, Size DEF Pair!FramesBounded
<1> QED
  BY <1>1, <1>2, <1>3 DEF PairInv

\* A package is sent: it closes the frame or counts.
LEMMA SendBounded ==
  ASSUME Pair!PairAssumption, PairInv, NEW x, pairWire' = Append(pairWire, x),
         x.last => pairFrameCount' = 0,
         ~x.last => pairFrameCount # FrameSize - 1 /\ pairFrameCount' = pairFrameCount + 1
  PROVE  PairInv'
<1>1. PICK S : pairWire \in Seq(S)
  BY DEF PairInv
<1> DEFINE n == Len(pairWire)
<1>2. /\ n \in Nat /\ Len(pairWire') = n + 1 /\ pairWire'[n + 1] = x
      /\ \A i \in 1 .. n : pairWire'[i] = pairWire[i]
      /\ pairWire' \in Seq(S \cup {x})
  <2>1. pairWire \in Seq(S \cup {x})
    BY <1>1
  <2> QED
    BY <2>1
<1>3. pairFrameCount \in 0 .. FrameSize - 1 /\ pairFrameCount <= n /\ FrameSize \in Nat \ {0}
  BY Size DEF PairInv, OpenFrame
<1>4. pairFrameCount # n => pairWire[n - pairFrameCount].last
  BY DEF PairInv, OpenFrame
<1> HIDE DEF n
<1>5. OpenFrame'
  <2>1. CASE x.last
    BY <2>1, <1>2, <1>3 DEF OpenFrame
  <2>2. CASE ~x.last
    <3>1. pairFrameCount # n => pairWire'[n - pairFrameCount].last
      BY <1>2, <1>3, <1>4
    <3>2. n + 1 - (pairFrameCount + 1) = n - pairFrameCount
      BY <1>2, <1>3
    <3> QED
      BY <2>2, <1>2, <1>3, <3>1, <3>2 DEF OpenFrame
  <2> QED
    BY <2>1, <2>2
<1>6. ASSUME NEW i \in 1 .. Len(pairWire') - FrameSize + 1
      PROVE  \E j \in i .. i + FrameSize - 1 : pairWire'[j].last
  <2>1. CASE i \in 1 .. n - FrameSize + 1
    <3>1. PICK j \in i .. i + FrameSize - 1 : pairWire[j].last
      BY <2>1 DEF PairInv, Pair!FramesBounded, n
    <3>2. j \in 1 .. n
      BY <2>1, <1>2, <1>3, <3>1
    <3> QED
      BY <1>2, <3>1, <3>2
  <2>2. CASE i = n - FrameSize + 2
    <3>1. CASE x.last
      <4>1. n + 1 \in i .. i + FrameSize - 1
        BY <2>2, <1>2, <1>3
      <4> QED
        BY <3>1, <4>1, <1>2
    <3>2. CASE ~x.last
      <4> DEFINE j == n - pairFrameCount
      <4>1. j \in i .. i + FrameSize - 1 /\ j \in 1 .. n /\ pairFrameCount # n
        BY <2>2, <3>2, <1>2, <1>3
      <4>2. pairWire'[j].last
        BY <4>1, <1>2, <1>4
      <4> QED
        BY <4>1, <4>2
    <3> QED
      BY <3>1, <3>2
  <2> QED
    BY <2>1, <2>2, <1>2, <1>3
<1> QED
  BY <1>2, <1>5, <1>6 DEF PairInv, Pair!FramesBounded

LEMMA SameBounded == ASSUME PairInv, UNCHANGED <<pairWire, pairFrameCount>> PROVE PairInv'
BY DEF PairInv, OpenFrame, Pair!FramesBounded

LEMMA PkgLast == ASSUME NEW d, NEW b \in BOOLEAN PROVE Pair!Pkg(d, b).last <=> b
BY DEF Pair!Pkg

LEMMA NextBounded == ASSUME Pair!PairAssumption, PairInv, [Pair!Next]_(Pair!vars) PROVE PairInv'
<1>1. CASE \E s \in Pair!Source : Pair!filter_to_other_node(s)
  BY <1>1, SameBounded DEF Pair!filter_to_other_node, Pair!framer
<1>2. CASE \E c \in Pair!Stage : Pair!coalesce_with_bubble(c)
  BY <1>2, SameBounded DEF Pair!coalesce_with_bubble, Pair!framer
<1>3. CASE \E c \in Pair!Stage : Pair!filter_bubble_in_pair(c)
  BY <1>3, SameBounded DEF Pair!filter_bubble_in_pair, Pair!FilterRead,
         Pair!FilterIdle, Pair!framer
<1>4. CASE Pair!FrameRead
  <2>1. CASE pairHeld = << >>
    BY <1>4, <2>1, SameBounded DEF Pair!FrameRead
  <2>2. CASE pairHeld # << >>
    <3> DEFINE x == Pair!Pkg(pairHeld[1], Pair!ClosesFrame)
    <3>1. pairWire' = Append(pairWire, x)
          /\ pairFrameCount' = IF Pair!ClosesFrame THEN 0 ELSE pairFrameCount + 1
      BY <1>4, <2>2 DEF Pair!FrameRead
    <3>2. x.last <=> pairFrameCount = FrameSize - 1
      BY PkgLast DEF Pair!ClosesFrame
    <3> HIDE DEF x
    <3> QED
      BY <3>1, <3>2, SendBounded DEF Pair!ClosesFrame
  <2> QED
    BY <2>1, <2>2
<1>5. CASE Pair!FrameIdle
  <2>1. CASE netIdle >= NetWait /\ pairWire' = Pair!FrameFlush /\ pairFrameCount' = 0
    <3> DEFINE x == Pair!Pkg(pairHeld[1], TRUE)
    <3>1. pairWire' = Append(pairWire, x) /\ x.last
      BY <2>1, PkgLast DEF Pair!FrameFlush
    <3> HIDE DEF x
    <3> QED
      BY <2>1, <3>1, SendBounded
  <2>2. CASE UNCHANGED <<pairWire, pairHeld, pairFrameCount>>
    BY <2>2, SameBounded
  <2> QED
    BY <1>5, <2>1, <2>2 DEF Pair!FrameIdle
<1>6. CASE Pair!dispatch_remote_package
  BY <1>6, SameBounded DEF Pair!dispatch_remote_package, Pair!framer
<1>7. CASE UNCHANGED Pair!vars
  BY <1>7, SameBounded DEF Pair!vars, Pair!framer
<1> QED
  BY <1>1, <1>2, <1>3, <1>4, <1>5, <1>6, <1>7 DEF Pair!Next, Pair!free_run_frp_to_net_timeout

-----------------------------------------------------------------------------
\* NoLongFrame: whatever the items of the streams and the times at which they come, among
\* any FrameSize packages in a row on the way to the other board one closes a frame.
THEOREM NoLongFrame == ASSUME Pair!PairAssumption PROVE Pair!Spec => []FramesBounded
<1>1. PairInv => FramesBounded
  BY DEF PairInv, FramesBounded
<1> QED
  BY <1>1, InitBounded, NextBounded, PTL DEF Pair!Spec
=============================================================================
