------------------------------- MODULE FrameLink -------------------------------
(***************************************************************************)
(* What a lane of the coalescing router promises to the network scheduler  *)
(* behind it: the tasks of the lane, each once and in the order they came, *)
(* cut into frames of at most FrameMax packages.  A frame is handed over   *)
(* only when it is complete, so a reader that has begun a frame never      *)
(* waits for a task that has not arrived.                                  *)
(***************************************************************************)
EXTENDS Integers, Sequences, SequencesExt

CONSTANTS Tasks,     \* how many tasks the lane is given
          Slots,     \* tasks a package has room for
          FrameMax   \* packages of the longest frame

VARIABLES fed,       \* tasks that have arrived: 1 .. fed
          ready,     \* packages of complete frames, not yet handed over
          sent       \* packages handed over

vars == <<fed, ready, sent>>

\* A package names its tasks and says whether it is the last of its frame.
Package == [tasks : BoundedSeq(1 .. Tasks, Slots) \ {<<>>}, last : BOOLEAN]

Content(ps) == FlattenSeq([i \in DOMAIN ps |-> ps[i].tasks])

IsFrame(f) == /\ Len(f) \in 1 .. FrameMax
              /\ \A i \in DOMAIN f : f[i].last = (i = Len(f))

Init == fed = 0 /\ ready = <<>> /\ sent = <<>>

Arrive == /\ fed < Tasks
          /\ fed' = fed + 1
          /\ UNCHANGED <<ready, sent>>

\* The frame continues where the last complete one ended.
Close == /\ \E n \in Len(ready) .. Len(ready) + FrameMax :
              /\ Len(ready') = n
              /\ SubSeq(ready', 1, Len(ready)) = ready
              /\ IsFrame(SubSeq(ready', Len(ready) + 1, n))
         /\ LET done == Content(sent \o ready') IN
              /\ Len(done) <= fed
              /\ \A i \in DOMAIN done : done[i] = i
         /\ UNCHANGED <<fed, sent>>

HandOver == /\ ready # <<>>
            /\ ready' = Tail(ready)
            /\ sent' = Append(sent, Head(ready))
            /\ UNCHANGED fed

Next == Arrive \/ Close \/ HandOver

\* In the end all that has arrived has been handed over, in complete frames.
Flushed == <>[](Len(Content(sent)) = fed)

Spec == Init /\ [][Next]_vars /\ Flushed
=============================================================================
