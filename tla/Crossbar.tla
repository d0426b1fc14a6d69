------------------------------- MODULE Crossbar -------------------------------
(***************************************************************************)
(* What a router promises to the lanes it connects: one FIFO channel from  *)
(* every source lane to every destination lane.  Items of one flow arrive  *)
(* exactly once, in order and on their own lane; flows are independent of  *)
(* each other, and no flow waits for ever.                                 *)
(***************************************************************************)
EXTENDS Sequences

CONSTANTS Lane, Payload

VARIABLES chan,   \* chan[s][d]: items on their way from lane s to lane d
          recv    \* recv[d]: items delivered to lane d, in order

vars == <<chan, recv>>

Init ==
  /\ chan = [s \in Lane |-> [d \in Lane |-> <<>>]]
  /\ recv = [d \in Lane |-> <<>>]

Send(s, d, x) ==
  /\ chan' = [chan EXCEPT ![s][d] = Append(@, x)]
  /\ UNCHANGED recv

Deliver(s, d) ==
  /\ chan[s][d] # <<>>
  /\ chan' = [chan EXCEPT ![s][d] = Tail(@)]
  /\ recv' = [recv EXCEPT ![d] = Append(@, Head(chan[s][d]))]

Next ==
  \E s, d \in Lane : \/ \E x \in {y \in Payload : y.dest = d /\ y.src = s} :
                           Send(s, d, x)
                     \/ Deliver(s, d)

Spec == /\ Init
        /\ [][Next]_vars
        /\ \A s, d \in Lane : WF_vars(Deliver(s, d))
=============================================================================
