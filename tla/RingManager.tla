----------------------------- MODULE RingManager -----------------------------
(***************************************************************************)
(* The ring of the metapath and node2vec walks: step_loader, ring_manager  *)
(* and one pipeline that makes a step of a walk and sends it back, in the  *)
(* order in which the walks entered it.  ring_manager keeps at most        *)
(* RING_SIZE walks in the loop, each in a slot of its own: a query enters  *)
(* in the slot of a walk that has just ended (runtime insertion) or in the *)
(* next free slot (ring insertion).  It returns when the walk of the query *)
(* that was loaded last has ended.                                         *)
(*                                                                         *)
(* One iteration of ring_manager_main reads new_query up to twice, and     *)
(* step_loader may write between the two reads.                            *)
(***************************************************************************)
EXTENDS Integers, Sequences

CONSTANTS
  Size,      \* queries of the run; query n is the n-th, step_loader numbers them
  Length,    \* Length[n]: remain_step of query n
  RingSize,  \* RING_SIZE (256); ring_counter wraps around there (8 bit)
  NewDepth,  \* depth of new_query (512)
  OutDepth,  \* depth of out and of the pipeline behind it
  OldDepth   \* depth of old_query (512)

Slot == 0..(RingSize - 1)

\* A last query of a single step would go round once without its last flag.
RingManagerAssumption ==
  /\ Size \in Nat \ {0}
  /\ Length \in [1..Size -> Nat \ {0}] /\ Length[Size] > 1
  /\ RingSize \in Nat \ {0}
  /\ NewDepth \in Nat \ {0} /\ OutDepth \in Nat \ {0} /\ OldDepth \in Nat \ {0}

VARIABLES
  loaded,        \* queries step_loader has written
  new,           \* new_query: query numbers
  old,           \* old_query: walks that come back
  out,           \* out and the pipeline: walks in the middle of a step
  slot_status,   \* slots marked as taken
  ring_counter,  \* the slot ring insertion tries next
  phase,         \* what the iteration does next: "old", "insert"; "ended"
  put,           \* the package a blocking out.write() waits with
  slot_update,   \* slot_update_index and _val, if slot_update_flg is set
  stepping,      \* the kernels of the pipeline have not returned yet
  done           \* queries whose walk has ended

vars == <<loaded, new, old, out, slot_status, ring_counter, phase, put,
          slot_update, stepping, done>>

Empty(s) == s = <<>>

\* A walk: its query, its slot and whether it is the last one (ring_state),
\* the steps left and the last flag of the package.
Walk == [query : 1..Size, slot : Slot, final : BOOLEAN, left : Nat, last : BOOLEAN]

TypeOK ==
  /\ loaded \in 0..Size
  /\ new \in Seq(1..Size)
  /\ {old, out, put} \subseteq Seq(Walk)
  /\ slot_status \in [Slot -> BOOLEAN]
  /\ ring_counter \in Slot
  /\ phase \in {"old", "insert", "ended"}
  /\ slot_update \in Seq([index : Slot, val : BOOLEAN])
  /\ stepping \in BOOLEAN
  /\ done \subseteq 1..Size

Init ==
  /\ loaded = 0
  /\ new = <<>> /\ old = <<>> /\ out = <<>>
  /\ slot_status = [s \in Slot |-> FALSE]
  /\ ring_counter = 0
  /\ phase = "old" /\ put = <<>> /\ slot_update = <<>>
  /\ stepping = TRUE
  /\ done = {}

\* step_loader writes the next query.
step_loader ==
  /\ loaded < Size /\ Len(new) < NewDepth
  /\ loaded' = loaded + 1
  /\ new' = Append(new, loaded + 1)
  /\ UNCHANGED <<old, out, slot_status, ring_counter, phase, put, slot_update, stepping, done>>

-----------------------------------------------------------------------------
\* Variant: the last but one query counts as the last.
EnterFinalEarly(n, s) ==
  [query |-> n, slot |-> s, final |-> (n = Size - 1), left |-> Length[n], last |-> FALSE]

\* The package of query n in slot s.
Enter(n, s) ==
  [query |-> n, slot |-> s, final |-> (n = Size), left |-> Length[n], last |-> FALSE]

\* A walk goes round again; its last pass, if it is the last walk, is marked.
Forward(w) == [w EXCEPT !.last = (w.left = 1 /\ w.final)]

\* A walk comes back with steps left.
OldGoesOn ==
  /\ ~Empty(old) /\ Head(old).left # 0
  /\ put' = <<Forward(Head(old))>>
  /\ phase' = "insert"
  /\ UNCHANGED <<new, slot_update, done>>

\* The last walk has ended: break.
OldIsLast ==
  /\ ~Empty(old) /\ Head(old).left = 0 /\ Head(old).last
  /\ phase' = "ended"
  /\ done' = done \cup {Head(old).query}
  /\ UNCHANGED <<new, put, slot_update>>

\* Another walk has ended: its slot goes to a new query, or is to be freed.
OldEnded ==
  /\ ~Empty(old) /\ Head(old).left = 0 /\ ~Head(old).last
  /\ LET index == Head(old).slot IN
       \/ /\ ~Empty(new)
          /\ put' = <<Enter(Head(new), index)>>
          /\ new' = Tail(new)
          /\ UNCHANGED slot_update
       \/ /\ Empty(new)
          /\ slot_update' = <<[index |-> index, val |-> FALSE]>>
          /\ UNCHANGED <<new, put>>
  /\ phase' = "insert"
  /\ done' = done \cup {Head(old).query}

\* old_query.read_nb() and what follows it.
OldQuery ==
  /\ phase = "old" /\ Empty(put)
  /\ \/ (OldGoesOn \/ OldIsLast \/ OldEnded) /\ old' = Tail(old)
     \/ Empty(old) /\ phase' = "insert" /\ UNCHANGED <<old, new, put, slot_update, done>>
  /\ UNCHANGED <<loaded, out, slot_status, ring_counter, stepping>>

\* Variant: ring insertion does not look at the slot.
MayInsertAnywhere == ~Empty(new)

\* slot_status[ring_counter] == FLAG_RESET and new_query.read_nb() succeeds
MayInsert == ~slot_status[ring_counter] /\ ~Empty(new)

\* ring_counter ++, an ap_uint<8>
NextSlot == (ring_counter + 1) % RingSize

\* Ring insertion, and the one update of slot_status at the end of the
\* iteration: if both branches have asked for one, the second has replaced
\* the first.
RingInsertion ==
  /\ phase = "insert" /\ Empty(put)
  /\ LET update == IF MayInsert THEN <<[index |-> ring_counter, val |-> TRUE]>>
                   ELSE slot_update
     IN  slot_status' = IF Empty(update) THEN slot_status
                        ELSE [slot_status EXCEPT ![Head(update).index] = Head(update).val]
  /\ IF MayInsert
     THEN /\ put' = <<Enter(Head(new), ring_counter)>>
          /\ new' = Tail(new)
          /\ ring_counter' = NextSlot
     ELSE UNCHANGED <<put, new, ring_counter>>
  /\ slot_update' = <<>>
  /\ phase' = "old"
  /\ UNCHANGED <<loaded, old, out, stepping, done>>

\* out.write() goes through.
OutWrite ==
  /\ ~Empty(put) /\ Len(out) < OutDepth
  /\ out' = out \o put
  /\ put' = <<>>
  /\ UNCHANGED <<loaded, new, old, slot_status, ring_counter, phase, slot_update, stepping, done>>

\* Variant: ring_state is not copied by step_update.
SteppedNoSlot(w) == [w EXCEPT !.left = @ - 1, !.slot = 0]

\* One step less, ring_state as it was and the last flag that came with it.
Stepped(w) == [w EXCEPT !.left = @ - 1]

\* A package makes its step; the kernels return after one with the last flag.
step_update ==
  /\ stepping /\ ~Empty(out) /\ Len(old) < OldDepth
  /\ old' = Append(old, Stepped(Head(out)))
  /\ out' = Tail(out)
  /\ stepping' = ~Head(out).last
  /\ UNCHANGED <<loaded, new, slot_status, ring_counter, phase, put, slot_update, done>>

\* The kernel has returned, nothing is left to do.
Ended == phase = "ended" /\ UNCHANGED vars

Next == step_loader \/ OldQuery \/ RingInsertion \/ OutWrite \/ step_update \/ Ended

Spec == Init /\ [][Next]_vars

\* Every kernel runs as long as its FIFOs let it.
FairSpec ==
  /\ Spec
  /\ WF_vars(step_loader) /\ WF_vars(OldQuery) /\ WF_vars(RingInsertion)
  /\ WF_vars(OutWrite) /\ WF_vars(step_update)

-----------------------------------------------------------------------------
\* The walks in the loop, wherever they are.
Loop == old \o out \o put
InFlight == {Loop[i] : i \in DOMAIN Loop}

\* OwnSlot: no two walks of the loop have the same slot, and the slot of each
\* is marked as taken (or about to be), whichever way its query came in.
OwnSlot ==
  /\ \A i, j \in DOMAIN Loop : Loop[i].slot = Loop[j].slot => i = j
  /\ \A w \in InFlight : slot_status[w.slot]

\* NeverBlocked: the FIFO back to ring_manager never fills up, so that the loop
\* cannot block on itself although out.write() is blocking.
NeverBlocked == Len(old) < OldDepth

\* LeavesNothing: when ring_manager returns, every query has been walked to
\* its end.  It relies on queries of one length and on the loop's order.
LeavesNothing == phase = "ended" => done = 1..Size

\* SlotFreed: between two iterations a slot that is marked as taken belongs
\* to a walk ("if there is no new query, update the local ring state array").
SlotFreed ==
  phase = "old" =>
    \A s \in Slot : slot_status[s] => \E w \in InFlight : w.slot = s

\* Ends: ring_manager returns, which the host waits for; the only thing that can keep
\* it from that is a slot it has forgotten to free.
Ends == <>(phase = "ended" \/ ~SlotFreed)
=============================================================================
