------------------------------ MODULE SecondOrder ------------------------------
(***************************************************************************)
(* The second-order step of a node2vec walk: a chain of free-running       *)
(* kernels that gives every neighbour of the current vertex its weight.    *)
(*                                                                         *)
(*   step_duplicator -> vertex_loader -> vd_dispatch asks for the          *)
(*   neighbours of the current vertex (staburst) and of the last one       *)
(*   (siburst); assert_filter_woe and sta_cmd_generator send the last      *)
(*   vertex along, once for every word of the first list;                  *)
(*   current_mask marks the way back; on every lane neighbor_mask merges   *)
(*   the two sorted lists to find the neighbours they share; merge_mask    *)
(*   and merge_weight put the two results and the lanes together.          *)
(*                                                                         *)
(* Nothing but order ties these streams together.  A kernel that writes    *)
(* several streams does so here when all have room; in the code it holds   *)
(* the package meanwhile, which gives it one place more.                   *)
(***************************************************************************)
EXTENDS Integers, Sequences

CONSTANTS Steps,      \* the steps of the walks
          Walks,      \* the sequences of steps a behaviour may take
          Word,       \* entries in a memory word (16)
          NumLanes,   \* lanes (4)
          Invalid,    \* INVALID_VERTEX, above every vertex
          Depth       \* depth of every stream of packages; a lane's streams of
                      \* entries hold those of Depth words

Lane == 1..NumLanes
Rows == Word \div NumLanes

\* A step: the last vertex, its neighbours and those of the current vertex; final on the
\* last package of a batch, a walk that has ended and has no current vertex.
SecondOrderAssumption ==
  /\ NumLanes \in Nat \ {0} /\ Word \in Nat /\ Rows * NumLanes = Word /\ Rows > 0
  /\ Depth \in Nat \ {0}
  /\ \A walk \in Walks : \A i \in DOMAIN walk : walk[i] \in Steps
  /\ \A s \in Steps :
       /\ \A list \in {s.curr, s.prev} :
            /\ list.offset \in 0..(Word - 1)
            /\ \A k \in DOMAIN list.vs : list.vs[k] \in 1..(Invalid - 1)
            /\ \A k \in 2..Len(list.vs) : list.vs[k - 1] < list.vs[k]
       /\ s.final => s.curr.vs = << >>

VARIABLES
  due, weighed,     \* history: the words of weights asked for; those for partial_sum
  coming,           \* steps to come
  ch,               \* the streams of packages between the kernels
  stopping,         \* sta_vd_scheduler has still to send the dummy
  staList, siList,  \* what is left of the lists the command generators are cutting
  lane,             \* per lane: its streams, and the registers of its neighbor_mask
  rows              \* out_data of merge_weight, up to counter

vars == <<due, weighed, coming, ch, stopping, staList, siList, lane, rows>>

Service == INSTANCE SecondOrderService

Room(s) == Len(s) < Depth
RoomForWord(s) == Len(s) + Rows <= Depth * Rows
Idle == << >>

\* The streams, by the kernel that reads them.
Streams == {"asserts",   \* assert_filter_woe, from step_duplicator
            "pairs",     \* vd_dispatch: descriptors of the current and the last vertex
            "curr",      \* sta_vd_scheduler
            "prev",      \* si_vd_scheduler
            "mask",      \* assert_filter_woe, from sta_vd_scheduler
            "request",   \* sta_cmd_generator
            "kept",      \* sta_cmd_generator, from assert_filter_woe
            "read",      \* si_cmd_generator
            "marks",     \* current_mask: the last vertex, once for every word
            "staCmd",    \* staburst_core; a command is the word it reads
            "siCmd",     \* siburst_core
            "words",     \* weight_duplicate: words of neighbours
            "lastWords", \* weight_duplicate_4: words of neighbours of the last vertex
            "toMask",    \* current_mask: the words
            "toLanes",   \* weight_dispatch_1: the words
            "masks"}     \* weight_dispatch_2: 1 for the last vertex

ReadCurr == "READ_CURR"           \* states of neighbor_mask
ReadLast == "READ_LAST_WITH_CURR"
ReadWith == "READ_CURR_WITH_LAST"
EndLast  == "END_LAST"
EndCurr  == "END_CURR"

LaneInit == [curr |-> << >>, prev |-> << >>, found |-> << >>, back |-> << >>, both |-> << >>,
             state |-> ReadCurr, held |-> << >>, v |-> 0, final |-> FALSE]

Init ==
  /\ due = << >> /\ weighed = << >> /\ coming \in Walks
  /\ ch = [s \in Streams |-> << >>]
  /\ stopping = FALSE /\ staList = Idle /\ siList = Idle
  /\ lane = [l \in Lane |-> LaneInit]
  /\ rows = << >>

Entry(v, last) == [v |-> v, last |-> last]
Dummy == [list |-> [offset |-> 0, vs |-> << >>], dummy |-> TRUE]
Request(list) == [list |-> list, dummy |-> FALSE]

-----------------------------------------------------------------------------
(* From the step to the requests *)

\* step_duplicator and vertex_loader: two descriptors and one assertion for a step.
DuplicateStep ==
  /\ coming # << >> /\ Room(ch.asserts) /\ Room(ch.pairs)
  /\ ch' = [ch EXCEPT !.asserts = Append(@, Head(coming).last),
                      !.pairs = Append(@, Head(coming))]
  /\ due' = due \o Service!WeightsOf(Head(coming))
  /\ coming' = Tail(coming)
  /\ UNCHANGED <<weighed, stopping, staList, siList, lane, rows>>

\* Variant: the neighbours of the last vertex are always asked for.
AsksLastAlways(pair) == TRUE
\* An ended walk has no use for the neighbours of its last vertex.
AsksLast(pair) == pair.curr.vs # << >> \/ pair.final

vd_dispatch ==
  /\ ch.pairs # << >> /\ Room(ch.curr)
  /\ LET pair == Head(ch.pairs) IN
     /\ AsksLast(pair) => Room(ch.prev)
     /\ ch' = [ch EXCEPT
          !.pairs = Tail(@),
          !.curr = Append(@, [list |-> pair.curr, final |-> pair.final]),
          !.prev = IF AsksLast(pair)
                   THEN Append(@, [list |-> pair.prev, final |-> pair.final]) ELSE @]
  /\ UNCHANGED <<due, weighed, coming, stopping, staList, siList, lane, rows>>

\* sta_vd_scheduler: an empty list is answered at once (update, not modelled), any other
\* one is read; the mask tells assert_filter_woe which.
sta_vd_scheduler ==
  /\ ch.curr # << >> /\ ~stopping /\ Room(ch.mask)
  /\ LET pkg == Head(ch.curr)
         some == pkg.list.vs # << >>
     IN
     /\ some => Room(ch.request)
     /\ ch' = [ch EXCEPT
          !.curr = Tail(@),
          !.request = IF some THEN Append(@, Request(pkg.list)) ELSE @,
          !.mask = Append(@, [keep |-> some, end |-> FALSE])]
     /\ stopping' = pkg.final
  /\ UNCHANGED <<due, weighed, coming, staList, siList, lane, rows>>

\* After the last package of a batch: the dummy that makes the engine return.
StopEngine ==
  /\ stopping /\ Room(ch.request) /\ Room(ch.mask)
  /\ ch' = [ch EXCEPT !.request = Append(@, Dummy),
                      !.mask = Append(@, [keep |-> FALSE, end |-> TRUE])]
  /\ stopping' = FALSE
  /\ UNCHANGED <<due, weighed, coming, staList, siList, lane, rows>>

\* One assertion is used up by every mask but the last one of the batch.
assert_filter_woe ==
  /\ ch.mask # << >>
  /\ LET m == Head(ch.mask) IN
     \/ /\ m.end /\ Room(ch.kept)
        /\ ch' = [ch EXCEPT !.mask = Tail(@), !.kept = Append(@, Entry(Invalid, TRUE))]
     \/ /\ ~m.end /\ ch.asserts # << >>
        /\ m.keep => Room(ch.kept)
        /\ ch' = [ch EXCEPT
             !.mask = Tail(@), !.asserts = Tail(@),
             !.kept = IF m.keep THEN Append(@, Entry(Head(ch.asserts), FALSE)) ELSE @]
  /\ UNCHANGED <<due, weighed, coming, stopping, staList, siList, lane, rows>>

\* si_vd_scheduler: of the last package of a batch only the dummy is left.
si_vd_scheduler ==
  /\ ch.prev # << >> /\ Room(ch.read)
  /\ ch' = [ch EXCEPT
       !.prev = Tail(@),
       !.read = Append(@, IF Head(ch.prev).final THEN Dummy ELSE Request(Head(ch.prev).list))]
  /\ UNCHANGED <<due, weighed, coming, stopping, staList, siList, lane, rows>>

-----------------------------------------------------------------------------
(* The burst engines.  A command stands for the word it reads.                *)

\* The dummy is cut into one command, which reads nothing.
NoWord == [entries |-> << >>, last |-> TRUE]
CommandsFor(list, pad) ==
  LET words == Service!Words(list, pad)
  IN  [k \in DOMAIN words |-> [entries |-> words[k], last |-> k = Len(words)]]

\* sta_cmd_generator reads the assertion first and the request after it, ...
StaTake ==
  /\ staList = Idle /\ ch.kept # << >> /\ ch.request # << >>
  /\ staList' = [mark |-> Head(ch.kept),
                 words |-> IF Head(ch.request).dummy THEN <<NoWord>>
                           ELSE CommandsFor(Head(ch.request).list, 0)]
  /\ ch' = [ch EXCEPT !.kept = Tail(@), !.request = Tail(@)]
  /\ UNCHANGED <<due, weighed, coming, stopping, siList, lane, rows>>

\* ... and sends the assertion to current_mask with every command but the dummy.
StaCut ==
  /\ staList # Idle /\ Room(ch.staCmd) /\ (staList.mark.last \/ Room(ch.marks))
  /\ ch' = [ch EXCEPT
       !.staCmd = Append(@, Head(staList.words)),
       !.marks = IF staList.mark.last THEN @ ELSE Append(@, staList.mark.v)]
  /\ staList' = IF Len(staList.words) = 1 THEN Idle ELSE [staList EXCEPT !.words = Tail(@)]
  /\ UNCHANGED <<due, weighed, coming, stopping, siList, lane, rows>>

\* Without neighbours one word of invalid vertices.
NoVertex == [entries |-> [i \in 1..Word |-> Invalid], last |-> TRUE]

\* si_cmd_generator
SiTake ==
  /\ siList = Idle /\ ch.read # << >>
  /\ siList' = IF Head(ch.read).dummy THEN <<NoWord>>
               ELSE IF Head(ch.read).list.vs = << >> THEN <<NoVertex>>
               ELSE CommandsFor(Head(ch.read).list, Invalid)
  /\ ch' = [ch EXCEPT !.read = Tail(@)]
  /\ UNCHANGED <<due, weighed, coming, stopping, staList, lane, rows>>

SiCut ==
  /\ siList # Idle /\ Room(ch.siCmd)
  /\ ch' = [ch EXCEPT !.siCmd = Append(@, Head(siList))]
  /\ siList' = Tail(siList)
  /\ UNCHANGED <<due, weighed, coming, stopping, staList, lane, rows>>

\* The dummy makes an engine return; the host starts it for the next batch.
staburst_core ==
  /\ ch.staCmd # << >> /\ Room(ch.words)
  /\ ch' = [ch EXCEPT !.staCmd = Tail(@),
       !.words = IF Head(ch.staCmd) = NoWord THEN @ ELSE Append(@, Head(ch.staCmd))]
  /\ UNCHANGED <<due, weighed, coming, stopping, staList, siList, lane, rows>>

siburst_core ==
  /\ ch.siCmd # << >> /\ Room(ch.lastWords)
  /\ ch' = [ch EXCEPT !.siCmd = Tail(@),
       !.lastWords = IF Head(ch.siCmd) = NoWord THEN @ ELSE Append(@, Head(ch.siCmd))]
  /\ UNCHANGED <<due, weighed, coming, stopping, staList, siList, lane, rows>>

-----------------------------------------------------------------------------
(* The weights *)

\* Every lane gets the words of the last list, ...
weight_duplicate_4 ==
  /\ ch.lastWords # << >>
  /\ \A l \in Lane : Room(lane[l].prev)
  /\ ch' = [ch EXCEPT !.lastWords = Tail(@)]
  /\ lane' = [l \in Lane |-> [lane[l] EXCEPT !.prev = Append(@, Head(ch.lastWords))]]
  /\ UNCHANGED <<due, weighed, coming, stopping, staList, siList, rows>>

\* (a third copy of the words goes to sample)
weight_duplicate ==
  /\ ch.words # << >> /\ Room(ch.toMask) /\ Room(ch.toLanes)
  /\ ch' = [ch EXCEPT !.words = Tail(@), !.toMask = Append(@, Head(ch.words)),
                      !.toLanes = Append(@, Head(ch.words))]
  /\ UNCHANGED <<due, weighed, coming, stopping, staList, siList, lane, rows>>

\* ... and of a word of the current list the entries with its number, row by row.
Spread(word, l) ==
  [i \in 1..Rows |-> Entry(word.entries[(i - 1) * NumLanes + l], word.last /\ i = Rows)]

weight_dispatch_1 ==
  /\ ch.toLanes # << >>
  /\ \A l \in Lane : RoomForWord(lane[l].curr)
  /\ ch' = [ch EXCEPT !.toLanes = Tail(@)]
  /\ lane' = [l \in Lane |-> [lane[l] EXCEPT !.curr = @ \o Spread(Head(ch.toLanes), l)]]
  /\ UNCHANGED <<due, weighed, coming, stopping, staList, siList, rows>>

weight_dispatch_2 ==
  /\ ch.masks # << >>
  /\ \A l \in Lane : RoomForWord(lane[l].back)
  /\ ch' = [ch EXCEPT !.masks = Tail(@)]
  /\ lane' = [l \in Lane |-> [lane[l] EXCEPT !.back = @ \o Spread(Head(ch.masks), l)]]
  /\ UNCHANGED <<due, weighed, coming, stopping, staList, siList, rows>>

current_mask ==
  /\ ch.toMask # << >> /\ ch.marks # << >> /\ Room(ch.masks)
  /\ LET word == Head(ch.toMask) IN
     ch' = [ch EXCEPT
       !.toMask = Tail(@), !.marks = Tail(@),
       !.masks = Append(@, [word EXCEPT !.entries =
          [i \in 1..Word |-> IF @[i] = Head(ch.marks) THEN 1 ELSE 0]])]
  /\ UNCHANGED <<due, weighed, coming, stopping, staList, siList, lane, rows>>

Holds(word, v) == \E i \in 1..Word : word[i] = v
MaxOf(word) == word[Word]

\* NEIGHBOR_SET and NEIGHBOR_UNSET
Found(v, hit) == IF v = 0 THEN 0 ELSE IF hit THEN 2 ELSE 4

\* COMPARISON: a word of the last list is left behind once the current list has reached
\* its last entry.
Passed(v, word) == ~Holds(word, v) /\ v >= MaxOf(word)
AfterCompare(v, word) ==
  IF Passed(v, word) THEN ReadLast
  ELSE IF v = MaxOf(word) THEN ReadCurr ELSE ReadWith

\* The last line of STATS_END_CURR: what an earlier word has shown is overwritten.
FinalHit(final, hit) == hit

Put(r, v, last) == [r EXCEPT !.found = Append(@, Entry(v, last))]

\* What neighbor_mask makes of the next entry c of the current list, ...
WithEntry(r, c) ==
  LET s == [r EXCEPT !.curr = Tail(@), !.v = c.v]
      hit == Holds(s.held, c.v)
  IN
  CASE r.state = ReadCurr ->
         IF c.last THEN [s EXCEPT !.state = EndCurr, !.final = FALSE]
                   ELSE [s EXCEPT !.state = ReadLast]
    [] r.state = ReadWith /\ c.last ->
         [s EXCEPT !.state = EndCurr, !.final = hit]
    [] r.state = ReadWith /\ ~c.last ->
         LET t == [s EXCEPT !.state = AfterCompare(c.v, s.held)]
         IN  IF Passed(c.v, s.held) THEN t ELSE Put(t, Found(c.v, hit), FALSE)
    [] r.state = EndLast ->
         Put([s EXCEPT !.state = IF c.last THEN ReadCurr ELSE @], Found(c.v, hit), c.last)

\* ... and of the next word of the last list.
WithWord(r, w) ==
  LET s == [r EXCEPT !.prev = Tail(@), !.held = w.entries]
      hit == Holds(w.entries, r.v)
  IN
  CASE r.state = ReadLast /\ w.last ->
         Put([s EXCEPT !.state = EndLast], Found(r.v, hit), FALSE)
    [] r.state = ReadLast /\ ~w.last ->
         LET t == [s EXCEPT !.state = AfterCompare(r.v, w.entries)]
         IN  IF Passed(r.v, w.entries) THEN t ELSE Put(t, Found(r.v, hit), FALSE)
    [] r.state = EndCurr /\ w.last ->
         Put([s EXCEPT !.state = ReadCurr, !.final = FALSE], Found(r.v, r.final \/ hit), TRUE)
    [] r.state = EndCurr /\ ~w.last ->
         [s EXCEPT !.final = FinalHit(@, hit)]

neighbor_mask(l) ==
  /\ Len(lane[l].found) < Depth * Rows
  /\ \/ /\ lane[l].state \in {ReadCurr, ReadWith, EndLast} /\ lane[l].curr # << >>
        /\ lane' = [lane EXCEPT ![l] = WithEntry(@, Head(@.curr))]
     \/ /\ lane[l].state \in {ReadLast, EndCurr} /\ lane[l].prev # << >>
        /\ lane' = [lane EXCEPT ![l] = WithWord(@, Head(@.prev))]
  /\ UNCHANGED <<due, weighed, coming, ch, stopping, staList, siList, rows>>

\* merge_mask: the way back comes first.
Both(back, found) == IF back = 0 THEN found ELSE back

merge_mask(l) ==
  /\ lane[l].found # << >> /\ lane[l].back # << >> /\ Len(lane[l].both) < Depth * Rows
  /\ lane' = [lane EXCEPT ![l] = [@ EXCEPT
       !.found = Tail(@), !.back = Tail(@),
       !.both = Append(@, Both(Head(lane[l].back).v, Head(lane[l].found).v))]]
  /\ UNCHANGED <<due, weighed, coming, ch, stopping, staList, siList, rows>>

\* A row of the lanes at a time, a word when it is full.
merge_weight ==
  /\ \A l \in Lane : lane[l].both # << >>
  /\ LET row == rows \o [l \in Lane |-> Head(lane[l].both)]
         full == Len(row) = Word
     IN  /\ rows' = IF full THEN << >> ELSE row
         /\ weighed' = IF full THEN Append(weighed, row) ELSE weighed
  /\ lane' = [l \in Lane |-> [lane[l] EXCEPT !.both = Tail(@)]]
  /\ UNCHANGED <<due, coming, ch, stopping, staList, siList>>

-----------------------------------------------------------------------------
\* The walk is over and nothing is left on the way.
Done ==
  /\ coming = << >> /\ \A s \in Streams : ch[s] = << >>
  /\ ~stopping /\ staList = Idle /\ siList = Idle
  /\ \A l \in Lane : lane[l].curr = << >> /\ lane[l].prev = << >>
                     /\ lane[l].found = << >> /\ lane[l].back = << >>
                     /\ lane[l].both = << >> /\ lane[l].state = ReadCurr
  /\ rows = << >>
  /\ UNCHANGED vars

Next ==
  \/ DuplicateStep \/ vd_dispatch \/ sta_vd_scheduler \/ StopEngine
  \/ assert_filter_woe \/ si_vd_scheduler
  \/ StaTake \/ StaCut \/ staburst_core
  \/ SiTake \/ SiCut \/ siburst_core \/ weight_duplicate_4
  \/ weight_duplicate \/ weight_dispatch_1 \/ current_mask \/ weight_dispatch_2
  \/ \E l \in Lane : neighbor_mask(l) \/ merge_mask(l)
  \/ merge_weight
  \/ Done

Spec == Init /\ [][Next]_vars /\ WF_vars(Next)

-----------------------------------------------------------------------------
\* TypeOK: packages and entries stay within the depths of the streams.
TypeOK ==
  /\ \A s \in Streams : Len(ch[s]) <= Depth
  /\ stopping \in BOOLEAN
  /\ Len(rows) < Word
  /\ \A l \in Lane :
       /\ lane[l].state \in {ReadCurr, ReadLast, ReadWith, EndLast, EndCurr}
       /\ lane[l].final \in BOOLEAN /\ Len(lane[l].prev) <= Depth
       /\ \A s \in {"curr", "found", "back", "both"} : Len(lane[l][s]) <= Depth * Rows

\* ImplementsWeights: every word of neighbours gets its word of weights, with the weights
\* of node2vec, in the order of the words.
ImplementsWeights == Service!Spec
=============================================================================
