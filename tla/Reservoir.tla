----------------------------- MODULE Reservoir -----------------------------
(***************************************************************************)
(* Weighted sampling in one pass over a list of neighbours (src/wrs and    *)
(* msample).  bs_duplicator, partial_sum, perfix_sum, scale_weight,        *)
(* reservoir_mask and sample exchange words of Lanes numbers of Bits bits. *)
(* An entry of weight w replaces the one selected so far when its random   *)
(* number r, scaled by the sum W of all weights up to it, is below w:      *)
(* r * W < w * 2^Bits.                                                     *)
(*                                                                         *)
(* One iteration of a kernel is one step.  Each takes a package from each  *)
(* of its inputs and puts one on each of its outputs, in a fixed order, so *)
(* that where it has to wait changes when a package comes, not what it is. *)
(* The flush counters restart a loop that has no other state, or do        *)
(* nothing (perfix_sum.cpp:97, sample.cpp:102).                            *)
(***************************************************************************)
EXTENDS Integers, Sequences, FiniteSets

CONSTANTS Lists,    \* sequences of lists the burst engine may send
          Lanes,    \* NUM_OF_WEIGHTS (16)
          Bits,     \* of a weight and of a random number (32)
          Draws,    \* random numbers rng may deliver
          Depth     \* depth of every stream

Span == 2 ^ Bits

\* The sum of the first i weights of a list.
Prefix(l, i) ==
  LET sum[j \in 0..i] == IF j = 0 THEN 0 ELSE sum[j - 1] + l.weights[j] IN sum[i]

\* Lists fill whole words (entries the burst engine masks have weight 0), and the sum
\* of their weights is at most 2^Bits.
ReservoirAssumption ==
  /\ Lanes \in Nat \ {0} /\ Bits \in Nat \ {0} /\ Depth \in Nat \ {0}
  /\ Draws \subseteq 0..(Span - 1)
  /\ \A s \in Lists : \A n \in DOMAIN s :
       /\ Len(s[n].weights) > 0 /\ Len(s[n].weights) % Lanes = 0
       /\ Prefix(s[n], Len(s[n].weights)) <= Span

VARIABLES
  lists,      \* what the burst engine sends
  fifo,       \* the streams between the kernels
  base_sum,   \* perfix_sum: the sum of the words of this list so far
  selected,   \* sample: the entry selected so far
  drawn,      \* history: the random numbers, in the order of the entries
  answers     \* next_vertex

vars == <<lists, fifo, base_sum, selected, drawn, answers>>

None == -1                            \* 0x80000000

\* The words of a list: the sync package and the weights of each.
WordsOf(s, n) ==
  [k \in 1..(Len(s[n].weights) \div Lanes) |->
     [addr |-> s[n].addr + Lanes * (k - 1), ends |-> k * Lanes = Len(s[n].weights),
      id |-> n, last |-> n = Len(s),
      weights |-> SubSeq(s[n].weights, Lanes * (k - 1) + 1, Lanes * k)]]

AllWords(s) ==
  LET upTo[n \in 0..Len(s)] == IF n = 0 THEN << >> ELSE upTo[n - 1] \o WordsOf(s, n)
  IN  upTo[Len(s)]

Streams == {"perfix", "sample", "weight", "partial", "base", "sum", "scale", "mask"}
Room(S) == \A c \in S : Len(fifo[c]) < Depth
Full(S) == \A c \in S : fifo[c] # << >>
\* One package from each of ins, and put[c] on each c in its domain.
Pass(ins, put) ==
  fifo' = [c \in DOMAIN fifo |->
             LET kept == IF c \in ins THEN Tail(fifo[c]) ELSE fifo[c]
             IN  IF c \in DOMAIN put THEN Append(kept, put[c]) ELSE kept]

-----------------------------------------------------------------------------
(* What the kernels compute *)

\* Sums within a word, of Bits bits.
\* Variant: the sums leave out the weight of their own lane.
PartialSumsBefore(w) ==
  LET sum[i \in 1..Lanes] == IF i = 1 THEN 0 ELSE (sum[i - 1] + w[i - 1]) % Span IN sum
PartialSums(w) ==
  LET sum[i \in 1..Lanes] == IF i = 1 THEN w[1] ELSE (sum[i - 1] + w[i]) % Span IN sum

\* The sum before the next word: begins anew with every list.
\* Variant: base_sum is not reset at the end of a list.
NextBaseKept(base, sums, ends) == (base + sums[Lanes]) % Span
NextBase(base, sums, ends) == IF ends THEN 0 ELSE (base + sums[Lanes]) % Span

\* The upper half of a product of 2 * Bits bits.
Scaled(r, base, sum) == ((r * (base + sum)) % (Span * Span)) \div Span

\* Variant: an entry also wins a tie.
WinsTie(scale, weight) == scale <= weight
Wins(scale, weight) == scale < weight

\* The last entry of a word that wins, counted from 1; 0 if none does.
\* Variant: the first one.
MsbFirst(mask) ==
  IF \E i \in 1..Lanes : mask[i]
  THEN CHOOSE i \in 1..Lanes : mask[i] /\ \A j \in 1..(i - 1) : ~mask[j]
  ELSE 0
Msb(mask) ==
  IF \E i \in 1..Lanes : mask[i]
  THEN CHOOSE i \in 1..Lanes : mask[i] /\ \A j \in (i + 1)..Lanes : ~mask[j]
  ELSE 0

Selected(sel, addr, mask) == IF Msb(mask) # 0 THEN addr + (Msb(mask) - 1) ELSE sel

-----------------------------------------------------------------------------
(* The kernels *)

bs_duplicator ==
  /\ Full({"burst_sync"}) /\ Room({"perfix", "sample"})
  /\ LET sync == Head(fifo["burst_sync"])
     IN  Pass({"burst_sync"}, [c \in {"perfix", "sample"} |-> sync])
  /\ UNCHANGED <<lists, base_sum, selected, drawn, answers>>

partial_sum ==
  /\ Full({"weight_input"}) /\ Room({"weight", "partial"})
  /\ LET w == Head(fifo["weight_input"])
     IN  Pass({"weight_input"},
              [c \in {"weight", "partial"} |-> IF c = "weight" THEN w ELSE PartialSums(w)])
  /\ UNCHANGED <<lists, base_sum, selected, drawn, answers>>

\* The sum before the word and the sums within it go on; then the word is added.
perfix_sum ==
  /\ Full({"perfix", "partial"}) /\ Room({"base", "sum"})
  /\ LET sums == Head(fifo["partial"])
     IN  /\ Pass({"perfix", "partial"},
                 [c \in {"base", "sum"} |-> IF c = "base" THEN base_sum ELSE sums])
         /\ base_sum' = NextBase(base_sum, sums, Head(fifo["perfix"]).ends)
  /\ UNCHANGED <<lists, selected, drawn, answers>>

scale_weight ==
  /\ Full({"base", "sum"}) /\ Room({"scale"})
  /\ \E rng \in [1..Lanes -> Draws] :
       /\ Pass({"base", "sum"},
               [c \in {"scale"} |->
                  [i \in 1..Lanes |-> Scaled(rng[i], Head(fifo["base"]), Head(fifo["sum"])[i])]])
       /\ drawn' = drawn \o rng
  /\ UNCHANGED <<lists, base_sum, selected, answers>>

reservoir_mask ==
  /\ Full({"weight", "scale"}) /\ Room({"mask"})
  /\ Pass({"weight", "scale"},
          [c \in {"mask"} |->
             [i \in 1..Lanes |-> Wins(Head(fifo["scale"])[i], Head(fifo["weight"])[i])]])
  /\ UNCHANGED <<lists, base_sum, selected, drawn, answers>>

\* Variant: the selection of a list survives its end.
AfterEndKept(now) == now
AfterEnd(now) == None

sample ==
  /\ Full({"sample", "mask"})
  /\ LET sync == Head(fifo["sample"])
         now  == Selected(selected, sync.addr, Head(fifo["mask"]))
     IN  IF sync.ends
         THEN /\ answers' = Append(answers, [vertex |-> now, id |-> sync.id, last |-> sync.last])
              /\ selected' = AfterEnd(now)
         ELSE selected' = now /\ UNCHANGED answers
  /\ Pass({"sample", "mask"}, << >>)
  /\ UNCHANGED <<lists, base_sum, drawn>>

\* All lists are answered; the kernels wait for more.
Rest == Len(answers) = Len(lists) /\ UNCHANGED vars

Init ==
  /\ lists \in Lists
  /\ LET words == AllWords(lists)
     IN  fifo = [c \in Streams \cup {"burst_sync", "weight_input"} |->
                   IF c = "burst_sync" THEN words
                   ELSE IF c = "weight_input" THEN [k \in DOMAIN words |-> words[k].weights]
                   ELSE << >>]
  /\ base_sum = 0 /\ selected = None
  /\ drawn = << >> /\ answers = << >>

Next == bs_duplicator \/ partial_sum \/ perfix_sum \/ scale_weight \/ reservoir_mask
        \/ sample \/ Rest

Fairness == /\ WF_vars(bs_duplicator) /\ WF_vars(partial_sum) /\ WF_vars(perfix_sum)
            /\ WF_vars(scale_weight) /\ WF_vars(reservoir_mask) /\ WF_vars(sample)

Spec == Init /\ [][Next]_vars /\ Fairness

-----------------------------------------------------------------------------
(* Properties *)

\* Types and depths.
TypeOK ==
  /\ lists \in Lists
  /\ \A c \in Streams : Len(fifo[c]) <= Depth
  /\ base_sum \in 0..(Span - 1)
  /\ selected = None \/ selected \in Nat

\* The kernels implement a weighted choice: lists and their random numbers do not mix,
\* whichever kernel is ahead, and a list with a neighbour of weight > 0 gets one.
Choice == INSTANCE WeightedChoice

ImplementsChoice == Choice!Spec

\* Where the entries of list n begin in drawn.
Before(n) ==
  LET upTo[m \in 1..n] == IF m = 1 THEN 0 ELSE upTo[m - 1] + Len(lists[m - 1].weights)
  IN  upTo[n]

\* The answer is the last entry for which R * perfix W < W * 2^32 (scale_weight.cpp and
\* reservoir_mask.cpp, line 15), with the sum over the whole list and the numbers drawn
\* for this list.
ChosenAsDrawn ==
  \A n \in DOMAIN answers :
    LET l   == lists[n]
        won == {i \in DOMAIN l.weights :
                  drawn[Before(n) + i] * Prefix(l, i) < l.weights[i] * Span}
    IN  answers[n].vertex = IF won = {} THEN None
                            ELSE l.addr + (CHOOSE i \in won : \A j \in won : j <= i) - 1

\* What the kernels make of list l with the random numbers r, one word after the other.
Outcome(l, r) ==
  LET words == WordsOf(<<l>>, 1)
      sums(k) == PartialSums(words[k].weights)
      base[k \in 1..Len(words)] ==
        IF k = 1 THEN 0 ELSE NextBase(base[k - 1], sums(k - 1), FALSE)
      mask(k) == [i \in 1..Lanes |->
                    Wins(Scaled(r[Lanes * (k - 1) + i], base[k], sums(k)[i]),
                         words[k].weights[i])]
      sel[k \in 0..Len(words)] ==
        IF k = 0 THEN None ELSE Selected(sel[k - 1], words[k].addr, mask(k))
  IN  sel[Len(words)]

\* Where Bits bits can express the odds exactly (every sum W divides w * 2^Bits), the
\* entries are chosen in exact proportion to their weights, over all random numbers.
Proportional ==
  drawn = << >> /\ answers = << >> /\ base_sum = 0 =>
    \A n \in DOMAIN lists :
      LET l     == lists[n]
          size  == Len(l.weights)
          exact == \A i \in 1..size :
                     l.weights[i] # 0 => (l.weights[i] * Span) % Prefix(l, i) = 0
          draws == [1..size -> 0..(Span - 1)]
          outcome == [r \in draws |-> Outcome(l, r)]
      IN  exact => \A i \in 1..size :
            Cardinality({r \in draws : outcome[r] = l.addr + i - 1}) * Prefix(l, size)
              = l.weights[i] * Span ^ size
=============================================================================
