---------------------------- MODULE DynamicBurst ----------------------------
(***************************************************************************)
(* The burst engine of the weighted walks (sdyburst): vd_scheduler sends   *)
(* every list of neighbours along one of three ways - an empty list        *)
(* straight to update_merge, a list inside one memory word to the single   *)
(* engine, any other list through cmd_generator to the engines for long    *)
(* and for one-word bursts.  The ways take different times; intra_merge,   *)
(* inter_merge and update_merge put the words and the answers back into    *)
(* the order of the requests by three ids that count modulo 2^15.  After   *)
(* the last list of a round dummy commands stop the engines, and the host  *)
(* starts them again for the next round.                                   *)
(*                                                                         *)
(* The head of a stream stands for the register a merge has read it into,  *)
(* and a sync package and its word of weights are one element.             *)
(***************************************************************************)
EXTENDS Integers, Sequences

CONSTANTS Rounds,      \* the sequences of lists a round may ask for
          MaxRounds,   \* bound: rounds the host starts
          Word,        \* entries in a memory word (16)
          MaxLen,      \* words of a long burst (DYNAMIC_BURST_MAX_LENGTH, 32)
          IdRange,     \* ids count modulo this (0x8000)
          Base,        \* the ids a round may find (they are never reset)
          Depth        \* depth of every stream

\* An id is not used again while the list or command that has it is on its way: there
\* are 15 streams and registers it may be in (none deeper than 512 in the metapath walk).
BurstAssumption ==
  /\ Word \in Nat \ {0} /\ MaxLen \in Nat \ {0, 1} /\ IdRange \in Nat \ {0}
  /\ Depth \in Nat \ {0} /\ MaxRounds \in Nat /\ Base \subseteq 0..(IdRange - 1)
  /\ \A r \in Rounds : r \in Seq(Nat \X Nat) /\ r # << >>
  /\ IdRange >= 15 * Depth

VARIABLES
  asked, answered,   \* history: requests taken, answers given to fetch_next
  round, todo,       \* rounds started; the input stream of vd_scheduler
  pc,                \* where vd_scheduler stands
  next,              \* the next sync, burst and dynamic burst id
  update,            \* vd_scheduler -> update_merge
  vds, gen,          \* vd_scheduler -> cmd_generator, and the list it is cutting
  cmd, on, work, out, \* per engine: commands, running, words to send, output
  dynamic,           \* intra_merge -> inter_merge
  sync,              \* inter_merge -> the sampling kernels
  seen, sampled,     \* what sample has gone through of this list; its results
  current            \* the ids the three merges wait for

vars == <<asked, answered, round, todo, pc, next, update, vds, gen, cmd, on, work,
          out, dynamic, sync, seen, sampled, current>>

Engines == {"one", "long", "single"}
Dummy == IdRange                       \* the id with bit 15 set
Idle == << >>                          \* cmd_generator between two lists
\* Variant: an id is not taken modulo 2^15.
SuccUnwrapped(id) == id + 1
Succ(id) == (id + 1) % IdRange
Align(a) == a - (a % Word)
Nothing == [words |-> << >>, entries |-> {}]
Result(id, last, got) == [id |-> id, last |-> last, words |-> got.words, entries |-> got.entries]

Room(s) == Len(s) < Depth
TheFirst(a, b) == IF a < b THEN a ELSE b
TheLast(a, b) == IF a < b THEN b ELSE a

Command(addr, len, start, end, id, burst, ends, dyn, last) ==
  [addr |-> addr, len |-> len, start |-> start, end |-> end, id |-> id,
   burst |-> burst, ends |-> ends, dyn |-> dyn, last |-> last]

-----------------------------------------------------------------------------
(* vd_scheduler *)

\* A list goes the way its place in memory calls for.
Dispatch ==
  /\ pc = "main" /\ todo # << >>
  /\ LET start == Head(todo)[1]
         size  == Head(todo)[2]
         last  == Len(todo) = 1
         oneWord == Align(start) = Align(start + size - 1)
     IN
     /\ asked' = Append(asked, [list |-> Head(todo), last |-> last])
     /\ todo' = Tail(todo)
     /\ pc' = IF last THEN "stopSingle" ELSE "main"
     /\ \/ /\ size = 0 /\ Room(update)
           /\ update' = Append(update, Result(next.sync, last, Nothing))
           /\ next' = [next EXCEPT !.sync = Succ(@)]
           /\ UNCHANGED <<cmd, vds>>
        \/ /\ size # 0
           /\ next' = [next EXCEPT !.sync = Succ(@), !.burst = Succ(@)]
           /\ UNCHANGED update
           /\ \/ /\ oneWord /\ Room(cmd["single"])
                 /\ cmd' = [cmd EXCEPT !["single"] =
                       Append(@, Command(Align(start), 1, start, start + size, next.sync,
                                         next.burst, TRUE, 0, last))]
                 /\ UNCHANGED vds
              \/ /\ ~oneWord /\ Room(vds)
                 /\ vds' = Append(vds, [start |-> start, size |-> size, id |-> next.sync,
                                        burst |-> next.burst, last |-> last])
                 /\ UNCHANGED cmd
  /\ UNCHANGED <<answered, round, gen, on, work, out, dynamic, sync, seen, sampled, current>>

\* The commands that make the engines return: one for the single engine, ...
StopSingle ==
  /\ pc = "stopSingle" /\ Room(cmd["single"])
  /\ cmd' = [cmd EXCEPT !["single"] =
        Append(@, Command(0, 1, 0, 0, Dummy, 0, TRUE, 0, TRUE))]
  /\ pc' = "stopDynamic"
  /\ UNCHANGED <<asked, answered, round, todo, next, update, vds, gen, on, work, out,
                 dynamic, sync, seen, sampled, current>>

\* One word more than a long burst holds.
\* Variant: one long burst; the engine for short ones gets no dummy.
DummySizeLong == MaxLen * Word
DummySize == (MaxLen + 1) * Word

\* ... and a list that cmd_generator cuts into one command for each of the others.
StopDynamic ==
  /\ pc = "stopDynamic" /\ Room(vds)
  /\ vds' = Append(vds, [start |-> 0, size |-> DummySize, id |-> Dummy,
                         burst |-> 0, last |-> TRUE])
  /\ pc' = "main"
  /\ UNCHANGED <<asked, answered, round, todo, next, update, gen, cmd, on, work, out,
                 dynamic, sync, seen, sampled, current>>

-----------------------------------------------------------------------------
(* cmd_generator *)

EndAddr(vd) ==
  LET end == vd.start + vd.size IN IF Align(end) = end THEN end ELSE Align(end) + Word

TakeList ==
  /\ gen = Idle /\ vds # << >>
  /\ vds' = Tail(vds)
  /\ gen' = <<Head(vds), Align(Head(vds).start)>>
  /\ UNCHANGED <<asked, answered, round, todo, pc, next, update, cmd, on, work, out,
                 dynamic, sync, seen, sampled, current>>

\* The dummy commands take no dynamic id.
\* Variant: the dummy commands take dynamic ids like any other.
NextDynAlways(vd) == Succ(next.dyn)
NextDyn(vd) == IF vd.id = Dummy THEN next.dyn ELSE Succ(next.dyn)

\* A long burst while a whole one fits, then bursts of one word.
Cut ==
  /\ gen # Idle
  /\ LET vd   == gen[1]
         from == gen[2]
         n    == IF EndAddr(vd) >= from + MaxLen * Word THEN MaxLen ELSE 1
         e    == IF n = MaxLen THEN "long" ELSE "one"
         to   == from + n * Word
         ends == to = EndAddr(vd)
     IN
     /\ Room(cmd[e])
     /\ cmd' = [cmd EXCEPT ![e] =
           Append(@, Command(from, n, TheLast(from, vd.start),
                             TheFirst(to, vd.start + vd.size), vd.id, vd.burst, ends,
                             next.dyn, ends /\ vd.last))]
     /\ next' = [next EXCEPT !.dyn = NextDyn(vd)]
     /\ gen' = IF ends THEN Idle ELSE <<vd, to>>
  /\ UNCHANGED <<asked, answered, round, todo, pc, update, vds, on, work, out, dynamic,
                 sync, seen, sampled, current>>

-----------------------------------------------------------------------------
(* dyburst_core: the three engines *)

\* The entries of word j of a command that the mask lets through: the mask is taken
\* over the address of the command, not of the word.
\* Variant: the entries before start are not masked.
UnmaskedFront(c, j) ==
  {c.addr + Word * j + k : k \in {k \in 0..(Word - 1) : c.addr + k < c.end}}
Unmasked(c, j) ==
  {c.addr + Word * j + k : k \in {k \in 0..(Word - 1) : c.addr + k >= c.start /\ c.addr + k < c.end}}

\* Only the last word of a command ends the list or frees the next dynamic id.
\* Variant: every word of the last command carries the end mark.
EndsListEarly(c, j) == c.ends
EndsList(c, j) == c.ends /\ j = c.len
WordsFor(c) ==
  [j \in 1..c.len |->
     [addr |-> c.addr + Word * (j - 1), entries |-> Unmasked(c, j - 1), id |-> c.id,
      burst |-> c.burst, ends |-> EndsList(c, j), dyn |-> c.dyn,
      frees |-> j = c.len, last |-> c.last]]

TakeCommand(e) ==
  /\ on[e] /\ work[e] = << >> /\ cmd[e] # << >>
  /\ cmd' = [cmd EXCEPT ![e] = Tail(@)]
  /\ IF Head(cmd[e]).id = Dummy
     THEN on' = [on EXCEPT ![e] = FALSE] /\ UNCHANGED work
     ELSE work' = [work EXCEPT ![e] = WordsFor(Head(cmd[e]))] /\ UNCHANGED on
  /\ UNCHANGED <<asked, answered, round, todo, pc, next, update, vds, gen, out, dynamic,
                 sync, seen, sampled, current>>

SendWord(e) ==
  /\ work[e] # << >> /\ Room(out[e])
  /\ out' = [out EXCEPT ![e] = Append(@, Head(work[e]))]
  /\ work' = [work EXCEPT ![e] = Tail(@)]
  /\ UNCHANGED <<asked, answered, round, todo, pc, next, update, vds, gen, cmd, on,
                 dynamic, sync, seen, sampled, current>>

-----------------------------------------------------------------------------
(* The merges and the sampling kernels *)

\* The word of the dynamic id that is due, from whichever engine it comes.
IntraMerge(e) ==
  /\ e \in {"one", "long"}
  /\ out[e] # << >> /\ Head(out[e]).dyn = current.dyn /\ Room(dynamic)
  /\ dynamic' = Append(dynamic, Head(out[e]))
  /\ out' = [out EXCEPT ![e] = Tail(@)]
  /\ current' = IF Head(out[e]).frees THEN [current EXCEPT !.dyn = Succ(@)] ELSE current
  /\ UNCHANGED <<asked, answered, round, todo, pc, next, update, vds, gen, cmd, on, work,
                 sync, seen, sampled>>

\* The word of the list that is due, from the single or from the dynamic way.
InterMerge(single) ==
  /\ LET from == IF single THEN out["single"] ELSE dynamic
     IN
     /\ from # << >> /\ Head(from).burst = current.burst /\ Room(sync)
     /\ sync' = Append(sync, Head(from))
     /\ current' = IF Head(from).ends THEN [current EXCEPT !.burst = Succ(@)] ELSE current
     /\ IF single
        THEN out' = [out EXCEPT !["single"] = Tail(@)] /\ UNCHANGED dynamic
        ELSE dynamic' = Tail(dynamic) /\ UNCHANGED out
  /\ UNCHANGED <<asked, answered, round, todo, pc, next, update, vds, gen, cmd, on, work,
                 seen, sampled>>

\* sample goes through the words of a list and answers at the one that ends it.
Sample ==
  /\ sync # << >>
  /\ LET w   == Head(sync)
         now == [words |-> Append(seen.words, w.addr), entries |-> seen.entries \cup w.entries]
     IN
     /\ sync' = Tail(sync)
     /\ IF w.ends
        THEN /\ Room(sampled)
             /\ sampled' = Append(sampled, Result(w.id, w.last, now))
             /\ seen' = Nothing
        ELSE seen' = now /\ UNCHANGED sampled
  /\ UNCHANGED <<asked, answered, round, todo, pc, next, update, vds, gen, cmd, on, work,
                 out, dynamic, current>>

\* The answer that is due, from the empty lists or from sample.
UpdateMerge(empty) ==
  /\ LET from == IF empty THEN update ELSE sampled
     IN
     /\ from # << >> /\ Head(from).id = current.sync
     /\ answered' = Append(answered, Head(from))
     /\ IF empty THEN update' = Tail(update) /\ UNCHANGED sampled
                 ELSE sampled' = Tail(sampled) /\ UNCHANGED update
  /\ current' = [current EXCEPT !.sync = Succ(@)]
  /\ UNCHANGED <<asked, round, todo, pc, next, vds, gen, cmd, on, work, out, dynamic,
                 sync, seen>>

-----------------------------------------------------------------------------
(* The host *)

\* q.finish returns when the engines and fetch_next have returned.
Finished == /\ \A e \in Engines : ~on[e]
            /\ todo = << >> /\ Len(answered) = Len(asked)

\* set_query enqueues the engines again and start enqueues step_loader.
StartRound ==
  /\ Finished /\ round < MaxRounds
  /\ round' = round + 1
  /\ on' = [e \in Engines |-> TRUE]
  /\ todo' \in Rounds
  /\ UNCHANGED <<asked, answered, pc, next, update, vds, gen, cmd, work, out, dynamic,
                 sync, seen, sampled, current>>

\* The program exits after its rounds.
Exit == Finished /\ round = MaxRounds /\ UNCHANGED vars

Init ==
  /\ asked = << >> /\ answered = << >>
  /\ round = 0 /\ todo = << >> /\ pc = "main"
  /\ \E b \in Base : /\ next = [sync |-> b, burst |-> b, dyn |-> b]
                     /\ current = [sync |-> b, burst |-> b, dyn |-> b]
  /\ update = << >> /\ vds = << >> /\ gen = Idle
  /\ cmd = [e \in Engines |-> << >>]
  /\ on = [e \in Engines |-> FALSE]
  /\ work = [e \in Engines |-> << >>]
  /\ out = [e \in Engines |-> << >>]
  /\ dynamic = << >> /\ sync = << >> /\ seen = Nothing /\ sampled = << >>

Scheduler == Dispatch \/ StopSingle \/ StopDynamic
Generator == TakeList \/ Cut
Engine(e) == TakeCommand(e) \/ SendWord(e)
Intra == \E e \in Engines : IntraMerge(e)
Inter == \E single \in BOOLEAN : InterMerge(single)
Update == \E empty \in BOOLEAN : UpdateMerge(empty)

Next ==
  \/ Scheduler \/ Generator \/ (\E e \in Engines : Engine(e))
  \/ Intra \/ Inter \/ Sample \/ Update \/ StartRound \/ Exit

\* Every kernel is a free-running circuit, and the host goes on to its next round.
Fairness ==
  /\ WF_vars(Scheduler) /\ WF_vars(Generator) /\ \A e \in Engines : WF_vars(Engine(e))
  /\ WF_vars(Intra) /\ WF_vars(Inter) /\ WF_vars(Sample) /\ WF_vars(Update)
  /\ WF_vars(StartRound)

Spec == Init /\ [][Next]_vars /\ Fairness

-----------------------------------------------------------------------------
(* Properties *)

\* Types and depths: the streams never hold more than their depth, ids stay below 2^15.
TypeOK ==
  /\ round \in 0..MaxRounds /\ pc \in {"main", "stopSingle", "stopDynamic"}
  /\ next \in [{"sync", "burst", "dyn"} -> 0..(IdRange - 1)]
  /\ current \in [{"sync", "burst", "dyn"} -> 0..(IdRange - 1)]
  /\ on \in [Engines -> BOOLEAN]
  /\ \A s \in {update, vds, dynamic, sync, sampled} : Len(s) <= Depth
  /\ \A e \in Engines : Len(cmd[e]) <= Depth /\ Len(out[e]) <= Depth /\ Len(work[e]) <= MaxLen

\* When the host sees a round finished, nothing of it is left anywhere: no word, no
\* answer and no dummy command that would meet the next round.
RoundsApart ==
  Finished =>
    /\ pc = "main" /\ gen = Idle /\ seen = Nothing
    /\ \A s \in {update, vds, dynamic, sync, sampled} : s = << >>
    /\ \A e \in Engines : cmd[e] = << >> /\ work[e] = << >> /\ out[e] = << >>
    /\ current = next

\* sample sees, of every list, the entries of the list and no other (dyburst_helper.h:
\* a mask keeps the entries from start, inclusive, to end, exclusive).
ExactEntries ==
  \A i \in DOMAIN answered :
    LET l == asked[i].list IN answered[i].entries = l[1]..(l[1] + l[2] - 1)

\* The engine returns an answer to every list, in order, from exactly its words, the
\* last one marked.
Service == INSTANCE BurstService WITH
  Lists <- UNION {{r[i] : i \in DOMAIN r} : r \in Rounds},
  answered <- [i \in DOMAIN answered |-> [words |-> answered[i].words, last |-> answered[i].last]]

ImplementsService == Service!Spec
=============================================================================
