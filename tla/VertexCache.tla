---------------------------- MODULE VertexCache ----------------------------
(***************************************************************************)
(* The vertex cache of the dynamic walks (vdac_cache with one of the three *)
(* vcache_update kernels).  vertex_loader looks a vertex up in a direct-   *)
(* mapped table and sends, hit or miss, one memory command and one         *)
(* descriptor on; the command of a hit is a dummy, so that the order of    *)
(* memory is the order of the requests.  vcache_duplicate copies both      *)
(* streams; vcache_vd pairs one copy into the answers, vcache_update the   *)
(* other into updates that travel back to the table while later vertices   *)
(* are looked up.  After the last vertex of a round vertex_loader throws   *)
(* updates away until none has come for 4095 polls, and clears the table.  *)
(***************************************************************************)
EXTENDS Integers, Sequences, TLC

CONSTANTS Memory,     \* the descriptor <<start, size>> of every vertex
          NumLines,   \* lines of the table (VCACHE_SIZE, 2^16)
          Policies,   \* the builds: "dac", "direct", "none"
          Rounds,     \* the requests a round may make
          MaxRounds,  \* bound: rounds the host starts
          CmdDepth,   \* what vertex_cmd and vcache_mem hold
          DataDepth,  \* what the stream of memory's answers holds
          VdsDepth,   \* depth of the stream of descriptors (512)
          CopyDepth,  \* depth of the four streams out of vcache_duplicate (16)
          UpdateDepth \* depth of the stream of updates (512)

ASSUME CacheAssumption ==
  /\ NumLines \in Nat \ {0} /\ MaxRounds \in Nat
  /\ {CmdDepth, DataDepth, VdsDepth, CopyDepth, UpdateDepth} \subseteq Nat \ {0}
  /\ DOMAIN Memory \subseteq Nat /\ \A v \in DOMAIN Memory : Memory[v] \in Nat \X Nat
  /\ Policies \subseteq {"dac", "direct", "none"}
  /\ Rounds \subseteq Seq([v : DOMAIN Memory, ended : BOOLEAN]) \ {<< >>}

\* The lookups between vertex_loader and vcache_update that the way through memory can
\* hold; the stream of updates is deeper than that.
Capacity == CmdDepth + DataDepth + 1 + CopyDepth
ASSUME DepthAssumption == Capacity < UpdateDepth

VARIABLES
  asked, answered,  \* history: requests read, descriptors given to vd_scheduler
  round, todo,      \* rounds started; the input stream of vertex_loader
  policy,           \* the build
  pc,               \* vertex_loader: "check", "send" and "poll" (the rest of an
                    \* iteration), "drain"
  line,             \* the table
  cmds,             \* vertex_loader -> vcache_mem
  on,               \* vcache_mem runs
  stream,           \* the streams into vcache_duplicate ("data", "vds"), ...
  held,             \* ... what it still has to write to its second output, ...
  toVd, toUpdate,   \* ... and its outputs
  updates           \* vcache_update -> vertex_loader

vars == <<asked, answered, round, todo, policy, pc, line, cmds, on, stream, held,
          toVd, toUpdate, updates>>

Kinds == {"data", "vds"}
NoLine == [valid |-> FALSE, v |-> 0, vd |-> <<0, 0>>]
Cleared == [i \in 0..(NumLines - 1) |-> NoLine]
Index(v) == v % NumLines                            \* V_CACHE_TAG
InDepth(k) == IF k = "data" THEN DataDepth ELSE VdsDepth
Quiet == [k \in Kinds |-> << >>]

-----------------------------------------------------------------------------
(* vertex_loader *)

\* Variant: the vertex of the line is not compared.
HitAny(q) == ~q.ended /\ line[Index(q.v)].valid
Hit(q) == ~q.ended /\ line[Index(q.v)].valid /\ line[Index(q.v)].v = q.v

Dummy(q) == q.ended \/ Hit(q)

EndFlag(q) == q.last

\* What goes on beside the command: an empty list, the cached descriptor, or the
\* vertex with the size the line has now.
Looked(q) ==
  LET cached == line[Index(q.v)].vd
  IN  IF q.ended   THEN [vd |-> <<q.v, 0>>, missed |-> FALSE, last |-> q.last]
      ELSE IF Hit(q) THEN [vd |-> cached, missed |-> FALSE, last |-> q.last]
      ELSE [vd |-> <<q.v, cached[2]>>, missed |-> TRUE, last |-> q.last]

CmdRoom == Len(cmds) < CmdDepth

Look ==
  /\ pc = "check" /\ todo # << >> /\ CmdRoom
  /\ LET q == [v |-> Head(todo).v, ended |-> Head(todo).ended, last |-> Len(todo) = 1]
     IN  /\ asked' = Append(asked, q)
         /\ cmds' = Append(cmds, [addr |-> q.v, dummy |-> Dummy(q), end |-> EndFlag(q)])
         /\ held' = [held EXCEPT !.looked = <<Looked(q)>>]
  /\ todo' = Tail(todo)
  /\ pc' = "send"
  /\ UNCHANGED <<answered, round, policy, line, on, stream, toVd, toUpdate, updates>>

\* Variant: the updates are read only in an iteration without a vertex.
AfterSendCheck(last) == IF last THEN "drain" ELSE "check"
AfterSend(last) == IF last THEN "drain" ELSE "poll"

Send ==
  /\ pc = "send" /\ Len(stream["vds"]) < VdsDepth
  /\ stream' = [stream EXCEPT !["vds"] = Append(@, held.looked[1])]
  /\ held' = [held EXCEPT !.looked = << >>]
  /\ pc' = AfterSend(held.looked[1].last)
  /\ UNCHANGED <<asked, answered, round, todo, policy, line, cmds, on, toVd, toUpdate, updates>>

Filled(u) == [valid |-> TRUE, v |-> u.v, vd |-> u.vd]

\* Every iteration reads an update if there is one, also an iteration without a vertex.
Poll ==
  /\ pc \in {"check", "poll"}
  /\ pc = "check" => updates # << >>
  /\ pc' = "check"
  /\ IF updates = << >>
     THEN UNCHANGED <<updates, line>>
     ELSE /\ updates' = Tail(updates)
          /\ line' = [line EXCEPT ![Index(Head(updates).v)] = Filled(Head(updates))]
  /\ UNCHANGED <<asked, answered, round, todo, policy, cmds, on, stream, held, toVd, toUpdate>>

\* empty_stream
Discard ==
  /\ pc = "drain" /\ updates # << >>
  /\ updates' = Tail(updates)
  /\ UNCHANGED <<asked, answered, round, todo, policy, pc, line, cmds, on, stream, held,
                 toVd, toUpdate>>

\* No update for 4095 polls: those on their way may still come, in the next round.
EndDrain ==
  /\ pc = "drain" /\ updates = << >>
  /\ pc' = "check"
  /\ line' = Cleared
  /\ UNCHANGED <<asked, answered, round, todo, policy, cmds, on, stream, held, toVd,
                 toUpdate, updates>>

-----------------------------------------------------------------------------
(* vcache_mem, vcache_duplicate, vcache_vd and vcache_update *)

\* Returns at the end flag; the host starts it again for the next round.
ReadMemory ==
  /\ on /\ cmds # << >> /\ Len(stream["data"]) < DataDepth
  /\ LET c == Head(cmds)
     IN  /\ stream' = [stream EXCEPT !["data"] =
                          Append(@, IF c.dummy THEN <<0, 0>> ELSE Memory[c.addr])]
         /\ on' = ~c.end
  /\ cmds' = Tail(cmds)
  /\ UNCHANGED <<asked, answered, round, todo, policy, pc, line, held, toVd, toUpdate, updates>>

\* stream_duplicate_nb writes its first output and then its second.
Duplicate(k) ==
  \/ /\ held[k] = << >> /\ stream[k] # << >> /\ Len(toVd[k]) < CopyDepth
     /\ toVd' = [toVd EXCEPT ![k] = Append(@, Head(stream[k]))]
     /\ held' = [held EXCEPT ![k] = <<Head(stream[k])>>]
     /\ stream' = [stream EXCEPT ![k] = Tail(@)]
     /\ UNCHANGED <<asked, answered, round, todo, policy, pc, line, cmds, on, toUpdate, updates>>
  \/ /\ held[k] # << >> /\ Len(toUpdate[k]) < CopyDepth
     /\ toUpdate' = [toUpdate EXCEPT ![k] = Append(@, held[k][1])]
     /\ held' = [held EXCEPT ![k] = << >>]
     /\ UNCHANGED <<asked, answered, round, todo, policy, pc, line, cmds, on, stream, toVd, updates>>

Both(s) == \A k \in Kinds : s[k] # << >>
Rest(s) == [k \in Kinds |-> Tail(s[k])]

Pair ==
  /\ Both(toVd)
  /\ LET vds == Head(toVd["vds"])
     IN  answered' = Append(answered, [vd   |-> IF vds.missed THEN Head(toVd["data"]) ELSE vds.vd,
                                       last |-> vds.last])
  /\ toVd' = Rest(toVd)
  /\ UNCHANGED <<asked, round, todo, policy, pc, line, cmds, on, stream, held, toUpdate, updates>>

Replacement(vds, vd) == [v |-> vds.vd[1], vd |-> vd]

\* The dac build keeps the list it takes for the larger one: the size it compares with
\* is the one of the line when the vertex was looked up.
Replaces(vds, vd) ==
  /\ vds.missed
  /\ CASE policy = "dac"    -> vd[2] > vds.vd[2]
       [] policy = "direct" -> TRUE
       [] policy = "none"   -> FALSE     \* a size no list has

Update ==
  /\ Both(toUpdate)
  /\ LET vds == Head(toUpdate["vds"])
         vd  == Head(toUpdate["data"])
     IN  IF Replaces(vds, vd)
         THEN /\ Len(updates) < UpdateDepth
              /\ updates' = Append(updates, Replacement(vds, vd))
         ELSE UNCHANGED updates
  /\ toUpdate' = Rest(toUpdate)
  /\ UNCHANGED <<asked, answered, round, todo, policy, pc, line, cmds, on, stream, held, toVd>>

-----------------------------------------------------------------------------
(* The host *)

\* vcache_mem has returned, and the walks of the round have all been answered.
Finished == ~on /\ todo = << >> /\ Len(answered) = Len(asked)

StartRound ==
  /\ Finished /\ round < MaxRounds
  /\ round' = round + 1
  /\ on' = TRUE
  /\ todo' \in Rounds
  /\ UNCHANGED <<asked, answered, policy, pc, line, cmds, stream, held, toVd, toUpdate, updates>>

\* The program exits after its rounds.
Exit == Finished /\ round = MaxRounds /\ UNCHANGED vars

Init ==
  /\ asked = << >> /\ answered = << >> /\ round = 0 /\ todo = << >>
  /\ policy \in Policies
  /\ pc = "check" /\ line = Cleared /\ cmds = << >> /\ on = FALSE
  /\ stream = Quiet /\ toVd = Quiet /\ toUpdate = Quiet
  /\ held = [k \in Kinds \cup {"looked"} |-> << >>]
  /\ updates = << >>

Loader == Look \/ Send \/ Poll \/ Discard \/ EndDrain

Next ==
  \/ Loader \/ ReadMemory \/ (\E k \in Kinds : Duplicate(k)) \/ Pair \/ Update
  \/ StartRound \/ Exit

\* Free-running circuits; the loop of vertex_loader polls both of its inputs.
Fairness ==
  /\ WF_vars(Look \/ Send \/ Poll) /\ WF_vars(Discard) /\ WF_vars(EndDrain)
  /\ WF_vars(ReadMemory) /\ \A k \in Kinds : WF_vars(Duplicate(k))
  /\ WF_vars(Pair) /\ WF_vars(Update) /\ WF_vars(StartRound)

Spec == Init /\ [][Next]_vars /\ Fairness

-----------------------------------------------------------------------------
(* Properties *)

\* Types and depths.
TypeOK ==
  /\ pc \in {"check", "send", "poll", "drain"} /\ on \in BOOLEAN /\ round \in 0..MaxRounds
  /\ Len(held.looked) = (IF pc = "send" THEN 1 ELSE 0)
  /\ \A k \in Kinds : /\ Len(stream[k]) <= InDepth(k) /\ Len(held[k]) <= 1
                      /\ Len(toVd[k]) <= CopyDepth /\ Len(toUpdate[k]) <= CopyDepth
  /\ Len(cmds) <= CmdDepth /\ Len(updates) <= UpdateDepth
  /\ \A i \in DOMAIN line : line[i].valid => line[i].v \in DOMAIN Memory

\* A line that answers for a vertex holds the descriptor memory has for that vertex,
\* however old the update that filled it is.
LinesTrue ==
  \A i \in DOMAIN line :
    line[i].valid => Index(line[i].v) = i /\ line[i].vd = Memory[line[i].v]

\* The lookups vcache_update has not seen yet, counted along either way.
Looking == Len(held.looked) + Len(stream["vds"]) + Len(held["vds"]) + Len(toUpdate["vds"])
Fetching == Len(cmds) + Len(stream["data"]) + Len(held["data"]) + Len(toUpdate["data"])

\* vcache_update never finds the stream of updates full - it would hold up the copies,
\* the memory and at last vertex_loader, which alone can empty that stream.
NeverHeldUp ==
  /\ Looking = Fetching
  /\ Both(toUpdate) => Len(updates) < UpdateDepth

\* Every vertex asked for is answered with its descriptor, in the order of the requests.
Service == INSTANCE LookupService WITH Walks <- [v : DOMAIN Memory, ended : BOOLEAN, last : BOOLEAN]

ImplementsLookup == Service!Spec
=============================================================================
