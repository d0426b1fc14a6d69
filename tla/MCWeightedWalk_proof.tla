------------------------ MODULE MCWeightedWalk_proof ------------------------
(***************************************************************************)
(* The vertex cache and the burst engine of the weighted walks. The vertex *)
(* cache, for every memory, table, build and depth: first, vcache_update   *)
(* never finds the stream of updates full. A lookup travels on two ways at *)
(* once, and LengthsOK counts the lookups on both; the way through memory  *)
(* holds at most Capacity of them, and vertex_loader, which reads an       *)
(* update after every lookup, keeps lookups and updates together within    *)
(* one of that. Second, the cache is invisible to vd_scheduler: CacheInv   *)
(* keeps a book of the lookups asked so far, each with what the table said *)
(* of it, and every stream carries a run of entries of that book (Booked), *)
(* so the two streams a process reads in pairs meet at the same lookup,    *)
(* and the table and the updates on their way to it hold descriptors of    *)
(* memory. AnswersFromMemory follows from both. The burst engine:          *)
(* BurstEngine_proof has its invariant BurstInv and the steps of the       *)
(* engines, the merges and sample; here are those of vd_scheduler,         *)
(* cmd_generator and the host, and the theorems.                           *)
(***************************************************************************)
EXTENDS BurstEngine_proof

-----------------------------------------------------------------------------
(***************************************************************************)
(* The vertex cache.                                                       *)
(***************************************************************************)

SeqsOK ==
  /\ IsSeq(cmds) /\ IsSeq(updates)
  /\ DOMAIN stream = Kinds /\ DOMAIN toUpdate = Kinds /\ DOMAIN held = Kinds \cup {"looked"}
  /\ \A k \in Kinds : IsSeq(stream[k]) /\ IsSeq(toUpdate[k]) /\ IsSeq(held[k])
  /\ IsSeq(held["looked"])

\* How many lookups are where: in the registers and streams of one way, those of the
\* other, and the updates.
Sizes(lo, sv, hv, uv, cm, sd, hd, ud, up) ==
  /\ Len(held["looked"]) = lo /\ Len(stream["vds"]) = sv
  /\ Len(held["vds"]) = hv /\ Len(toUpdate["vds"]) = uv
  /\ Len(cmds) = cm /\ Len(stream["data"]) = sd
  /\ Len(held["data"]) = hd /\ Len(toUpdate["data"]) = ud
  /\ Len(updates) = up

\* A lookup is on both ways; after it there may be one lookup or update more, until
\* vertex_loader has looked for an update.
Within(p, lo, sv, hv, uv, cm, sd, hd, ud, up) ==
  /\ lo = (IF p = "send" THEN 1 ELSE 0)
  /\ hv <= 1 /\ hd <= 1 /\ cm <= CmdDepth /\ sd <= DataDepth /\ ud <= CopyDepth
  /\ lo + sv + hv + uv = cm + sd + hd + ud
  /\ up + cm + sd + hd + ud <= Capacity + (IF p = "check" THEN 0 ELSE 1)

LengthsOK ==
  /\ SeqsOK
  /\ \E lo, sv, hv, uv, cm, sd, hd, ud, up \in Nat :
       /\ Sizes(lo, sv, hv, uv, cm, sd, hd, ud, up)
       /\ Within(pc, lo, sv, hv, uv, cm, sd, hd, ud, up)

LEMMA Depths == /\ CmdDepth \in Nat /\ DataDepth \in Nat /\ CopyDepth \in Nat
                /\ UpdateDepth \in Nat /\ Capacity = CmdDepth + DataDepth + 1 + CopyDepth
                /\ Capacity < UpdateDepth
BY CacheAssumption, DepthAssumption DEF Capacity

LEMMA InitLengths == Init => LengthsOK
<1>1. SUFFICES ASSUME Init PROVE LengthsOK
  OBVIOUS
<1>2. SeqsOK
  BY <1>1, SeqSmall DEF Init, SeqsOK, Quiet, Kinds
<1>3. Sizes(0, 0, 0, 0, 0, 0, 0, 0, 0)
  BY <1>1, SeqSmall DEF Init, Quiet, Kinds, Sizes
<1>4. Within(pc, 0, 0, 0, 0, 0, 0, 0, 0, 0)
  BY <1>1, Depths DEF Init, Within
<1> QED
  BY <1>2, <1>3, <1>4 DEF LengthsOK

-----------------------------------------------------------------------------
LEMMA Keeps ==
  ASSUME SeqsOK',
         NEW lo \in Nat, NEW sv \in Nat, NEW hv \in Nat, NEW uv \in Nat, NEW cm \in Nat,
         NEW sd \in Nat, NEW hd \in Nat, NEW ud \in Nat, NEW up \in Nat,
         Sizes(lo, sv, hv, uv, cm, sd, hd, ud, up)',
         Within(pc', lo, sv, hv, uv, cm, sd, hd, ud, up)
  PROVE  LengthsOK'
BY DEF LengthsOK

\* A lookup starts on both ways; there was room for its command.
LEMMA LookKeeps == ASSUME LengthsOK, Look PROVE LengthsOK'
<1> DEFINE q == [v |-> Head(todo).v, ended |-> Head(todo).ended, last |-> Len(todo) = 1]
           c == [addr |-> q.v, dummy |-> Dummy(q), end |-> EndFlag(q)]
<1>1. PICK lo, sv, hv, uv, cm, sd, hd, ud, up \in Nat :
        /\ Sizes(lo, sv, hv, uv, cm, sd, hd, ud, up)
        /\ Within(pc, lo, sv, hv, uv, cm, sd, hd, ud, up)
  BY DEF LengthsOK
<1>2. SeqsOK
  BY DEF LengthsOK
<1>3. /\ pc = "check" /\ pc' = "send" /\ Len(cmds) < CmdDepth
      /\ UNCHANGED <<stream, toUpdate, updates>>
  BY DEF Look, CmdRoom
<1>4. cmds' = Append(cmds, c) /\ held' = [held EXCEPT !["looked"] = <<Looked(q)>>]
  BY DEF Look
<1>5. IsSeq(cmds') /\ Len(cmds') = Len(cmds) + 1
  BY <1>2, <1>4, SeqAppend DEF SeqsOK
<1>6. /\ DOMAIN held' = Kinds \cup {"looked"} /\ IsSeq(held'["looked"])
      /\ Len(held'["looked"]) = 1
      /\ held'["data"] = held["data"] /\ held'["vds"] = held["vds"]
  BY <1>2, <1>4, SeqSmall DEF SeqsOK, Kinds
<1>7. SeqsOK'
  BY <1>2, <1>3, <1>5, <1>6 DEF SeqsOK, Kinds
<1>8. Sizes(1, sv, hv, uv, cm + 1, sd, hd, ud, up)'
  BY <1>1, <1>3, <1>5, <1>6 DEF Sizes
<1>9. cm + 1 \in Nat /\ cm + 1 <= CmdDepth
  BY <1>1, <1>3, Depths DEF Sizes
<1>10. Within(pc', 1, sv, hv, uv, cm + 1, sd, hd, ud, up)
  BY <1>1, <1>3, <1>9, Depths DEF Within
<1> QED
  BY <1>7, <1>8, <1>9, <1>10, Keeps

LEMMA SendKeeps == ASSUME LengthsOK, Send PROVE LengthsOK'
<1>1. PICK lo, sv, hv, uv, cm, sd, hd, ud, up \in Nat :
        /\ Sizes(lo, sv, hv, uv, cm, sd, hd, ud, up)
        /\ Within(pc, lo, sv, hv, uv, cm, sd, hd, ud, up)
  BY DEF LengthsOK
<1>2. SeqsOK
  BY DEF LengthsOK
<1>3. /\ pc = "send" /\ pc' \in {"poll", "drain"}
      /\ UNCHANGED <<cmds, toUpdate, updates>>
  BY DEF Send, AfterSend
<1>4. /\ stream' = [stream EXCEPT !["vds"] = Append(@, held.looked[1])]
      /\ held' = [held EXCEPT !["looked"] = << >>]
  BY DEF Send
<1>5. /\ DOMAIN stream' = Kinds /\ stream'["data"] = stream["data"]
      /\ IsSeq(stream'["vds"]) /\ Len(stream'["vds"]) = Len(stream["vds"]) + 1
  BY <1>2, <1>4, SeqAppend DEF SeqsOK, Kinds
<1>6. /\ DOMAIN held' = Kinds \cup {"looked"} /\ IsSeq(held'["looked"])
      /\ Len(held'["looked"]) = 0
      /\ held'["data"] = held["data"] /\ held'["vds"] = held["vds"]
  BY <1>2, <1>4, SeqSmall DEF SeqsOK, Kinds
<1>7. SeqsOK'
  BY <1>2, <1>3, <1>5, <1>6 DEF SeqsOK, Kinds
<1>8. sv + 1 \in Nat /\ Sizes(0, sv + 1, hv, uv, cm, sd, hd, ud, up)'
  BY <1>1, <1>3, <1>5, <1>6 DEF Sizes
<1>9. Within(pc', 0, sv + 1, hv, uv, cm, sd, hd, ud, up)
  BY <1>1, <1>3, Depths DEF Within
<1> QED
  BY <1>7, <1>8, <1>9, Keeps

\* Reading an update, or none: then all there is are lookups, at most Capacity.
LEMMA PollKeeps == ASSUME LengthsOK, Poll PROVE LengthsOK'
<1>1. PICK lo, sv, hv, uv, cm, sd, hd, ud, up \in Nat :
        /\ Sizes(lo, sv, hv, uv, cm, sd, hd, ud, up)
        /\ Within(pc, lo, sv, hv, uv, cm, sd, hd, ud, up)
  BY DEF LengthsOK
<1>2. SeqsOK
  BY DEF LengthsOK
<1>3. /\ pc \in {"check", "poll"} /\ pc' = "check"
      /\ UNCHANGED <<cmds, stream, held, toUpdate>>
  BY DEF Poll
<1>4. CASE updates = << >>
  <2>1. updates' = updates /\ up = 0
    BY <1>1, <1>3, <1>4, SeqSmall DEF Poll, Sizes
  <2>2. SeqsOK' /\ Sizes(lo, sv, hv, uv, cm, sd, hd, ud, up)'
    BY <1>1, <1>2, <1>3, <2>1 DEF SeqsOK, Sizes
  <2>3. Within(pc', lo, sv, hv, uv, cm, sd, hd, ud, up)
    BY <1>1, <1>3, <2>1, Depths DEF Within
  <2> QED
    BY <2>2, <2>3, Keeps
<1>5. CASE updates # << >>
  <2>1. updates' = Tail(updates)
    BY <1>5 DEF Poll
  <2>2. IsSeq(updates') /\ Len(updates') = Len(updates) - 1 /\ Len(updates) \in Nat \ {0}
    BY <1>2, <1>5, <2>1, SeqTail DEF SeqsOK
  <2>3. SeqsOK'
    BY <1>2, <1>3, <2>2 DEF SeqsOK
  <2>4. up - 1 \in Nat /\ Sizes(lo, sv, hv, uv, cm, sd, hd, ud, up - 1)'
    BY <1>1, <1>3, <2>2 DEF Sizes
  <2>5. Within(pc', lo, sv, hv, uv, cm, sd, hd, ud, up - 1)
    BY <1>1, <1>3, Depths DEF Within
  <2> QED
    BY <2>3, <2>4, <2>5, Keeps
<1> QED
  BY <1>4, <1>5

LEMMA DiscardKeeps == ASSUME LengthsOK, Discard PROVE LengthsOK'
<1>1. PICK lo, sv, hv, uv, cm, sd, hd, ud, up \in Nat :
        /\ Sizes(lo, sv, hv, uv, cm, sd, hd, ud, up)
        /\ Within(pc, lo, sv, hv, uv, cm, sd, hd, ud, up)
  BY DEF LengthsOK
<1>2. SeqsOK
  BY DEF LengthsOK
<1>3. /\ pc' = pc /\ updates # << >> /\ updates' = Tail(updates)
      /\ UNCHANGED <<cmds, stream, held, toUpdate>>
  BY DEF Discard
<1>4. IsSeq(updates') /\ Len(updates') = Len(updates) - 1 /\ Len(updates) \in Nat \ {0}
  BY <1>2, <1>3, SeqTail DEF SeqsOK
<1>5. SeqsOK'
  BY <1>2, <1>3, <1>4 DEF SeqsOK
<1>6. up - 1 \in Nat /\ Sizes(lo, sv, hv, uv, cm, sd, hd, ud, up - 1)'
  BY <1>1, <1>3, <1>4 DEF Sizes
<1>7. Within(pc', lo, sv, hv, uv, cm, sd, hd, ud, up - 1)
  BY <1>1, <1>3, Depths DEF Within
<1> QED
  BY <1>5, <1>6, <1>7, Keeps

LEMMA EndDrainKeeps == ASSUME LengthsOK, EndDrain PROVE LengthsOK'
<1>1. PICK lo, sv, hv, uv, cm, sd, hd, ud, up \in Nat :
        /\ Sizes(lo, sv, hv, uv, cm, sd, hd, ud, up)
        /\ Within(pc, lo, sv, hv, uv, cm, sd, hd, ud, up)
  BY DEF LengthsOK
<1>2. SeqsOK
  BY DEF LengthsOK
<1>3. /\ pc = "drain" /\ pc' = "check" /\ updates = << >>
      /\ UNCHANGED <<cmds, stream, held, toUpdate, updates>>
  BY DEF EndDrain
<1>4. SeqsOK' /\ Sizes(lo, sv, hv, uv, cm, sd, hd, ud, up)'
  BY <1>1, <1>2, <1>3 DEF SeqsOK, Sizes
<1>5. up = 0
  BY <1>1, <1>3, SeqSmall DEF Sizes
<1>6. Within(pc', lo, sv, hv, uv, cm, sd, hd, ud, up)
  BY <1>1, <1>3, <1>5, Depths DEF Within
<1> QED
  BY <1>4, <1>6, Keeps

LEMMA ReadMemoryKeeps == ASSUME LengthsOK, ReadMemory PROVE LengthsOK'
<1> DEFINE c == Head(cmds)
           d == IF c.dummy THEN <<0, 0>> ELSE Memory[c.addr]
<1>1. PICK lo, sv, hv, uv, cm, sd, hd, ud, up \in Nat :
        /\ Sizes(lo, sv, hv, uv, cm, sd, hd, ud, up)
        /\ Within(pc, lo, sv, hv, uv, cm, sd, hd, ud, up)
  BY DEF LengthsOK
<1>2. SeqsOK
  BY DEF LengthsOK
<1>3. /\ cmds # << >> /\ cmds' = Tail(cmds) /\ Len(stream["data"]) < DataDepth
      /\ stream' = [stream EXCEPT !["data"] = Append(@, d)]
      /\ UNCHANGED <<pc, held, toUpdate, updates>>
  BY DEF ReadMemory
<1>4. IsSeq(cmds') /\ Len(cmds') = Len(cmds) - 1 /\ Len(cmds) \in Nat \ {0}
  BY <1>2, <1>3, SeqTail DEF SeqsOK
<1>5. /\ DOMAIN stream' = Kinds /\ stream'["vds"] = stream["vds"]
      /\ IsSeq(stream'["data"]) /\ Len(stream'["data"]) = Len(stream["data"]) + 1
  BY <1>2, <1>3, SeqAppend DEF SeqsOK, Kinds
<1>6. SeqsOK'
  BY <1>2, <1>3, <1>4, <1>5 DEF SeqsOK, Kinds
<1>7. cm - 1 \in Nat /\ sd + 1 \in Nat /\ Sizes(lo, sv, hv, uv, cm - 1, sd + 1, hd, ud, up)'
  BY <1>1, <1>3, <1>4, <1>5 DEF Sizes
<1>8. sd + 1 <= DataDepth
  BY <1>1, <1>3, Depths DEF Sizes
<1>9. Within(pc', lo, sv, hv, uv, cm - 1, sd + 1, hd, ud, up)
  BY <1>1, <1>3, <1>8, Depths DEF Within
<1> QED
  BY <1>6, <1>7, <1>9, Keeps

\* What is held back is on its way to vcache_update.
LEMMA DuplicateKeeps ==
  ASSUME LengthsOK, NEW k \in Kinds, Duplicate(k)
  PROVE  LengthsOK'
<1>1. PICK lo, sv, hv, uv, cm, sd, hd, ud, up \in Nat :
        /\ Sizes(lo, sv, hv, uv, cm, sd, hd, ud, up)
        /\ Within(pc, lo, sv, hv, uv, cm, sd, hd, ud, up)
  BY DEF LengthsOK
<1>2. SeqsOK
  BY DEF LengthsOK
<1>3. UNCHANGED <<pc, cmds, updates>>
  BY DEF Duplicate
<1>4. CASE /\ held[k] = << >> /\ stream[k] # << >>
           /\ held' = [held EXCEPT ![k] = <<Head(stream[k])>>]
           /\ stream' = [stream EXCEPT ![k] = Tail(@)]
           /\ UNCHANGED toUpdate
  <2>1. /\ DOMAIN held' = Kinds \cup {"looked"} /\ DOMAIN stream' = Kinds
        /\ \A j \in (Kinds \cup {"looked"}) \ {k} : held'[j] = held[j]
        /\ \A j \in Kinds \ {k} : stream'[j] = stream[j]
        /\ held'[k] = <<Head(stream[k])>> /\ stream'[k] = Tail(stream[k])
    BY <1>2, <1>4 DEF SeqsOK
  <2>2. /\ IsSeq(held'[k]) /\ Len(held'[k]) = 1 /\ Len(held[k]) = 0
        /\ IsSeq(stream'[k]) /\ Len(stream'[k]) = Len(stream[k]) - 1
        /\ Len(stream[k]) \in Nat \ {0}
    BY <1>2, <1>4, <2>1, SeqSmall, SeqTail DEF SeqsOK
  <2>3. SeqsOK'
    BY <1>2, <1>3, <1>4, <2>1, <2>2 DEF SeqsOK, Kinds
  <2>4. CASE k = "data"
    <3>1. sd - 1 \in Nat /\ hd = 0 /\ Sizes(lo, sv, hv, uv, cm, sd - 1, 1, ud, up)'
      BY <1>1, <1>3, <1>4, <2>1, <2>2, <2>4 DEF Sizes, Kinds
    <3>2. Within(pc', lo, sv, hv, uv, cm, sd - 1, 1, ud, up)
      BY <1>1, <1>3, <3>1, Depths DEF Within
    <3> QED
      BY <2>3, <3>1, <3>2, Keeps
  <2>5. CASE k = "vds"
    <3>1. sv - 1 \in Nat /\ hv = 0 /\ Sizes(lo, sv - 1, 1, uv, cm, sd, hd, ud, up)'
      BY <1>1, <1>3, <1>4, <2>1, <2>2, <2>5 DEF Sizes, Kinds
    <3>2. Within(pc', lo, sv - 1, 1, uv, cm, sd, hd, ud, up)
      BY <1>1, <1>3, <3>1, Depths DEF Within
    <3> QED
      BY <2>3, <3>1, <3>2, Keeps
  <2> QED
    BY <2>4, <2>5 DEF Kinds
<1>5. CASE /\ held[k] # << >> /\ Len(toUpdate[k]) < CopyDepth
           /\ toUpdate' = [toUpdate EXCEPT ![k] = Append(@, held[k][1])]
           /\ held' = [held EXCEPT ![k] = << >>]
           /\ UNCHANGED stream
  <2>1. /\ DOMAIN held' = Kinds \cup {"looked"} /\ DOMAIN toUpdate' = Kinds
        /\ \A j \in (Kinds \cup {"looked"}) \ {k} : held'[j] = held[j]
        /\ \A j \in Kinds \ {k} : toUpdate'[j] = toUpdate[j]
        /\ held'[k] = << >> /\ toUpdate'[k] = Append(toUpdate[k], held[k][1])
    BY <1>2, <1>5 DEF SeqsOK
  <2>2. /\ IsSeq(held'[k]) /\ Len(held'[k]) = 0 /\ Len(held[k]) \in Nat \ {0}
        /\ IsSeq(toUpdate'[k]) /\ Len(toUpdate'[k]) = Len(toUpdate[k]) + 1
    BY <1>2, <1>5, <2>1, SeqSmall, SeqTail, SeqAppend DEF SeqsOK
  <2>3. SeqsOK'
    BY <1>2, <1>3, <1>5, <2>1, <2>2 DEF SeqsOK, Kinds
  <2>4. CASE k = "data"
    <3>1. hd \in Nat \ {0} /\ Sizes(lo, sv, hv, uv, cm, sd, 0, ud + 1, up)'
      BY <1>1, <1>3, <1>5, <2>1, <2>2, <2>4 DEF Sizes, Kinds
    <3>2. ud + 1 \in Nat /\ ud + 1 <= CopyDepth
      BY <1>1, <1>5, <2>4, Depths DEF Sizes
    <3>3. Within(pc', lo, sv, hv, uv, cm, sd, 0, ud + 1, up)
      BY <1>1, <1>3, <3>1, <3>2, Depths DEF Within
    <3> QED
      BY <2>3, <3>1, <3>2, <3>3, Keeps
  <2>5. CASE k = "vds"
    <3>1. hv \in Nat \ {0} /\ uv + 1 \in Nat /\ Sizes(lo, sv, 0, uv + 1, cm, sd, hd, ud, up)'
      BY <1>1, <1>3, <1>5, <2>1, <2>2, <2>5 DEF Sizes, Kinds
    <3>2. Within(pc', lo, sv, 0, uv + 1, cm, sd, hd, ud, up)
      BY <1>1, <1>3, <3>1, Depths DEF Within
    <3> QED
      BY <2>3, <3>1, <3>2, Keeps
  <2> QED
    BY <2>4, <2>5 DEF Kinds
<1> QED
  BY <1>4, <1>5 DEF Duplicate

\* A lookup becomes at most one update.
LEMMA UpdateKeeps == ASSUME LengthsOK, Update PROVE LengthsOK'
<1> DEFINE u == Replacement(Head(toUpdate["vds"]), Head(toUpdate["data"]))
<1>1. PICK lo, sv, hv, uv, cm, sd, hd, ud, up \in Nat :
        /\ Sizes(lo, sv, hv, uv, cm, sd, hd, ud, up)
        /\ Within(pc, lo, sv, hv, uv, cm, sd, hd, ud, up)
  BY DEF LengthsOK
<1>2. SeqsOK
  BY DEF LengthsOK
<1>3. /\ toUpdate["vds"] # << >> /\ toUpdate["data"] # << >>
      /\ toUpdate' = [k \in Kinds |-> Tail(toUpdate[k])]
      /\ UNCHANGED <<pc, cmds, stream, held>>
  BY DEF Update, Both, Rest, Kinds
<1>4. /\ DOMAIN toUpdate' = Kinds
      /\ \A k \in Kinds : /\ IsSeq(toUpdate'[k]) /\ Len(toUpdate'[k]) = Len(toUpdate[k]) - 1
                          /\ Len(toUpdate[k]) \in Nat \ {0}
  BY <1>2, <1>3, SeqTail DEF SeqsOK, Kinds
<1>5. uv - 1 \in Nat /\ ud - 1 \in Nat
  BY <1>1, <1>4 DEF Sizes, Kinds
<1>6. CASE updates' = Append(updates, u)
  <2>1. IsSeq(updates') /\ Len(updates') = Len(updates) + 1
    BY <1>2, <1>6, SeqAppend DEF SeqsOK
  <2>2. SeqsOK'
    BY <1>2, <1>3, <1>4, <2>1 DEF SeqsOK
  <2>3. up + 1 \in Nat /\ Sizes(lo, sv, hv, uv - 1, cm, sd, hd, ud - 1, up + 1)'
    BY <1>1, <1>3, <1>4, <2>1 DEF Sizes, Kinds
  <2>4. Within(pc', lo, sv, hv, uv - 1, cm, sd, hd, ud - 1, up + 1)
    BY <1>1, <1>3, <1>5, Depths DEF Within
  <2> QED
    BY <1>5, <2>2, <2>3, <2>4, Keeps
<1>7. CASE updates' = updates
  <2>1. SeqsOK'
    BY <1>2, <1>3, <1>4, <1>7 DEF SeqsOK
  <2>2. Sizes(lo, sv, hv, uv - 1, cm, sd, hd, ud - 1, up)'
    BY <1>1, <1>3, <1>4, <1>7 DEF Sizes, Kinds
  <2>3. Within(pc', lo, sv, hv, uv - 1, cm, sd, hd, ud - 1, up)
    BY <1>1, <1>3, <1>5, Depths DEF Within
  <2> QED
    BY <1>5, <2>1, <2>2, <2>3, Keeps
<1> QED
  BY <1>6, <1>7 DEF Update

\* The other steps touch none of these streams.
LEMMA OthersKeep ==
  ASSUME LengthsOK, UNCHANGED <<pc, cmds, stream, held, toUpdate, updates>>
  PROVE  LengthsOK'
<1>1. PICK lo, sv, hv, uv, cm, sd, hd, ud, up \in Nat :
        /\ Sizes(lo, sv, hv, uv, cm, sd, hd, ud, up)
        /\ Within(pc, lo, sv, hv, uv, cm, sd, hd, ud, up)
  BY DEF LengthsOK
<1>2. SeqsOK
  BY DEF LengthsOK
<1>3. /\ SeqsOK' /\ Sizes(lo, sv, hv, uv, cm, sd, hd, ud, up)'
      /\ Within(pc', lo, sv, hv, uv, cm, sd, hd, ud, up)
  BY <1>1, <1>2 DEF SeqsOK, Sizes
<1> QED
  BY <1>3, Keeps

LEMMA NextKeeps == LengthsOK /\ [Next]_vars => LengthsOK'
<1>1. SUFFICES ASSUME LengthsOK, [Next]_vars PROVE LengthsOK'
  OBVIOUS
<1>2. CASE Loader
  BY <1>1, <1>2, LookKeeps, SendKeeps, PollKeeps, DiscardKeeps, EndDrainKeeps DEF Loader
<1>3. CASE ReadMemory \/ (\E k \in Kinds : Duplicate(k)) \/ Update
  BY <1>1, <1>3, ReadMemoryKeeps, DuplicateKeeps, UpdateKeeps
<1>4. CASE Pair \/ StartRound \/ Exit \/ UNCHANGED vars
  BY <1>1, <1>4, OthersKeep DEF Pair, StartRound, Exit, vars
<1> QED
  BY <1>1, <1>2, <1>3, <1>4 DEF Next

\* When vcache_update has a lookup in hand, that lookup leaves room for an update.
LEMMA LengthsNeverHeldUp == LengthsOK => NeverHeldUp
<1>1. SUFFICES ASSUME LengthsOK PROVE NeverHeldUp
  OBVIOUS
<1>2. PICK lo, sv, hv, uv, cm, sd, hd, ud, up \in Nat :
        /\ Sizes(lo, sv, hv, uv, cm, sd, hd, ud, up)
        /\ Within(pc, lo, sv, hv, uv, cm, sd, hd, ud, up)
  BY <1>1 DEF LengthsOK
<1>3. Looking = Fetching
  BY <1>2 DEF Looking, Fetching, Sizes, Within
<1>4. ASSUME Both(toUpdate) PROVE Len(updates) < UpdateDepth
  <2>1. ud # 0
    BY <1>1, <1>2, <1>4, SeqTail DEF LengthsOK, SeqsOK, Sizes, Both, Kinds
  <2>2. up < UpdateDepth
    BY <1>2, <2>1, Depths DEF Within
  <2> QED
    BY <1>2, <2>2 DEF Sizes
<1> QED
  BY <1>3, <1>4 DEF NeverHeldUp

\* NeverHeldUp: vcache_update never waits for room for its updates, so that it never
\* holds up the copies, the memory and vertex_loader, which alone makes that room.
THEOREM UpdatesFit == Spec => []NeverHeldUp
<1>1. LengthsOK => NeverHeldUp
  BY LengthsNeverHeldUp
<1> QED
  BY <1>1, InitLengths, NextKeeps, PTL DEF Spec

-----------------------------------------------------------------------------
(* Every vertex is answered with its descriptor, whatever the table holds.  The book    *)
(* remembers of every request whether its lookup missed; the n-th element of every      *)
(* stream, counted from the first request on, belongs to the n-th entry of the book.    *)
Request == [v : DOMAIN Memory, ended : BOOLEAN, last : BOOLEAN]
Entry == [q : Request, missed : BOOLEAN]

VdsFits(e, t) ==
  /\ e.last = t.q.last /\ (e.missed <=> t.missed)
  /\ IF t.missed THEN ~t.q.ended /\ e.vd[1] = t.q.v ELSE e.vd = Service!Descriptor(t.q)
CmdFits(e, t) == e.addr = t.q.v /\ (e.dummy <=> ~t.missed)
DataFits(e, t) == t.missed => e = Memory[t.q.v]

Fits(kind, e, t) ==
  /\ kind = "vds" => VdsFits(e, t)
  /\ kind = "cmd" => CmdFits(e, t)
  /\ kind = "data" => DataFits(e, t)

\* The elements of s belong to the entries of the book behind the n-th.
Run(kind, s, n, book) ==
  /\ n \in Nat /\ n + Len(s) <= Len(book)
  /\ \A i \in 1..Len(s) : Fits(kind, s[i], book[n + i])

\* How many requests have come so far on the way of kind k: into the stream to
\* vcache_duplicate, out of it, past the second copy, and past vcache_update.
Sent(k) == Len(asked) - (IF k = "vds" THEN Len(held["looked"]) ELSE Len(cmds))
Copied(k) == Sent(k) - Len(stream[k])
Passed(k) == Copied(k) - Len(held[k])
Seen(k) == Passed(k) - Len(toUpdate[k])

Booked(book) ==
  /\ Len(book) = Len(asked) /\ \A i \in 1..Len(asked) : book[i].q = asked[i]
  /\ Run("vds", held["looked"], Sent("vds"), book) /\ Run("cmd", cmds, Sent("data"), book)
  /\ \A k \in Kinds :
       /\ Run(k, stream[k], Copied(k), book)
       /\ Run(k, held[k], Passed(k), book)
       /\ Run(k, toUpdate[k], Seen(k), book)
       /\ Run(k, toVd[k], Len(answered), book)
       /\ Copied(k) = Len(answered) + Len(toVd[k])

\* An update, or a line, has the descriptor memory has for its vertex.
UpdateTrue(u) == u.v \in DOMAIN Memory /\ u.vd = Memory[u.v]

CacheTypes ==
  /\ asked \in Seq(Request) /\ IsSeq(answered)
  /\ todo \in Seq([v : DOMAIN Memory, ended : BOOLEAN])
  /\ DOMAIN toVd = Kinds /\ \A k \in Kinds : IsSeq(toVd[k])
  /\ DOMAIN line = 0..(NumLines - 1) /\ \A i \in DOMAIN line : line[i].valid \in BOOLEAN

CacheInv ==
  /\ CacheTypes /\ LinesTrue
  /\ \A i \in 1..Len(updates) : UpdateTrue(updates[i])
  /\ \E book \in Seq(Entry) : Booked(book)

-----------------------------------------------------------------------------
\* Runs: a new request, a write to a stream, a read from it.
LEMMA RunGrow ==
  ASSUME NEW k, NEW s, IsSeq(s), NEW n, NEW book \in Seq(Entry), NEW t \in Entry,
         Run(k, s, n, book)
  PROVE  Run(k, s, n, Append(book, t))
<1>1. /\ Len(book) \in Nat /\ Len(Append(book, t)) = Len(book) + 1 /\ Len(s) \in Nat
      /\ \A j \in 1..Len(book) : Append(book, t)[j] = book[j]
  BY SeqLen
<1>2. \A i \in 1..Len(s) : n + i \in 1..Len(book)
  BY <1>1 DEF Run
<1> QED
  BY <1>1, <1>2 DEF Run

LEMMA RunWrite ==
  ASSUME NEW k, NEW s, IsSeq(s), NEW n, NEW book, Len(book) \in Nat, NEW e,
         Run(k, s, n, book), n + Len(s) + 1 <= Len(book),
         Fits(k, e, book[n + Len(s) + 1])
  PROVE  Run(k, Append(s, e), n, book)
<1>1. PICK S : s \in Seq(S)
  BY DEF IsSeq
<1>2. s \in Seq(S \cup {e})
  BY <1>1
<1>3. /\ Len(s) \in Nat /\ Len(Append(s, e)) = Len(s) + 1 /\ Append(s, e)[Len(s) + 1] = e
      /\ \A i \in 1..Len(s) : Append(s, e)[i] = s[i]
  BY <1>2
<1>4. ASSUME NEW i \in 1..Len(s) + 1 PROVE Fits(k, Append(s, e)[i], book[n + i])
  <2>1. CASE i \in 1..Len(s)
    BY <1>3, <2>1 DEF Run
  <2>2. CASE i = Len(s) + 1
    <3>1. n + i = n + Len(s) + 1
      BY <1>3, <2>2 DEF Run
    <3> QED
      BY <1>3, <2>2, <3>1
  <2> QED
    BY <1>3, <2>1, <2>2
<1> QED
  BY <1>3, <1>4 DEF Run

LEMMA RunRead ==
  ASSUME NEW k, NEW s, IsSeq(s), s # << >>, NEW n, NEW book, Len(book) \in Nat,
         Run(k, s, n, book)
  PROVE  /\ Fits(k, Head(s), book[n + 1]) /\ n + 1 <= Len(book)
         /\ Run(k, Tail(s), n + 1, book)
<1>1. PICK S : s \in Seq(S)
  BY DEF IsSeq
<1>2. /\ Len(s) \in Nat \ {0} /\ Head(s) = s[1] /\ Len(Tail(s)) = Len(s) - 1
      /\ \A i \in 1..Len(s) - 1 : Tail(s)[i] = s[i + 1]
  BY <1>1
<1>3. Fits(k, s[1], book[n + 1]) /\ n \in Nat /\ n + 1 <= Len(book)
  BY <1>2 DEF Run
<1>4. ASSUME NEW i \in 1..Len(s) - 1 PROVE Fits(k, Tail(s)[i], book[n + 1 + i])
  <2>1. Fits(k, s[i + 1], book[n + (i + 1)]) /\ n + (i + 1) = n + 1 + i
    BY <1>2, <1>3 DEF Run
  <2> QED
    BY <1>2, <2>1
<1> QED
  BY <1>2, <1>3, <1>4 DEF Run

LEMMA RunOne ==
  ASSUME NEW k, NEW e, NEW n \in Nat, NEW book, n + 1 <= Len(book), Fits(k, e, book[n + 1])
  PROVE  Run(k, <<e>>, n, book)
BY DEF Run

LEMMA RunNone ==
  ASSUME NEW k, NEW n \in Nat, NEW book, n <= Len(book) PROVE Run(k, << >>, n, book)
BY DEF Run

\* The lengths of the streams, and the lookups of the two ways, as UpdatesFit has them.
LEMMA LengthsKnown ==
  ASSUME LengthsOK
  PROVE  /\ SeqsOK
         /\ Len(held["looked"]) = (IF pc = "send" THEN 1 ELSE 0)
         /\ Len(cmds) \in Nat /\ Len(updates) \in Nat
         /\ \A k \in Kinds : /\ Len(stream[k]) \in Nat /\ Len(held[k]) \in {0, 1}
                             /\ Len(toUpdate[k]) \in Nat
         /\ Looking = Fetching
<1>1. PICK lo, sv, hv, uv, cm, sd, hd, ud, up \in Nat :
        /\ Sizes(lo, sv, hv, uv, cm, sd, hd, ud, up)
        /\ Within(pc, lo, sv, hv, uv, cm, sd, hd, ud, up)
  BY DEF LengthsOK
<1>2. Looking = Fetching
  BY LengthsNeverHeldUp DEF NeverHeldUp
<1>3. SeqsOK
  BY DEF LengthsOK
<1>4. /\ Len(held["looked"]) = (IF pc = "send" THEN 1 ELSE 0)
      /\ Len(cmds) \in Nat /\ Len(updates) \in Nat
      /\ Len(stream["vds"]) \in Nat /\ Len(stream["data"]) \in Nat
      /\ Len(held["vds"]) \in {0, 1} /\ Len(held["data"]) \in {0, 1}
      /\ Len(toUpdate["vds"]) \in Nat /\ Len(toUpdate["data"]) \in Nat
  BY <1>1 DEF Sizes, Within
<1> QED
  BY <1>2, <1>3, <1>4 DEF Kinds

LEMMA EmptyIs == ASSUME NEW s, IsSeq(s), Len(s) = 0 PROVE s = << >>
<1>1. PICK S : s \in Seq(S)
  BY DEF IsSeq
<1> QED
  BY <1>1

\* The way of the answers and the way of the updates have the same number of lookups.
LEMMA SeenBoth == ASSUME LengthsOK, CacheInv PROVE Seen("vds") = Seen("data")
<1>1. /\ Len(held["looked"]) \in Nat /\ Len(cmds) \in Nat /\ Len(asked) \in Nat
      /\ \A k \in Kinds : /\ Len(stream[k]) \in Nat /\ Len(held[k]) \in Nat
                          /\ Len(toUpdate[k]) \in Nat
      /\ Looking = Fetching
  BY LengthsKnown DEF CacheInv, CacheTypes
<1>2. PICK a, l, c \in Nat, sv, hv, uv, sd, hd, ud \in Nat :
        /\ a = Len(asked) /\ l = Len(held["looked"]) /\ c = Len(cmds)
        /\ sv = Len(stream["vds"]) /\ hv = Len(held["vds"]) /\ uv = Len(toUpdate["vds"])
        /\ sd = Len(stream["data"]) /\ hd = Len(held["data"]) /\ ud = Len(toUpdate["data"])
  BY <1>1 DEF Kinds
<1>3. Seen("vds") = a - l - sv - hv - uv
  BY <1>2 DEF Seen, Passed, Copied, Sent
<1>4. Seen("data") = a - c - sd - hd - ud
  BY <1>2 DEF Seen, Passed, Copied, Sent
<1>5. l + sv + hv + uv = c + sd + hd + ud
  BY <1>1, <1>2 DEF Looking, Fetching
<1> QED
  BY <1>3, <1>4, <1>5

-----------------------------------------------------------------------------
\* vertex_loader: what it finds in a line is what memory has.
LEMMA LookFits ==
  ASSUME CacheInv, NEW q \in Request
  PROVE  \E m \in BOOLEAN :
           /\ VdsFits(Looked(q), [q |-> q, missed |-> m])
           /\ CmdFits([addr |-> q.v, dummy |-> Dummy(q), end |-> EndFlag(q)],
                      [q |-> q, missed |-> m])
<1>1. q.ended \in BOOLEAN /\ q.v \in Nat
  BY CacheAssumption DEF Request
<1>2. CASE q.ended
  <2>1. /\ Looked(q) = [vd |-> <<q.v, 0>>, missed |-> FALSE, last |-> q.last]
        /\ Dummy(q) /\ Service!Descriptor(q) = <<q.v, 0>>
    BY <1>2 DEF Looked, Dummy, Service!Descriptor
  <2>4. VdsFits(Looked(q), [q |-> q, missed |-> FALSE])
    BY <1>2, <2>1 DEF VdsFits
  <2>5. CmdFits([addr |-> q.v, dummy |-> Dummy(q), end |-> EndFlag(q)],
                [q |-> q, missed |-> FALSE])
    BY <2>1 DEF CmdFits
  <2> QED
    BY <2>4, <2>5
<1>3. CASE ~q.ended /\ Hit(q)
  <2>1. Index(q.v) \in DOMAIN line
    BY <1>1, CacheAssumption DEF Index, CacheInv, CacheTypes
  <2>2. line[Index(q.v)].vd = Memory[q.v]
    BY <1>3, <2>1 DEF CacheInv, LinesTrue, Hit
  <2>3. /\ Looked(q) = [vd |-> Memory[q.v], missed |-> FALSE, last |-> q.last]
        /\ Dummy(q) /\ Service!Descriptor(q) = Memory[q.v]
    BY <1>3, <2>2 DEF Looked, Dummy, Service!Descriptor
  <2>4. VdsFits(Looked(q), [q |-> q, missed |-> FALSE])
    BY <1>3, <2>3 DEF VdsFits
  <2>5. CmdFits([addr |-> q.v, dummy |-> Dummy(q), end |-> EndFlag(q)],
                [q |-> q, missed |-> FALSE])
    BY <2>3 DEF CmdFits
  <2> QED
    BY <2>4, <2>5
<1>4. CASE ~q.ended /\ ~Hit(q)
  <2>1. PICK n : Looked(q) = [vd |-> <<q.v, n>>, missed |-> TRUE, last |-> q.last]
    BY <1>4 DEF Looked
  <2>2. ~Dummy(q)
    BY <1>4 DEF Dummy
  <2>4. VdsFits(Looked(q), [q |-> q, missed |-> TRUE])
    BY <1>4, <2>1 DEF VdsFits
  <2>5. CmdFits([addr |-> q.v, dummy |-> Dummy(q), end |-> EndFlag(q)],
                [q |-> q, missed |-> TRUE])
    BY <2>2 DEF CmdFits
  <2> QED
    BY <2>4, <2>5
<1> QED
  BY <1>2, <1>3, <1>4

LEMMA LookBooks ==
  ASSUME LengthsOK, LengthsOK', CacheInv, Look
  PROVE  CacheInv' /\ \E q \in Request : asked' = Append(asked, q)
<1>1. PICK q : /\ q = [v |-> Head(todo).v, ended |-> Head(todo).ended, last |-> Len(todo) = 1]
               /\ asked' = Append(asked, q)
               /\ cmds' = Append(cmds, [addr |-> q.v, dummy |-> Dummy(q), end |-> EndFlag(q)])
               /\ held' = [held EXCEPT !["looked"] = <<Looked(q)>>]
  BY DEF Look
<1>2. /\ pc = "check" /\ todo # << >> /\ todo' = Tail(todo)
      /\ UNCHANGED <<answered, line, stream, toVd, toUpdate, updates>>
  BY DEF Look
<1>3. q \in Request /\ todo' \in Seq([v : DOMAIN Memory, ended : BOOLEAN])
  <2>1. Head(todo) \in [v : DOMAIN Memory, ended : BOOLEAN]
        /\ Tail(todo) \in Seq([v : DOMAIN Memory, ended : BOOLEAN])
    <3> DEFINE T == [v : DOMAIN Memory, ended : BOOLEAN]
    <3>1. todo \in Seq(T)
      BY DEF CacheInv, CacheTypes
    <3> HIDE DEF T
    <3>2. Head(todo) \in T /\ Tail(todo) \in Seq(T)
      BY <1>2, <3>1
    <3> QED
      BY <3>2 DEF T
  <2> QED
    BY <1>1, <1>2, <2>1 DEF Request
<1>m. PICK m \in BOOLEAN :
        /\ VdsFits(Looked(q), [q |-> q, missed |-> m])
        /\ CmdFits([addr |-> q.v, dummy |-> Dummy(q), end |-> EndFlag(q)],
                   [q |-> q, missed |-> m])
  BY <1>3, LookFits
<1> DEFINE t == [q |-> q, missed |-> m]
           c == [addr |-> q.v, dummy |-> Dummy(q), end |-> EndFlag(q)]
<1>4. /\ asked \in Seq(Request) /\ asked' \in Seq(Request) /\ Len(asked) \in Nat
      /\ Len(asked') = Len(asked) + 1 /\ asked'[Len(asked) + 1] = q
      /\ \A i \in 1..Len(asked) : asked'[i] = asked[i]
  BY <1>1, <1>3 DEF CacheInv, CacheTypes
<1>5. /\ SeqsOK /\ Len(held["looked"]) = 0 /\ Len(cmds) \in Nat
      /\ \A k \in Kinds : /\ Len(stream[k]) \in Nat /\ Len(held[k]) \in Nat
                          /\ Len(toUpdate[k]) \in Nat
  BY <1>2, LengthsKnown
<1>6. t \in Entry /\ t.q = q
  BY <1>3 DEF Entry
<1>7. Fits("vds", Looked(q), t) /\ Fits("cmd", c, t)
  BY <1>m DEF Fits
<1> HIDE DEF t, c
<1>8. PICK book \in Seq(Entry) : Booked(book)
  BY DEF CacheInv
<1> DEFINE more == Append(book, t)
<1>9. /\ more \in Seq(Entry) /\ Len(more) = Len(asked) + 1 /\ Len(book) = Len(asked)
      /\ more[Len(asked) + 1] = t /\ \A i \in 1..Len(asked) : more[i] = book[i]
  BY <1>4, <1>6, <1>8 DEF Booked
<1> HIDE DEF more
<1>10. /\ held'["looked"] = <<Looked(q)>> /\ held'["vds"] = held["vds"]
       /\ held'["data"] = held["data"] /\ Len(held'["looked"]) = 1
  BY <1>1, <1>5 DEF SeqsOK, Kinds
<1>11. cmds' = Append(cmds, c) /\ Len(cmds') = Len(cmds) + 1
  BY <1>1, <1>5, SeqAppend DEF SeqsOK, c
<1>12. Sent("vds")' = Sent("vds") /\ Sent("data")' = Sent("data") /\ Sent("vds") = Len(asked)
       /\ Sent("data") + Len(cmds) = Len(asked)
  BY <1>4, <1>5, <1>10, <1>11 DEF Sent
<1>13. \A k \in Kinds : /\ Copied(k)' = Copied(k) /\ Passed(k)' = Passed(k)
                        /\ Seen(k)' = Seen(k) /\ held'[k] = held[k]
  BY <1>2, <1>10, <1>12 DEF Copied, Passed, Seen, Kinds
<1>14. Run("vds", held'["looked"], Sent("vds")', more)
  BY <1>4, <1>7, <1>9, <1>10, <1>12, RunOne
<1>15. Run("cmd", cmds', Sent("data")', more)
  <2>1. Run("cmd", cmds, Sent("data"), more)
    BY <1>5, <1>6, <1>8, RunGrow DEF Booked, SeqsOK, more
  <2> QED
    BY <2>1, <1>4, <1>5, <1>7, <1>9, <1>11, <1>12, RunWrite DEF SeqsOK
<1>16. \A k \in Kinds :
         /\ Run(k, stream[k], Copied(k), more) /\ Run(k, held[k], Passed(k), more)
         /\ Run(k, toUpdate[k], Seen(k), more) /\ Run(k, toVd[k], Len(answered), more)
         /\ Copied(k) = Len(answered) + Len(toVd[k])
  BY <1>5, <1>6, <1>8, RunGrow DEF Booked, SeqsOK, CacheInv, CacheTypes, more
<1>17. \A i \in 1..Len(asked') : more[i].q = asked'[i]
  BY <1>4, <1>6, <1>8, <1>9 DEF Booked
<1>18. Booked(more)'
  BY <1>2, <1>4, <1>9, <1>13, <1>14, <1>15, <1>16, <1>17 DEF Booked
<1>19. CacheTypes' /\ LinesTrue' /\ \A i \in 1..Len(updates') : UpdateTrue(updates'[i])
  BY <1>2, <1>3, <1>4 DEF CacheInv, CacheTypes, LinesTrue, Index
<1> QED
  BY <1>1, <1>3, <1>9, <1>18, <1>19 DEF CacheInv, UpdateTrue

\* The positions are numbers, and each stream spans the way from one to the next.
LEMMA BookKnown ==
  ASSUME LengthsOK, CacheInv, NEW book \in Seq(Entry), Booked(book)
  PROVE  /\ Len(book) = Len(asked) /\ Len(asked) \in Nat /\ Len(answered) \in Nat
         /\ Sent("vds") + Len(held["looked"]) = Len(asked)
         /\ Sent("data") + Len(cmds) = Len(asked)
         /\ Len(held["looked"]) \in Nat /\ Len(cmds) \in Nat
         /\ \A k \in Kinds :
              /\ Sent(k) \in Nat /\ Copied(k) \in Nat /\ Passed(k) \in Nat /\ Seen(k) \in Nat
              /\ Len(stream[k]) \in Nat /\ Len(held[k]) \in {0, 1} /\ Len(toUpdate[k]) \in Nat
              /\ Len(toVd[k]) \in Nat /\ Sent(k) <= Len(asked)
              /\ Copied(k) + Len(stream[k]) = Sent(k) /\ Passed(k) + Len(held[k]) = Copied(k)
              /\ Seen(k) + Len(toUpdate[k]) = Passed(k)
              /\ Copied(k) = Len(answered) + Len(toVd[k])
<1>1. /\ Len(book) = Len(asked) /\ Len(asked) \in Nat /\ Len(answered) \in Nat
      /\ Len(held["looked"]) \in Nat /\ Len(cmds) \in Nat
      /\ \A k \in Kinds : Len(toVd[k]) \in Nat
  BY LengthsKnown, SeqLen DEF CacheInv, CacheTypes, Booked
<1>2. \A k \in Kinds : /\ Len(stream[k]) \in Nat /\ Len(held[k]) \in {0, 1}
                       /\ Len(toUpdate[k]) \in Nat
  BY LengthsKnown
<1>3. /\ Sent("vds") + Len(held["looked"]) = Len(asked)
      /\ Sent("data") + Len(cmds) = Len(asked)
      /\ Sent("vds") \in Nat /\ Sent("data") \in Nat
  BY <1>1 DEF Booked, Run, Sent
<1>4. ASSUME NEW k \in Kinds
      PROVE  /\ Sent(k) \in Nat /\ Copied(k) \in Nat /\ Passed(k) \in Nat /\ Seen(k) \in Nat
             /\ Sent(k) <= Len(asked)
             /\ Copied(k) = Len(answered) + Len(toVd[k])
  <2>1. Copied(k) \in Nat /\ Passed(k) \in Nat /\ Seen(k) \in Nat
    BY DEF Booked, Run
  <2>2. Copied(k) = Len(answered) + Len(toVd[k])
    BY DEF Booked
  <2>3. Sent(k) \in Nat /\ Sent(k) <= Len(asked)
    <3>1. CASE k = "vds"
      BY <1>1, <1>3, <3>1
    <3>2. CASE k = "data"
      BY <1>1, <1>3, <3>2
    <3> QED
      BY <3>1, <3>2 DEF Kinds
  <2> QED
    BY <2>1, <2>2, <2>3
<1>5. ASSUME NEW k \in Kinds
      PROVE  /\ Copied(k) + Len(stream[k]) = Sent(k) /\ Passed(k) + Len(held[k]) = Copied(k)
             /\ Seen(k) + Len(toUpdate[k]) = Passed(k)
  <2>1. PICK a, b, c \in Nat : a = Len(stream[k]) /\ b = Len(held[k]) /\ c = Len(toUpdate[k])
    BY <1>2
  <2>2. Copied(k) = Sent(k) - a /\ Passed(k) = Copied(k) - b /\ Seen(k) = Passed(k) - c
    BY <2>1 DEF Copied, Passed, Seen
  <2>3. Sent(k) \in Nat /\ Copied(k) \in Nat /\ Passed(k) \in Nat /\ Seen(k) \in Nat
    BY <1>4
  <2>4. Copied(k) + a = Sent(k) /\ Passed(k) + b = Copied(k) /\ Seen(k) + c = Passed(k)
    <3>1. \A m, n, d \in Nat : m = n - d => m + d = n
      OBVIOUS
    <3>2. a \in Nat /\ b \in Nat /\ c \in Nat
      BY <2>1
    <3> QED
      BY <2>2, <2>3, <3>1, <3>2
  <2> QED
    BY <2>1, <2>4
<1> QED
  BY <1>1, <1>2, <1>3, <1>4, <1>5

LEMMA SendBooks == ASSUME LengthsOK, CacheInv, Send PROVE CacheInv'
<1>1. PICK x : /\ x = Head(held["looked"])
               /\ stream' = [stream EXCEPT !["vds"] = Append(@, x)]
               /\ held' = [held EXCEPT !["looked"] = << >>]
  <2>1. Len(held["looked"]) = 1 /\ IsSeq(held["looked"])
    BY LengthsKnown DEF Send, SeqsOK
  <2>2. held["looked"][1] = Head(held["looked"])
    BY <2>1 DEF IsSeq
  <2>3. /\ stream' = [stream EXCEPT !["vds"] = Append(@, held["looked"][1])]
        /\ held' = [held EXCEPT !["looked"] = << >>]
    BY DEF Send
  <2> QED
    BY <2>2, <2>3
<1>2. UNCHANGED <<asked, answered, todo, line, cmds, toVd, toUpdate, updates>>
  BY DEF Send
<1>3. SeqsOK /\ Len(held["looked"]) = 1 /\ held["looked"] # << >>
  <2>1. SeqsOK /\ Len(held["looked"]) = 1
    BY LengthsKnown DEF Send
  <2> QED
    BY <2>1, SeqSmall
<1>4. PICK book \in Seq(Entry) : Booked(book)
  BY DEF CacheInv
<1>5. /\ stream'["vds"] = Append(stream["vds"], x) /\ stream'["data"] = stream["data"]
      /\ Len(stream'["vds"]) = Len(stream["vds"]) + 1
      /\ held'["looked"] = << >> /\ held'["vds"] = held["vds"] /\ held'["data"] = held["data"]
      /\ Len(held'["looked"]) = 0
  BY <1>1, <1>3, SeqAppend, SeqSmall DEF SeqsOK, Kinds
<1>6. /\ Sent("vds")' = Len(asked) /\ Sent("vds") + 1 = Len(asked)
      /\ Sent("data")' = Sent("data")
      /\ Len(asked) \in Nat /\ Len(book) = Len(asked)
      /\ Copied("vds") + Len(stream["vds"]) = Sent("vds") /\ Copied("vds") \in Nat
      /\ Len(stream["vds"]) \in Nat /\ Sent("vds") \in Nat
  BY <1>2, <1>3, <1>4, <1>5, BookKnown DEF Sent, Kinds
<1>7. Copied("vds")' = Copied("vds") /\ Copied("data")' = Copied("data")
  <2>1. Copied("data")' = Copied("data")
    BY <1>5, <1>6 DEF Copied
  <2>2. PICK a \in Nat : a = Len(stream["vds"]) /\ Len(stream'["vds"]) = a + 1
    BY <1>5, <1>6
  <2>3. Copied("vds") = Sent("vds") - a /\ Copied("vds")' = Sent("vds")' - (a + 1)
    BY <2>2 DEF Copied
  <2> QED
    BY <1>6, <2>1, <2>3
<1>8. \A k \in Kinds : /\ Copied(k)' = Copied(k) /\ Passed(k)' = Passed(k)
                       /\ Seen(k)' = Seen(k) /\ held'[k] = held[k]
  BY <1>2, <1>5, <1>7 DEF Passed, Seen, Kinds
<1>9. Fits("vds", x, book[Sent("vds") + 1])
  BY <1>1, <1>3, <1>4, <1>6, RunRead DEF Booked, SeqsOK
<1>10. Run("vds", stream'["vds"], Copied("vds"), book)
  <2>1. Run("vds", stream["vds"], Copied("vds"), book) /\ IsSeq(stream["vds"])
    BY <1>3, <1>4 DEF Booked, SeqsOK, Kinds
  <2> QED
    BY <2>1, <1>5, <1>6, <1>9, RunWrite
<1>11. Run("vds", held'["looked"], Sent("vds")', book)
  BY <1>5, <1>6, RunNone
<1>12. \A k \in Kinds : Run(k, stream'[k], Copied(k), book)
  BY <1>4, <1>5, <1>10 DEF Booked, Kinds
<1>13. Booked(book)'
  BY <1>2, <1>4, <1>6, <1>8, <1>11, <1>12 DEF Booked
<1> QED
  BY <1>2, <1>4, <1>13 DEF CacheInv, CacheTypes, LinesTrue, Index, UpdateTrue

\* The table and the updates change, the ways of the lookups do not.
LEMMA TableBooks ==
  ASSUME LengthsOK, CacheInv,
         UNCHANGED <<asked, answered, todo, cmds, stream, held, toVd, toUpdate>>,
         DOMAIN line' = DOMAIN line, \A i \in DOMAIN line' : line'[i].valid \in BOOLEAN,
         LinesTrue', \A i \in 1..Len(updates') : UpdateTrue(updates'[i])
  PROVE  CacheInv'
<1>1. PICK book \in Seq(Entry) : Booked(book)
  BY DEF CacheInv
<1>2. Booked(book)'
  BY <1>1 DEF Booked, Sent, Copied, Passed, Seen
<1> QED
  BY <1>1, <1>2 DEF CacheInv, CacheTypes, UpdateTrue

LEMMA TakeUpdate ==
  ASSUME IsSeq(updates), updates # << >>, \A i \in 1..Len(updates) : UpdateTrue(updates[i])
  PROVE  /\ UpdateTrue(Head(updates))
         /\ \A i \in 1..Len(Tail(updates)) : UpdateTrue(Tail(updates)[i])
<1>1. PICK S : updates \in Seq(S)
  BY DEF IsSeq
<1>2. /\ Len(updates) \in Nat \ {0} /\ Head(updates) = updates[1]
      /\ Len(Tail(updates)) = Len(updates) - 1
      /\ \A i \in 1..Len(updates) - 1 : Tail(updates)[i] = updates[i + 1]
  BY <1>1
<1> QED
  BY <1>2

LEMMA PollBooks == ASSUME LengthsOK, CacheInv, Poll PROVE CacheInv'
<1>1. UNCHANGED <<asked, answered, todo, cmds, stream, held, toVd, toUpdate>>
  BY DEF Poll
<1>2. IsSeq(updates) /\ \A i \in 1..Len(updates) : UpdateTrue(updates[i])
  BY LengthsKnown DEF SeqsOK, CacheInv
<1>3. CASE updates = << >>
  <2>1. UNCHANGED <<updates, line>>
    BY <1>3 DEF Poll
  <2> QED
    BY <1>1, <2>1, TableBooks DEF CacheInv, CacheTypes, LinesTrue, Index
<1>4. CASE updates # << >>
  <2>1. PICK u : u = Head(updates) /\ updates' = Tail(updates)
                 /\ line' = [line EXCEPT ![Index(u.v)] = Filled(u)]
    BY <1>4 DEF Poll
  <2>2. UpdateTrue(u) /\ \A i \in 1..Len(updates') : UpdateTrue(updates'[i])
    BY <1>2, <1>4, <2>1, TakeUpdate
  <2>3. DOMAIN line' = DOMAIN line
    BY <2>1
  <2>4. ASSUME NEW i \in DOMAIN line'
        PROVE  /\ line'[i].valid \in BOOLEAN
               /\ line'[i].valid => Index(line'[i].v) = i /\ line'[i].vd = Memory[line'[i].v]
    <3>1. CASE i = Index(u.v)
      <4>1. line'[i] = Filled(u)
        BY <2>1, <2>3, <3>1
      <4> QED
        BY <2>2, <3>1, <4>1 DEF Filled, UpdateTrue
    <3>2. CASE i # Index(u.v)
      <4>1. line'[i] = line[i]
        BY <2>1, <2>3, <3>2
      <4> QED
        BY <2>3, <4>1 DEF CacheInv, CacheTypes, LinesTrue
    <3> QED
      BY <3>1, <3>2
  <2>5. LinesTrue'
    BY <2>4 DEF LinesTrue, Index
  <2> QED
    BY <1>1, <2>2, <2>3, <2>4, <2>5, TableBooks
<1> QED
  BY <1>3, <1>4

LEMMA DiscardBooks == ASSUME LengthsOK, CacheInv, Discard PROVE CacheInv'
<1>1. /\ UNCHANGED <<asked, answered, todo, line, cmds, stream, held, toVd, toUpdate>>
      /\ updates # << >> /\ updates' = Tail(updates)
  BY DEF Discard
<1>2. \A i \in 1..Len(updates') : UpdateTrue(updates'[i])
  BY <1>1, TakeUpdate, LengthsKnown DEF SeqsOK, CacheInv
<1> QED
  BY <1>1, <1>2, TableBooks DEF CacheInv, CacheTypes, LinesTrue, Index

LEMMA EndDrainBooks == ASSUME LengthsOK, CacheInv, EndDrain PROVE CacheInv'
<1>1. /\ UNCHANGED <<asked, answered, todo, cmds, stream, held, toVd, toUpdate, updates>>
      /\ line' = Cleared
  BY DEF EndDrain
<1>2. DOMAIN line' = DOMAIN line /\ \A i \in DOMAIN line' : line'[i].valid = FALSE
  BY <1>1 DEF Cleared, NoLine, CacheInv, CacheTypes
<1> QED
  BY <1>1, <1>2, TableBooks DEF CacheInv, LinesTrue, UpdateTrue

\* The memory engine moves the head of the commands on as data.
LEMMA ReadBooks == ASSUME LengthsOK, CacheInv, ReadMemory PROVE CacheInv'
<1>1. PICK c, d : /\ c = Head(cmds) /\ d = (IF c.dummy THEN <<0, 0>> ELSE Memory[c.addr])
                  /\ stream' = [stream EXCEPT !["data"] = Append(@, d)]
  BY DEF ReadMemory
<1>2. /\ cmds # << >> /\ cmds' = Tail(cmds)
      /\ UNCHANGED <<asked, answered, todo, line, held, toVd, toUpdate, updates>>
  BY DEF ReadMemory
<1>3. SeqsOK
  BY LengthsKnown
<1>4. PICK book \in Seq(Entry) : Booked(book)
  BY DEF CacheInv
<1>5. /\ stream'["data"] = Append(stream["data"], d) /\ stream'["vds"] = stream["vds"]
      /\ Len(stream'["data"]) = Len(stream["data"]) + 1 /\ Len(stream["data"]) \in Nat
      /\ Len(cmds') = Len(cmds) - 1 /\ Len(cmds) \in Nat \ {0}
  BY <1>1, <1>2, <1>3, SeqAppend, SeqTail DEF SeqsOK, Kinds
<1>6. /\ Len(book) = Len(asked) /\ Len(asked) \in Nat
      /\ Sent("data") + Len(cmds) = Len(asked) /\ Sent("data") \in Nat
      /\ Copied("data") + Len(stream["data"]) = Sent("data") /\ Copied("data") \in Nat
  BY <1>4, BookKnown DEF Kinds
<1>7. Sent("data")' = Sent("data") + 1 /\ Sent("vds")' = Sent("vds")
  <2>1. Sent("data")' = Len(asked) - (Len(cmds) - 1)
    BY <1>2, <1>5 DEF Sent
  <2>2. Sent("vds")' = Sent("vds")
    BY <1>2 DEF Sent
  <2> QED
    BY <1>5, <1>6, <2>1, <2>2
<1>8. Copied("data")' = Copied("data") /\ Copied("vds")' = Copied("vds")
  <2>1. Copied("vds")' = Copied("vds")
    BY <1>5, <1>7 DEF Copied
  <2>2. Copied("data")' = Sent("data")' - Len(stream'["data"])
    BY DEF Copied
  <2>3. PICK a, m, n \in Nat :
          /\ a = Len(stream["data"]) /\ m = Copied("data") /\ n = Sent("data")
          /\ Len(stream'["data"]) = a + 1 /\ Sent("data")' = n + 1
    BY <1>5, <1>6, <1>7
  <2>4. Copied("data")' = n + 1 - (a + 1) /\ m + a = n
    BY <1>6, <2>2, <2>3
  <2> QED
    BY <2>1, <2>3, <2>4
<1>9. \A k \in Kinds : /\ Copied(k)' = Copied(k) /\ Passed(k)' = Passed(k)
                       /\ Seen(k)' = Seen(k)
  BY <1>2, <1>8 DEF Passed, Seen, Kinds
<1>10. /\ Fits("cmd", c, book[Sent("data") + 1]) /\ Sent("data") + 1 <= Len(book)
       /\ Run("cmd", cmds', Sent("data") + 1, book)
  BY <1>1, <1>2, <1>3, <1>4, <1>6, RunRead DEF Booked, SeqsOK
<1>11. Fits("data", d, book[Sent("data") + 1])
  BY <1>1, <1>10 DEF Fits, CmdFits, DataFits
<1>12. Run("data", stream'["data"], Copied("data"), book)
  <2>1. Run("data", stream["data"], Copied("data"), book) /\ IsSeq(stream["data"])
    BY <1>3, <1>4 DEF Booked, SeqsOK, Kinds
  <2> QED
    BY <2>1, <1>5, <1>6, <1>10, <1>11, RunWrite
<1>13. \A k \in Kinds : Run(k, stream'[k], Copied(k), book)
  BY <1>4, <1>5, <1>12 DEF Booked, Kinds
<1>14. Booked(book)'
  BY <1>2, <1>4, <1>7, <1>9, <1>10, <1>13 DEF Booked
<1> QED
  BY <1>2, <1>4, <1>14 DEF CacheInv, CacheTypes, LinesTrue, Index, UpdateTrue

\* vcache_duplicate writes the first copy, for vcache_vd, and keeps the second.
LEMMA FirstCopyBooks ==
  ASSUME LengthsOK, CacheInv, NEW k \in Kinds, held[k] = << >>, stream[k] # << >>,
         toVd' = [toVd EXCEPT ![k] = Append(@, Head(stream[k]))],
         held' = [held EXCEPT ![k] = <<Head(stream[k])>>],
         stream' = [stream EXCEPT ![k] = Tail(@)],
         UNCHANGED <<asked, answered, todo, line, cmds, toUpdate, updates>>
  PROVE  CacheInv'
<1>1. PICK x : x = Head(stream[k])
  OBVIOUS
<1>2. SeqsOK /\ IsSeq(toVd[k]) /\ DOMAIN toVd = Kinds
  BY LengthsKnown DEF CacheInv, CacheTypes
<1>3. PICK book \in Seq(Entry) : Booked(book)
  BY DEF CacheInv
<1>4. /\ toVd'[k] = Append(toVd[k], x) /\ stream'[k] = Tail(stream[k]) /\ held'[k] = <<x>>
      /\ DOMAIN toVd' = Kinds
      /\ \A j \in Kinds \ {k} : /\ toVd'[j] = toVd[j] /\ stream'[j] = stream[j]
                                /\ held'[j] = held[j]
      /\ held'["looked"] = held["looked"]
  BY <1>1, <1>2 DEF SeqsOK, Kinds
<1>5. /\ IsSeq(toVd'[k]) /\ Len(toVd'[k]) = Len(toVd[k]) + 1
      /\ Len(stream'[k]) = Len(stream[k]) - 1 /\ Len(stream[k]) \in Nat \ {0}
      /\ Len(held[k]) = 0 /\ Len(held'[k]) = 1
  BY <1>2, <1>4, SeqAppend, SeqTail, SeqSmall DEF SeqsOK
<1>6. /\ Len(book) = Len(asked) /\ Len(asked) \in Nat /\ Len(answered) \in Nat
      /\ Sent(k) \in Nat /\ Copied(k) \in Nat /\ Passed(k) \in Nat
      /\ Len(toVd[k]) \in Nat /\ Sent(k) <= Len(asked)
      /\ Copied(k) + Len(stream[k]) = Sent(k) /\ Passed(k) + Len(held[k]) = Copied(k)
      /\ Copied(k) = Len(answered) + Len(toVd[k])
  BY <1>3, BookKnown
<1>7. \A j \in Kinds : Sent(j)' = Sent(j)
  <2>1. held'["looked"] = held["looked"] /\ cmds' = cmds /\ asked' = asked
    BY <1>4
  <2> QED
    BY ONLY <2>1 DEF Sent
<1>8. Copied(k)' = Copied(k) + 1 /\ \A j \in Kinds \ {k} : Copied(j)' = Copied(j)
  <2>1. Copied(k)' = Sent(k)' - Len(stream'[k])
    BY DEF Copied
  <2>2. PICK a, m, n \in Nat :
          /\ a = Len(stream[k]) /\ m = Copied(k) /\ n = Sent(k)
          /\ Len(stream'[k]) = a - 1 /\ Sent(k)' = n
    BY <1>5, <1>6, <1>7
  <2>4. Copied(k)' = n - (a - 1) /\ m + a = n
    BY <1>6, <2>1, <2>2
  <2>3. Copied(k)' = Copied(k) + 1
    BY <2>2, <2>4
  <2> QED
    BY <1>4, <1>7, <2>3 DEF Copied
<1>9. \A j \in Kinds : Passed(j)' = Passed(j) /\ Seen(j)' = Seen(j)
  <2>0. Passed(k)' = Copied(k)' - Len(held'[k])
    BY DEF Passed
  <2>1. PICK m \in Nat : m = Copied(k) /\ Copied(k)' = m + 1 /\ Passed(k) = m
    BY <1>5, <1>6, <1>8
  <2>2. Passed(k)' = Passed(k)
    BY <1>5, <2>0, <2>1
  <2>3. \A j \in Kinds : Passed(j)' = Passed(j)
    BY <1>4, <1>8, <2>2 DEF Passed
  <2> QED
    BY <2>3 DEF Seen
<1>10. /\ Fits(k, x, book[Copied(k) + 1]) /\ Copied(k) + 1 <= Len(book)
       /\ Run(k, stream'[k], Copied(k) + 1, book)
  BY <1>1, <1>2, <1>3, <1>4, <1>6, RunRead DEF Booked, SeqsOK
<1>11. Run(k, held'[k], Copied(k), book) /\ Passed(k) = Copied(k)
  BY <1>4, <1>5, <1>6, <1>10, RunOne
<1>12. Run(k, toVd'[k], Len(answered), book)
  <2>1. Run(k, toVd[k], Len(answered), book)
    BY <1>3 DEF Booked
  <2> QED
    BY <2>1, <1>2, <1>4, <1>6, <1>10, RunWrite
<1>13. \A j \in Kinds :
         /\ Run(j, stream'[j], Copied(j)', book) /\ Run(j, held'[j], Passed(j), book)
         /\ Run(j, toUpdate[j], Seen(j), book) /\ Run(j, toVd'[j], Len(answered), book)
         /\ Copied(j)' = Len(answered) + Len(toVd'[j])
  <2> SUFFICES ASSUME NEW j \in Kinds
               PROVE  /\ Run(j, stream'[j], Copied(j)', book)
                      /\ Run(j, held'[j], Passed(j), book)
                      /\ Run(j, toUpdate[j], Seen(j), book)
                      /\ Run(j, toVd'[j], Len(answered), book)
                      /\ Copied(j)' = Len(answered) + Len(toVd'[j])
    OBVIOUS
  <2>1. CASE j = k
    <3>1. Copied(k) + 1 = Len(answered) + (Len(toVd[k]) + 1)
      BY <1>6
    <3> QED
      BY <2>1, <1>3, <1>5, <1>8, <1>10, <1>11, <1>12, <3>1 DEF Booked
  <2>2. CASE j # k
    BY <2>2, <1>3, <1>4, <1>8 DEF Booked
  <2> QED
    BY <2>1, <2>2
<1>14. /\ Run("vds", held'["looked"], Sent("vds")', book)
       /\ Run("cmd", cmds', Sent("data")', book)
  BY <1>3, <1>4, <1>7 DEF Booked, Kinds
<1>15. Booked(book)'
  BY <1>3, <1>9, <1>13, <1>14 DEF Booked
<1>16. \A j \in Kinds : IsSeq(toVd'[j])
  BY <1>4, <1>5 DEF CacheInv, CacheTypes
<1> QED
  BY <1>3, <1>4, <1>15, <1>16 DEF CacheInv, CacheTypes, LinesTrue, Index, UpdateTrue

\* vcache_duplicate writes the copy it has kept, for vcache_update.
LEMMA SecondCopyBooks ==
  ASSUME LengthsOK, CacheInv, NEW k \in Kinds, held[k] # << >>,
         toUpdate' = [toUpdate EXCEPT ![k] = Append(@, held[k][1])],
         held' = [held EXCEPT ![k] = << >>],
         UNCHANGED <<asked, answered, todo, line, cmds, stream, toVd, updates>>
  PROVE  CacheInv'
<1>1. PICK x : x = held[k][1]
  OBVIOUS
<1>2. SeqsOK /\ IsSeq(toUpdate[k]) /\ IsSeq(held[k])
  BY LengthsKnown DEF SeqsOK
<1>3. PICK book \in Seq(Entry) : Booked(book)
  BY DEF CacheInv
<1>4. /\ toUpdate'[k] = Append(toUpdate[k], x) /\ held'[k] = << >>
      /\ \A j \in Kinds \ {k} : toUpdate'[j] = toUpdate[j] /\ held'[j] = held[j]
      /\ held'["looked"] = held["looked"]
  BY <1>1, <1>2 DEF SeqsOK, Kinds
<1>5. /\ Len(toUpdate'[k]) = Len(toUpdate[k]) + 1 /\ Len(held[k]) = 1 /\ Len(held'[k]) = 0
  <2>1. Len(held[k]) # 0 /\ Len(held[k]) \in {0, 1}
    BY <1>2, EmptyIs, LengthsKnown
  <2> QED
    BY <1>2, <1>4, <2>1, SeqAppend
<1>6. /\ Len(book) = Len(asked) /\ Len(asked) \in Nat
      /\ Copied(k) \in Nat /\ Passed(k) \in Nat /\ Seen(k) \in Nat /\ Len(toUpdate[k]) \in Nat
      /\ Passed(k) + Len(held[k]) = Copied(k) /\ Seen(k) + Len(toUpdate[k]) = Passed(k)
      /\ Sent(k) <= Len(asked) /\ Copied(k) + Len(stream[k]) = Sent(k) /\ Len(stream[k]) \in Nat
      /\ Sent(k) \in Nat
  BY <1>3, BookKnown
<1>7. \A j \in Kinds : Sent(j)' = Sent(j) /\ Copied(j)' = Copied(j)
  BY <1>4 DEF Sent, Copied
<1>8. Passed(k)' = Passed(k) + 1 /\ \A j \in Kinds \ {k} : Passed(j)' = Passed(j)
  <2>1. Passed(k)' = Copied(k) - 0
    BY <1>5, <1>7 DEF Passed
  <2>2. Passed(k)' = Passed(k) + 1
    BY <1>5, <1>6, <2>1
  <2> QED
    BY <1>4, <1>7, <2>2 DEF Passed
<1>9. \A j \in Kinds : Seen(j)' = Seen(j)
  <2>0. Seen(k)' = Passed(k)' - Len(toUpdate'[k])
    BY DEF Seen
  <2>1. PICK a, m, n \in Nat :
          /\ a = Len(toUpdate[k]) /\ m = Seen(k) /\ n = Passed(k)
          /\ Len(toUpdate'[k]) = a + 1 /\ Passed(k)' = n + 1
    BY <1>5, <1>6, <1>8
  <2>3. Seen(k)' = n + 1 - (a + 1) /\ m + a = n
    BY <1>6, <2>0, <2>1
  <2>2. Seen(k)' = Seen(k)
    BY <2>1, <2>3
  <2> QED
    BY <1>4, <1>8, <2>2 DEF Seen
<1>10. Fits(k, x, book[Passed(k) + 1]) /\ Passed(k) + 1 <= Len(book)
  <2>1. Run(k, held[k], Passed(k), book) /\ 1 \in 1..Len(held[k])
    BY <1>3, <1>5 DEF Booked
  <2> QED
    BY <1>1, <1>5, <2>1 DEF Run
<1>11. Run(k, toUpdate'[k], Seen(k), book)
  <2>1. Run(k, toUpdate[k], Seen(k), book)
    BY <1>3 DEF Booked
  <2> QED
    BY <2>1, <1>2, <1>4, <1>6, <1>10, RunWrite
<1>12. Run(k, << >>, Passed(k) + 1, book)
  BY <1>6, <1>10, RunNone
<1>13. \A j \in Kinds :
         /\ Run(j, stream[j], Copied(j), book) /\ Run(j, held'[j], Passed(j)', book)
         /\ Run(j, toUpdate'[j], Seen(j), book) /\ Run(j, toVd[j], Len(answered), book)
         /\ Copied(j) = Len(answered) + Len(toVd[j])
  <2> SUFFICES ASSUME NEW j \in Kinds
               PROVE  /\ Run(j, stream[j], Copied(j), book)
                      /\ Run(j, held'[j], Passed(j)', book)
                      /\ Run(j, toUpdate'[j], Seen(j), book)
                      /\ Run(j, toVd[j], Len(answered), book)
                      /\ Copied(j) = Len(answered) + Len(toVd[j])
    OBVIOUS
  <2>1. CASE j = k
    BY <2>1, <1>3, <1>4, <1>8, <1>11, <1>12 DEF Booked
  <2>2. CASE j # k
    BY <2>2, <1>3, <1>4, <1>8 DEF Booked
  <2> QED
    BY <2>1, <2>2
<1>14. /\ Run("vds", held'["looked"], Sent("vds")', book)
       /\ Run("cmd", cmds', Sent("data")', book)
  BY <1>3, <1>4, <1>7 DEF Booked, Kinds
<1>15. Booked(book)'
  BY <1>3, <1>7, <1>9, <1>13, <1>14 DEF Booked
<1> QED
  BY <1>3, <1>4, <1>15 DEF CacheInv, CacheTypes, LinesTrue, Index, UpdateTrue

LEMMA DuplicateBooks ==
  ASSUME LengthsOK, CacheInv, NEW k \in Kinds, Duplicate(k) PROVE CacheInv'
BY FirstCopyBooks, SecondCopyBooks DEF Duplicate

\* vcache_vd pairs two elements of the same lookup.
LEMMA PairBooks ==
  ASSUME LengthsOK, CacheInv, Pair
  PROVE  /\ CacheInv' /\ Len(answered) < Len(asked)
         /\ LET q == asked[Len(answered) + 1]
            IN  answered' = Append(answered, [vd |-> Service!Descriptor(q), last |-> q.last])
<1>1. PICK x, d : /\ x = Head(toVd["vds"]) /\ d = Head(toVd["data"])
                  /\ answered' = Append(answered, [vd   |-> IF x.missed THEN d ELSE x.vd,
                                                   last |-> x.last])
  BY DEF Pair
<1>2. /\ toVd["vds"] # << >> /\ toVd["data"] # << >>
      /\ toVd' = [k \in Kinds |-> Tail(toVd[k])]
      /\ UNCHANGED <<asked, todo, line, cmds, stream, held, toUpdate, updates>>
  BY DEF Pair, Both, Rest, Kinds
<1>3. PICK book \in Seq(Entry) : Booked(book)
  BY DEF CacheInv
<1>4. PICK n \in Nat : n = Len(answered)
  BY <1>3, BookKnown
<1>5. /\ Len(book) = Len(asked) /\ Len(asked) \in Nat
      /\ \A k \in Kinds : /\ Len(toVd[k]) \in Nat /\ Copied(k) = n + Len(toVd[k])
                          /\ IsSeq(toVd[k]) /\ toVd[k] # << >>
  <2>1. toVd["vds"] # << >> /\ toVd["data"] # << >>
    BY <1>2
  <2> QED
    BY <1>3, <1>4, <2>1, BookKnown DEF CacheInv, CacheTypes, Kinds
<1>6. ASSUME NEW k \in Kinds
      PROVE  /\ Fits(k, Head(toVd[k]), book[n + 1]) /\ n + 1 <= Len(book)
             /\ Run(k, Tail(toVd[k]), n + 1, book)
             /\ Len(Tail(toVd[k])) = Len(toVd[k]) - 1 /\ IsSeq(Tail(toVd[k]))
             /\ Copied(k) = n + 1 + Len(Tail(toVd[k]))
  <2>1. Run(k, toVd[k], n, book)
    BY <1>3, <1>4 DEF Booked
  <2>2. Len(Tail(toVd[k])) = Len(toVd[k]) - 1 /\ IsSeq(Tail(toVd[k]))
    BY <1>5, SeqTail
  <2>3. /\ Fits(k, Head(toVd[k]), book[n + 1]) /\ n + 1 <= Len(book)
        /\ Run(k, Tail(toVd[k]), n + 1, book)
    BY <1>5, <2>1, RunRead
  <2>4. PICK a, m \in Nat : a = Len(toVd[k]) /\ m = Copied(k) /\ m = n + a
    BY <1>3, <1>5, BookKnown
  <2>5. n + a = n + 1 + (a - 1)
    <3>1. n \in Nat /\ a \in Nat
      BY <1>4, <2>4
    <3> QED
      BY <3>1
  <2>6. Len(Tail(toVd[k])) = a - 1
    BY <2>2, <2>4
  <2>7. Copied(k) = n + 1 + Len(Tail(toVd[k]))
    BY <2>4, <2>5, <2>6, Zenon
  <2> QED
    BY <2>2, <2>3, <2>7
<1>7. /\ VdsFits(x, book[n + 1]) /\ DataFits(d, book[n + 1]) /\ n + 1 <= Len(book)
  BY <1>1, <1>6 DEF Fits, Kinds
<1>8. n + 1 \in 1..Len(asked) /\ book[n + 1].q = asked[n + 1]
  BY <1>3, <1>5, <1>7 DEF Booked
<1>9. /\ (IF x.missed THEN d ELSE x.vd) = Service!Descriptor(asked[n + 1])
      /\ x.last = asked[n + 1].last
  <2>1. CASE x.missed
    BY <1>7, <1>8, <2>1 DEF VdsFits, DataFits, Service!Descriptor
  <2>2. CASE ~x.missed
    BY <1>7, <1>8, <2>2 DEF VdsFits
  <2> QED
    BY <1>7, <1>8, <2>1, <2>2 DEF VdsFits
<1>10. IsSeq(answered') /\ Len(answered') = n + 1
  BY <1>1, <1>4, SeqAppend DEF CacheInv, CacheTypes
<1>11. \A k \in Kinds : /\ Sent(k)' = Sent(k) /\ Copied(k)' = Copied(k)
                        /\ Passed(k)' = Passed(k) /\ Seen(k)' = Seen(k)
  BY <1>2 DEF Sent, Copied, Passed, Seen
<1>12. \A k \in Kinds : /\ toVd'[k] = Tail(toVd[k]) /\ IsSeq(toVd'[k])
                        /\ Run(k, toVd'[k], Len(answered'), book)
                        /\ Copied(k) = Len(answered') + Len(toVd'[k])
  BY <1>2, <1>6, <1>10
<1>13. Booked(book)'
  BY <1>2, <1>3, <1>11, <1>12 DEF Booked, Kinds
<1>14. CacheInv'
  BY <1>2, <1>3, <1>10, <1>12, <1>13 DEF CacheInv, CacheTypes, LinesTrue, Index, UpdateTrue
<1> QED
  BY <1>1, <1>4, <1>5, <1>8, <1>9, <1>14

\* vcache_update pairs two elements of the same lookup, too.
LEMMA UpdateBooks == ASSUME LengthsOK, CacheInv, Update PROVE CacheInv'
<1>1. PICK x, d : x = Head(toUpdate["vds"]) /\ d = Head(toUpdate["data"])
  OBVIOUS
<1>2. /\ toUpdate["vds"] # << >> /\ toUpdate["data"] # << >>
      /\ toUpdate' = [k \in Kinds |-> Tail(toUpdate[k])]
      /\ UNCHANGED <<asked, answered, todo, line, cmds, stream, held, toVd>>
  BY DEF Update, Both, Rest, Kinds
<1>3. PICK book \in Seq(Entry) : Booked(book)
  BY DEF CacheInv
<1>4. PICK n \in Nat : n = Seen("vds") /\ n = Seen("data")
  BY <1>3, BookKnown, SeenBoth DEF Kinds
<1>5. Len(book) = Len(asked) /\ Len(asked) \in Nat /\ SeqsOK
  BY <1>3, BookKnown, LengthsKnown
<1>6. ASSUME NEW k \in Kinds
      PROVE  /\ Fits(k, Head(toUpdate[k]), book[n + 1]) /\ n + 1 <= Len(book)
             /\ Run(k, Tail(toUpdate[k]), n + 1, book)
             /\ Passed(k) - Len(Tail(toUpdate[k])) = n + 1
  <2>1. Seen(k) = n /\ IsSeq(toUpdate[k]) /\ toUpdate[k] # << >>
    BY <1>2, <1>4, <1>5 DEF Kinds, SeqsOK
  <2>2. Run(k, toUpdate[k], n, book)
    BY <1>3, <2>1 DEF Booked
  <2>3. Len(Tail(toUpdate[k])) = Len(toUpdate[k]) - 1
    BY <2>1, SeqTail
  <2>4. PICK a, m \in Nat : a = Len(toUpdate[k]) /\ m = Passed(k) /\ n + a = m
    BY <1>3, <2>1, BookKnown
  <2>5. /\ Fits(k, Head(toUpdate[k]), book[n + 1]) /\ n + 1 <= Len(book)
        /\ Run(k, Tail(toUpdate[k]), n + 1, book)
    BY <1>5, <2>1, <2>2, RunRead
  <2>6. Passed(k) - Len(Tail(toUpdate[k])) = n + 1
    BY <2>3, <2>4
  <2> QED
    BY <2>5, <2>6
<1>7. VdsFits(x, book[n + 1]) /\ DataFits(d, book[n + 1]) /\ n + 1 <= Len(book)
  BY <1>1, <1>6 DEF Fits, Kinds
<1>8. /\ n + 1 \in 1..Len(book) /\ book[n + 1] \in Entry
      /\ book[n + 1].q.v \in DOMAIN Memory
  <2>1. n + 1 \in 1..Len(book)
    BY <1>5, <1>7
  <2>2. book[n + 1] \in Entry
    BY <2>1
  <2> QED
    BY <2>1, <2>2 DEF Entry, Request
<1>9. \A i \in 1..Len(updates') : UpdateTrue(updates'[i])
  <2>1. \A i \in 1..Len(updates) : UpdateTrue(updates[i])
    BY DEF CacheInv
  <2>2. CASE x.missed /\ updates' = Append(updates, Replacement(x, d))
    <3>1. UpdateTrue(Replacement(x, d))
      BY <1>7, <1>8, <2>2 DEF VdsFits, DataFits, UpdateTrue, Replacement
    <3>2. PICK u : u = Replacement(x, d)
      OBVIOUS
    <3>3. PICK S : updates \in Seq(S)
      BY <1>5 DEF SeqsOK, IsSeq
    <3>4. updates \in Seq(S \cup {u})
      BY <3>3
    <3>5. /\ Len(updates') = Len(updates) + 1 /\ Len(updates) \in Nat
          /\ updates'[Len(updates) + 1] = u
          /\ \A i \in 1..Len(updates) : updates'[i] = updates[i]
      BY <2>2, <3>2, <3>4
    <3> QED
      BY <2>1, <3>1, <3>2, <3>5
  <2>3. CASE updates' = updates
    BY <2>1, <2>3
  <2> QED
    BY <1>1, <2>2, <2>3 DEF Update, Replaces
<1>10. \A k \in Kinds : /\ Sent(k)' = Sent(k) /\ Copied(k)' = Copied(k)
                        /\ Passed(k)' = Passed(k) /\ toUpdate'[k] = Tail(toUpdate[k])
  BY <1>2 DEF Sent, Copied, Passed
<1>11. \A k \in Kinds : Seen(k)' = n + 1
  <2> SUFFICES ASSUME NEW k \in Kinds PROVE Seen(k)' = n + 1
    OBVIOUS
  <2>1. Seen(k)' = Passed(k)' - Len(toUpdate'[k])
    BY DEF Seen
  <2> QED
    BY <1>6, <1>10, <2>1
<1>12. \A k \in Kinds : Run(k, toUpdate'[k], Seen(k)', book)
  BY <1>6, <1>10, <1>11
<1>13. Booked(book)'
  BY <1>2, <1>3, <1>10, <1>12 DEF Booked, Kinds
<1>14. CacheTypes' /\ LinesTrue'
  BY <1>2 DEF CacheInv, CacheTypes, LinesTrue, Index
<1> QED
  BY <1>3, <1>9, <1>13, <1>14 DEF CacheInv, UpdateTrue

\* The host.
LEMMA HostBooks ==
  ASSUME LengthsOK, CacheInv, StartRound \/ Exit \/ UNCHANGED vars PROVE CacheInv'
<1>1. /\ UNCHANGED <<asked, answered, line, cmds, stream, held, toVd, toUpdate, updates>>
      /\ todo' \in Rounds \/ todo' = todo
  BY DEF StartRound, Exit, vars
<1>2. PICK book \in Seq(Entry) : Booked(book)
  BY DEF CacheInv
<1>3. Booked(book)'
  BY <1>1, <1>2 DEF Booked, Sent, Copied, Passed, Seen
<1>4. todo' \in Seq([v : DOMAIN Memory, ended : BOOLEAN])
  BY <1>1, CacheAssumption DEF CacheInv, CacheTypes
<1> QED
  BY <1>1, <1>2, <1>3, <1>4 DEF CacheInv, CacheTypes, LinesTrue, Index, UpdateTrue

LEMMA InitBooks == Init => CacheInv
<1> SUFFICES ASSUME Init PROVE CacheInv
  OBVIOUS
<1>1. /\ asked = << >> /\ answered = << >> /\ todo = << >> /\ line = Cleared /\ cmds = << >>
      /\ updates = << >> /\ held["looked"] = << >> /\ DOMAIN toVd = Kinds
      /\ \A k \in Kinds : /\ stream[k] = << >> /\ toVd[k] = << >> /\ toUpdate[k] = << >>
                          /\ held[k] = << >>
  BY DEF Init, Quiet, Kinds
<1>2. /\ Len(asked) = 0 /\ Len(cmds) = 0 /\ Len(held["looked"]) = 0 /\ Len(answered) = 0
      /\ \A k \in Kinds : /\ Len(stream[k]) = 0 /\ Len(toVd[k]) = 0 /\ Len(toUpdate[k]) = 0
                          /\ Len(held[k]) = 0
  BY <1>1
<1>3. \A k \in Kinds : Sent(k) = 0 /\ Copied(k) = 0 /\ Passed(k) = 0 /\ Seen(k) = 0
  <2> SUFFICES ASSUME NEW k \in Kinds
               PROVE  Sent(k) = 0 /\ Copied(k) = 0 /\ Passed(k) = 0 /\ Seen(k) = 0
    OBVIOUS
  <2>1. Sent(k) = 0
    BY <1>2 DEF Sent
  <2>2. Copied(k) = 0
    BY <1>2, <2>1 DEF Copied
  <2>3. Passed(k) = 0
    BY <1>2, <2>2 DEF Passed
  <2>4. Seen(k) = 0
    BY <1>2, <2>3 DEF Seen
  <2> QED
    BY <2>1, <2>2, <2>3, <2>4
<1>4. << >> \in Seq(Entry) /\ \A k : Run(k, << >>, 0, << >>)
  BY RunNone
<1>5. Booked(<< >>)
  BY <1>1, <1>2, <1>3, <1>4 DEF Booked, Kinds
<1>6. DOMAIN line = 0..(NumLines - 1) /\ \A i \in DOMAIN line : line[i].valid = FALSE
  BY <1>1 DEF Cleared, NoLine
<1>7. CacheTypes
  <2>1. asked \in Seq(Request) /\ todo \in Seq([v : DOMAIN Memory, ended : BOOLEAN])
    BY <1>1
  <2>2. IsSeq(answered) /\ \A k \in Kinds : IsSeq(toVd[k])
    BY <1>1, SeqSmall
  <2> QED
    BY <1>1, <1>6, <2>1, <2>2 DEF CacheTypes
<1>9. LinesTrue
  BY <1>6 DEF LinesTrue
<1>8. \A i \in 1..Len(updates) : UpdateTrue(updates[i])
  BY <1>1
<1> QED
  BY <1>4, <1>5, <1>7, <1>8, <1>9 DEF CacheInv

LEMMA NextBooks == LengthsOK /\ CacheInv /\ LengthsOK' /\ [Next]_vars => CacheInv'
<1> SUFFICES ASSUME LengthsOK, CacheInv, LengthsOK', [Next]_vars PROVE CacheInv'
  OBVIOUS
<1>1. CASE Loader
  BY <1>1, LookBooks, SendBooks, PollBooks, DiscardBooks, EndDrainBooks DEF Loader
<1>2. CASE ReadMemory \/ (\E k \in Kinds : Duplicate(k)) \/ Pair \/ Update
  BY <1>2, ReadBooks, DuplicateBooks, PairBooks, UpdateBooks
<1>3. CASE StartRound \/ Exit \/ UNCHANGED vars
  BY <1>3, HostBooks
<1> QED
  BY <1>1, <1>2, <1>3 DEF Next

\* AnswersFromMemory: vertex_loader and vcache_vd implement the lookup service without the
\* table: whatever lines it holds and whatever updates are on their way, every step of the
\* cache asks for a vertex, answers the next one with the descriptor memory has for it, or
\* changes nothing that vd_scheduler sees.
THEOREM AnswersFromMemory ==
  Spec => /\ []LinesTrue
          /\ Service!Init /\ [][Service!Next]_(Service!vars)
<1>1. Init => LengthsOK /\ CacheInv /\ Service!Init
  BY InitLengths, InitBooks DEF Init, Service!Init
<1>2. LengthsOK /\ CacheInv /\ [Next]_vars => (LengthsOK /\ CacheInv)'
  BY NextKeeps, NextBooks
<1>3. LengthsOK /\ CacheInv /\ [Next]_vars => [Service!Next]_(Service!vars)
  <2> SUFFICES ASSUME LengthsOK, CacheInv, [Next]_vars PROVE [Service!Next]_(Service!vars)
    OBVIOUS
  <2>1. CASE Look
    <3>1. \E q \in Request : asked' = Append(asked, q)
      BY <2>1, NextKeeps, LookBooks
    <3>2. UNCHANGED answered
      BY <2>1 DEF Look
    <3> QED
      BY <3>1, <3>2 DEF Service!Next, Service!Ask, Request
  <2>2. CASE Pair
    <3>1. UNCHANGED asked
      BY <2>2 DEF Pair
    <3> QED
      BY <2>2, <3>1, PairBooks DEF Service!Next, Service!Answer
  <2>3. CASE UNCHANGED <<asked, answered>>
    BY <2>3 DEF Service!vars
  <2> QED
    BY <2>1, <2>2, <2>3 DEF Next, Loader, Send, Poll, Discard, EndDrain, ReadMemory,
       Duplicate, Update, StartRound, Exit, vars
<1>4. CacheInv => LinesTrue
  BY DEF CacheInv
<1> QED
  BY <1>1, <1>2, <1>3, <1>4, PTL DEF Spec

-----------------------------------------------------------------------------
(***************************************************************************)
(* The burst engine: vd_scheduler sends on the lists of a round.           *)
(***************************************************************************)

\* More lists do not change what is known of those before.
LEMMA StreamMore ==
  ASSUME NEW kind, NEW s, NEW t, NEW d, NEW K, NEW K2, NEW b, Stream(kind, s, t, d, K, b),
         kind # "answer" => \A i \in 1..Len(t) : K2[t[i].req] = K[t[i].req],
         kind = "answer" => \A i \in 1..Len(t) : K2[t[i]] = K[t[i]]
  PROVE  Stream(kind, s, t, d, K2, b)
<1>1. ASSUME NEW i \in 1..Len(t) PROVE Like(kind, s[i], t[i], K2, b)
  <2>1. Like(kind, s[i], t[i], K, b)
    BY DEF Stream
  <2>2. CASE kind = "answer"
    <3>1. K2[t[i]] = K[t[i]]
      BY <2>2
    <3> QED
      BY <2>1, <2>2, <3>1 DEF Like
  <2>3. CASE kind # "answer"
    <3>1. PICK x : x = t[i]
      OBVIOUS
    <3>2. K2[x.req] = K[x.req] /\ Like(kind, s[i], x, K, b)
      BY <2>1, <2>3, <3>1
    <3>3. Like(kind, s[i], x, K2, b)
      BY <2>3, <3>2 DEF Like
    <3> QED
      BY <3>1, <3>3
  <2> QED
    BY <2>2, <2>3
<1> QED
  BY <1>1 DEF Stream

\* Nor do they change what is on its way.
LEMMA ChainMore ==
  ASSUME NEW b, NEW P, NEW K, NEW K2, NEW c, NEW dum, NEW st, Placing(P), Located(P, c),
         Chain(P, K, b, dum, st), \A i \in 1..Len(c) : K2[i] = K[i]
  PROVE  Chain(P, K2, b, dum, st)
<1>1. \A q \in Places : \A i \in 1..Len(P[q]) : K2[P[q][i].req] = K[P[q][i].req]
  <2> TAKE q \in Places
  <2> TAKE i \in 1..Len(P[q])
  <2>1. P[q][i].req \in 1..Len(c)
    BY DEF Located, Stands
  <2> QED
    BY <2>1
<1>2. ASSUME NEW q \in Places, NEW kind \in {"list", "cmd", "word"}, NEW s, NEW d,
             Stream(kind, s, P[q], d, K, b)
      PROVE  Stream(kind, s, P[q], d, K2, b)
  <2>1. kind # "answer" => \A i \in 1..Len(P[q]) : K2[P[q][i].req] = K[P[q][i].req]
    BY <1>1
  <2>2. kind # "answer"
    OBVIOUS
  <2> QED
    BY <1>2, <2>1, <2>2, StreamMore
<1>3. ASSUME NEW q \in Places, NEW s, Working(s, P[q], K, b) PROVE Working(s, P[q], K2, b)
  <2>1. CASE P[q] = << >> /\ s = << >>
    BY <1>3, <2>1 DEF Working
  <2>2. CASE /\ Len(P[q]) = 1 /\ Len(s) = P[q][1].hi - P[q][1].lo + 1
             /\ \A j \in 1..Len(s)
                  : WordIs(s[j], Piece(P[q][1], P[q][1].lo + (j - 1)), K[P[q][1].req], b)
    <3>1. K2[P[q][1].req] = K[P[q][1].req]
      <4>1. 1 \in 1..Len(P[q])
        BY <2>2
      <4> QED
        BY <1>1, <4>1
    <3>2. \A j \in 1..Len(s)
            : WordIs(s[j], Piece(P[q][1], P[q][1].lo + (j - 1)), K2[P[q][1].req], b)
      BY <2>2, <3>1
    <3> QED
      BY <1>3, <2>2, <3>2 DEF Working
  <2> QED
    BY <1>3, <2>1, <2>2 DEF Working
<1>p. 1 \in Places /\ 2 \in Places /\ 12 \in Places /\ 13 \in Places
  BY DEF Places
<1>4. Cutter(gen, P[2], st, K2)
  <2>1. Cutter(gen, P[2], st, K)
    BY DEF Chain
  <2>2. CASE P[2] = << >>
    <3>1. Len(P[2]) # 1
      BY <2>2, SeqSmall
    <3> QED
      BY <2>1, <3>1 DEF Cutter
  <2>3. CASE P[2] # << >>
    <3>1. Len(P[2]) = 1
      BY <2>1, <2>3 DEF Cutter
    <3>2. 1 \in 1..Len(P[2])
      BY <3>1
    <3>3. PICK k : k = K[P[2][1].req] /\ k = K2[P[2][1].req]
      BY <1>1, <1>p, <3>2
    <3>4. /\ st \in {0, 1} /\ Starts(P[2][1].lo, k.c)
          /\ \E v : ListIs(v, k) /\ gen = <<v, Addr(k.l, P[2][1].lo)>>
      BY <2>1, <2>3, <3>3 DEF Cutter
    <3> QED
      BY <3>1, <3>3, <3>4 DEF Cutter
  <2> QED
    BY <2>2, <2>3
<1>5. ASSUME NEW e \in Burst!Engines
      PROVE  /\ Stream("cmd", cmd[e], P[At[e]], dum[e], K2, b)
             /\ Working(work[e], P[At[e] + 1], K2, b)
             /\ Stream("word", out[e], P[At[e] + 2], 0, K2, b)
  <2>1. At[e] \in Places /\ At[e] + 1 \in Places /\ At[e] + 2 \in Places
    BY AtApart
  <2>2. /\ Stream("cmd", cmd[e], P[At[e]], dum[e], K, b)
        /\ Working(work[e], P[At[e] + 1], K, b)
        /\ Stream("word", out[e], P[At[e] + 2], 0, K, b)
    BY DEF Chain
  <2> QED
    BY <1>2, <1>3, <2>1, <2>2
<1>6. /\ Stream("list", vds, P[1], IF st = 1 THEN 1 ELSE 0, K2, b)
      /\ Stream("word", dynamic, P[12], 0, K2, b)
      /\ Stream("word", sync, P[13], 0, K2, b)
  <2>1. PICK d : d = IF st = 1 THEN 1 ELSE 0
    OBVIOUS
  <2>2. /\ Stream("list", vds, P[1], d, K, b)
        /\ Stream("word", dynamic, P[12], 0, K, b)
        /\ Stream("word", sync, P[13], 0, K, b)
    BY <2>1 DEF Chain
  <2>3. /\ Stream("list", vds, P[1], d, K2, b)
        /\ Stream("word", dynamic, P[12], 0, K2, b)
        /\ Stream("word", sync, P[13], 0, K2, b)
    BY <1>2, <1>p, <2>2
  <2> QED
    BY <2>1, <2>3
<1> QED
  BY <1>4, <1>5, <1>6 DEF Chain

\* A list of a round is a range of entries with a number of words.
LEMMA AskableType ==
  ASSUME Burst!BurstAssumption, NEW l \in Askable
  PROVE  l \in Nat \X Nat /\ Count(l) \in Nat /\ (l[2] = 0 <=> Count(l) = 0)
         /\ (l[2] # 0 => (Align(l[1]) = Align(l[1] + l[2] - 1) <=> Count(l) = 1))
<1>1. PICK r \in BurstRounds : l \in {r[j] : j \in DOMAIN r}
  BY DEF Askable
<1>2. r \in Seq(Nat \X Nat)
  BY DEF Burst!BurstAssumption
<1>3. l \in Nat \X Nat
  BY <1>1, <1>2
<1>4. CASE l[2] = 0
  BY <1>3, <1>4 DEF Count
<1>5. CASE l[2] # 0
  <2>1. PICK k \in Nat : k # 0 /\ k = Count(l)
             /\ (Align(l[1]) = Align(l[1] + l[2] - 1) <=> k = 1)
    BY <1>3, <1>5, ListFacts
  <2> QED
    BY <1>3, <1>5, <2>1
<1> QED
  BY <1>4, <1>5

\* What vd_scheduler knows after one more list.
MoreKeys(L, K, K2, c, c2, b, bn2, k, l, last, NB) ==
  /\ KeyTableOf(L, K2, c2, b, bn2) /\ Len(L) = Len(c) + 1
  /\ \A i \in 1..Len(c) : K2[i] = K[i]
  /\ K2[Len(c) + 1]
       = [l |-> l, last |-> last, c |-> k, id |-> Id(b, Len(c)), burst |-> Id(b, NB)]

\* The table with one more list.
LEMMA KeysMore ==
  ASSUME Burst!BurstAssumption, NEW b, NEW K, NEW c, c \in Seq(Nat), NEW bn, NEW NB, NB \in Nat,
         Ranked(c, bn, NB), NEW L0, KeyTableOf(L0, K, c, b, bn), NEW l, l \in Askable, NEW last,
           last \in BOOLEAN,
         NEW L, L = Append(L0, [list |-> l, last |-> last]),
         NEW c2, c2 = Append(c, Count(l)), NEW bn2, bn2 = Append(bn, NB), NEW K2,
         K2 = Keys(L, c2, b, bn2)
  PROVE  MoreKeys(L, K, K2, c, c2, b, bn2, Count(l), l, last, NB)
<1>1. PICK N, k : N = Len(c) /\ k = Count(l)
  OBVIOUS
<1>2. /\ IsSeq(L0) /\ Len(L0) = N /\ K = Keys(L0, c, b, bn) /\ N \in Nat
      /\ \A i \in 1..N : L0[i].list \in Askable /\ c[i] = Count(L0[i].list)
         /\ L0[i].last \in BOOLEAN
  BY <1>1 DEF KeyTableOf
<1>3. /\ IsSeq(L) /\ Len(L) = N + 1 /\ L[N + 1] = [list |-> l, last |-> last]
      /\ \A i \in 1..N : L[i] = L0[i]
  BY <1>1, <1>2, SeqAt
<1>4. k \in Nat
  BY <1>1, AskableType
<1>5. /\ c2 \in Seq(Nat) /\ Len(c2) = N + 1 /\ c2[N + 1] = k /\ \A i \in 1..N : c2[i] = c[i]
  BY <1>1, <1>4, AppendAt
<1>6. /\ bn2[N + 1] = NB /\ \A i \in 1..N : bn2[i] = bn[i]
  <2>1. bn \in Seq(Nat) /\ Len(bn) = N
    BY <1>1 DEF Ranked
  <2> QED
    BY <1>1, <2>1, AppendAt
<1>7. K2 = [i \in 1..(N + 1) |-> [l |-> L[i].list, last |-> L[i].last, c |-> c2[i],
                                  id |-> Id(b, i - 1), burst |-> Id(b, bn2[i])]]
  BY <1>1, <1>3 DEF Keys
<1>8. K = [i \in 1..N |-> [l |-> L0[i].list, last |-> L0[i].last, c |-> c[i],
                           id |-> Id(b, i - 1), burst |-> Id(b, bn[i])]]
  BY <1>2 DEF Keys
<1>9. \A i \in 1..N : i \in 1..(N + 1)
  BY <1>2
<1>10. ASSUME NEW i \in 1..N PROVE K2[i] = K[i]
  <2>1. K[i] = [l |-> L0[i].list, last |-> L0[i].last, c |-> c[i],
                id |-> Id(b, i - 1), burst |-> Id(b, bn[i])]
    BY <1>8
  <2>2. K2[i] = [l |-> L[i].list, last |-> L[i].last, c |-> c2[i],
                 id |-> Id(b, i - 1), burst |-> Id(b, bn2[i])]
    BY <1>7, <1>9
  <2>3. L[i] = L0[i] /\ c2[i] = c[i] /\ bn2[i] = bn[i]
    BY <1>3, <1>5, <1>6
  <2> QED
    BY <2>1, <2>2, <2>3
<1>11. K2[N + 1] = [l |-> l, last |-> last, c |-> k, id |-> Id(b, N), burst |-> Id(b, NB)]
  <2>1. N + 1 \in 1..(N + 1) /\ (N + 1) - 1 = N
    BY <1>2
  <2>2. K2[N + 1] = [l |-> L[N + 1].list, last |-> L[N + 1].last, c |-> c2[N + 1],
                     id |-> Id(b, N), burst |-> Id(b, bn2[N + 1])]
    BY <1>7, <2>1
  <2> QED
    BY <1>3, <1>5, <1>6, <2>2
<1>12. \A i \in 1..(N + 1) : L[i].list \in Askable /\ c2[i] = Count(L[i].list)
       /\ L[i].last \in BOOLEAN
  <2> TAKE i \in 1..(N + 1)
  <2>1. CASE i = N + 1
    BY <1>1, <1>3, <1>5, <2>1
  <2>2. CASE i # N + 1
    <3>1. i \in 1..N
      BY <1>2, <2>2
    <3> QED
      BY <1>2, <1>3, <1>5, <3>1
  <2> QED
    BY <2>1, <2>2
<1>13. KeyTableOf(L, K2, c2, b, bn2)
  BY <1>3, <1>5, <1>12 DEF KeyTableOf
<1> QED
  BY <1>1, <1>3, <1>10, <1>11, <1>13 DEF MoreKeys

\* The list is the last one of its round.
LastList == Len(burstTodo) = 1

\* What every list that vd_scheduler sends on changes.
DispatchRest(b, P, K2, c, k, c2, bn2, si, sk, NB, U, A, dum, st, l, last) ==
  /\ KeyTable(K2, c2, b, bn2)'
  /\ K2[Len(c) + 1]
       = [l |-> l, last |-> last, c |-> k, id |-> Id(b, Len(c)), burst |-> Id(b, NB)]
  /\ Len(lists') = Len(c) + 1 /\ next.sync = Id(b, Len(c)) /\ next.burst = Id(b, NB)
  /\ Sampling(K2, si, sk)'
  /\ Stream("answer", update, U, 0, K2, b) /\ Stream("answer", sampled, A, 0, K2, b)
  /\ IsSeq(replies) /\ \A i \in 1..Len(replies) : AnswerIs(replies[i], K2[i])
  /\ Chain(P, K2, b, dum, st) /\ Stopping(P, dum, st)'
  /\ IsSeq(burstTodo') /\ (\A i \in 1..Len(burstTodo') : burstTodo'[i] \in Askable)
  /\ st = 0 /\ dum["single"] = 0 /\ burstTodo # << >>

\* What vd_scheduler does with every list.
LEMMA DispatchSame ==
  ASSUME Burst!BurstAssumption, NEW b \in Base, NEW P, NEW K, NEW c, NEW si, NEW sk, NEW cd,
         NEW G, NEW bn, NEW cb, NEW NB, NEW U, NEW A, NEW dum, NEW st,
         Good(b, P, K, c, si, sk, cd, G, bn, cb, NB, U, A, dum, st), Burst!Dispatch,
         NEW l, l = Head(burstTodo), NEW last, last = LastList, NEW k, k = Count(l),
         NEW c2, c2 = Append(c, k), NEW bn2, bn2 = Append(bn, NB), NEW K2,
         K2 = Keys(lists', c2, b, bn2)
  PROVE  l \in Askable
         /\ DispatchRest(b, P, K2, c, k, c2, bn2, si, sk, NB, U, A, dum, st, l, last)
<1>0. /\ Way(P, c, si, sk, cd, G, bn, cb, NB) /\ KeyTable(K, c, b, bn)
         /\ Chain(P, K, b, dum, st)
      /\ Sampling(K, si, sk) /\ Ids(b, NB, G, cb, cd) /\ Stopping(P, dum, st) /\ BurstTypes
      /\ Answers(c, si, sk, U, A, Len(replies)) /\ Replying(U, A, K, b)
  BY DEF Good
<1>1. /\ burstPc = "main" /\ burstTodo # << >>
      /\ lists' = Append(lists, [list |-> l, last |-> last]) /\ burstTodo' = Tail(burstTodo)
      /\ burstPc' = IF Len(burstTodo) = 1 THEN "stopSingle" ELSE "main"
      /\ UNCHANGED <<replies, burstRound, gen, burstOn, work, out, dynamic, sync, seen, sampled,
                     current>>
  BY DEF Burst!Dispatch, LastList
<1>2. /\ IsSeq(burstTodo) /\ \A i \in 1..Len(burstTodo) : burstTodo[i] \in Askable
  BY <1>0 DEF BurstTypes
<1>3. PICK T, n : T = Tail(burstTodo) /\ n = Len(burstTodo)
  OBVIOUS
<1>4. /\ n \in Nat /\ n # 0 /\ l = burstTodo[1] /\ IsSeq(T) /\ Len(T) = n - 1
      /\ \A i \in 1..Len(T) : T[i] = burstTodo[i + 1]
  BY <1>1, <1>2, <1>3, SeqAt
<1>5. l \in Askable
  <2>1. 1 \in 1..Len(burstTodo)
    BY <1>3, <1>4
  <2> QED
    BY <1>2, <1>4, <2>1
<1>6. \A i \in 1..Len(T) : T[i] \in Askable
  <2> TAKE i \in 1..Len(T)
  <2>1. i + 1 \in 1..Len(burstTodo)
    BY <1>3, <1>4
  <2> QED
    BY <1>2, <1>4, <2>1
<1>7. T = << >> <=> n = 1
  <2>1. T = << >> <=> Len(T) = 0
    BY <1>4, SeqAt
  <2> QED
    BY <1>4, <2>1
<1>8. /\ Placing(P) /\ c \in Seq(Nat) /\ Located(P, c) /\ NB \in Nat /\ Ranked(c, bn, NB)
      /\ Progress(c, si, sk)
  BY <1>0 DEF Way, Bursts
<1>9. /\ KeyTable(K2, c2, b, bn2)'
      /\ \A i \in 1..Len(c) : K2[i] = K[i]
      /\ K2[Len(c) + 1]
           = [l |-> l, last |-> last, c |-> k, id |-> Id(b, Len(c)), burst |-> Id(b, NB)]
      /\ Len(lists') = Len(c) + 1
  <2>1. PICK L, L0 : L0 = lists /\ L = lists'
    OBVIOUS
  <2>2. L = Append(L0, [list |-> l, last |-> last]) /\ K2 = Keys(L, c2, b, bn2)
    BY <1>1, <2>1
  <2>3. KeyTableOf(L0, K, c, b, bn)
    BY <1>0, <2>1 DEF KeyTable
  <2>4. c \in Seq(Nat) /\ NB \in Nat /\ Ranked(c, bn, NB)
    BY <1>8
  <2>a. last \in BOOLEAN
    BY DEF LastList
  <2>5. MoreKeys(L, K, K2, c, c2, b, bn2, Count(l), l, last, NB)
    BY <1>5, <2>2, <2>3, <2>4, <2>a, KeysMore
  <2>6. KeyTable(K2, c2, b, bn2)'
    BY <2>1, <2>5 DEF MoreKeys, KeyTable
  <2> QED
    BY <2>1, <2>5, <2>6 DEF MoreKeys
<1>10. next.sync = Id(b, Len(c)) /\ next.burst = Id(b, NB)
  BY <1>0 DEF Ids, KeyTable, KeyTableOf
<1>11. Chain(P, K2, b, dum, st)
  BY <1>0, <1>8, <1>9, ChainMore
<1>12. Sampling(K2, si, sk)'
  <2>1. seen' = seen
    BY <1>1
  <2>2. CASE si = 0
    BY <1>0, <2>1, <2>2 DEF Sampling
  <2>3. CASE si # 0
    <3>1. K2[si] = K[si]
      BY <1>8, <1>9, <2>3 DEF Progress
    <3> QED
      BY <1>0, <2>1, <3>1 DEF Sampling
  <2> QED
    BY <2>2, <2>3
<1>13. /\ Stream("answer", update, U, 0, K2, b) /\ Stream("answer", sampled, A, 0, K2, b)
       /\ IsSeq(replies) /\ \A i \in 1..Len(replies) : AnswerIs(replies[i], K2[i])
  <2>1. /\ Stream("answer", update, U, 0, K, b) /\ Stream("answer", sampled, A, 0, K, b)
        /\ IsSeq(replies) /\ \A i \in 1..Len(replies) : AnswerIs(replies[i], K[i])
    BY <1>0 DEF Replying
  <2>2. PICK m \in Nat, N \in Nat : m = Len(replies) /\ N = Len(c) /\ m <= N
    BY <1>0, <1>8 DEF Answers
  <2>3. Rising(U, m + 1, N) /\ Rising(A, m + 1, N)
    BY <1>0, <2>2 DEF Answers
  <2>4. ASSUME NEW V, Rising(V, m + 1, N) PROVE \A i \in 1..Len(V) : K2[V[i]] = K[V[i]]
    <3> TAKE i \in 1..Len(V)
    <3>1. V[i] \in (m + 1)..N
      BY <2>4 DEF Rising
    <3>2. V[i] \in 1..Len(c)
      BY <2>2, <3>1
    <3> QED
      BY <1>9, <3>2
  <2>5. ASSUME NEW s, NEW V, Rising(V, m + 1, N), Stream("answer", s, V, 0, K, b)
        PROVE  Stream("answer", s, V, 0, K2, b)
    <3>1. \A i \in 1..Len(V) : K2[V[i]] = K[V[i]]
      BY <2>4, <2>5
    <3> QED
      BY <2>5, <3>1, StreamMore
  <2>6. \A i \in 1..Len(replies) : AnswerIs(replies[i], K2[i])
    <3> TAKE i \in 1..Len(replies)
    <3>1. i \in 1..Len(c)
      BY <2>2
    <3> QED
      BY <1>9, <2>1, <3>1
  <2> QED
    BY <2>1, <2>3, <2>5, <2>6
<1>14. st = 0 /\ dum["single"] = 0 /\ dum \in [Burst!Engines -> {0, 1}]
  <2>1. st = 0 /\ dum["single"] # 1 /\ dum \in [Burst!Engines -> {0, 1}]
    BY <1>0, <1>1 DEF Stopping
  <2> QED
    BY <2>1, AtFacts
<1>15. Stopping(P, dum, st)'
  <2>1. burstTodo' # << >> \/ burstPc' # "main"
    BY <1>1, <1>3, <1>4, <1>7
  <2>2. burstTodo' # << >> => burstPc' = "main"
    BY <1>1, <1>3, <1>7
  <2>3. burstTodo' # << >> \/ burstPc' = "stopSingle"
    BY <1>1, <1>3, <1>7
  <2>4. burstPc' \in {"main", "stopSingle", "stopDynamic"} /\ burstOn' = burstOn
    BY <1>1
  <2> QED
    BY <1>0, <1>1, <1>14, <2>1, <2>2, <2>3, <2>4 DEF Stopping
<1>16. IsSeq(burstTodo') /\ \A i \in 1..Len(burstTodo') : burstTodo'[i] \in Askable
  BY <1>1, <1>3, <1>4, <1>6
<1> QED
  BY <1>1, <1>5, <1>9, <1>10, <1>11, <1>12, <1>13, <1>14, <1>15, <1>16 DEF DispatchRest

\* An empty list is answered by update_merge alone.
LEMMA DispatchEmpty ==
  ASSUME Burst!BurstAssumption, NEW b \in Base, NEW P, NEW K, NEW c, NEW si, NEW sk, NEW cd,
         NEW G, NEW bn, NEW cb, NEW NB, NEW U, NEW A, NEW dum, NEW st,
         Good(b, P, K, c, si, sk, cd, G, bn, cb, NB, U, A, dum, st), Burst!Dispatch,
         Head(burstTodo)[2] = 0
  PROVE  BurstInv'
<1>0. /\ Way(P, c, si, sk, cd, G, bn, cb, NB) /\ Ids(b, NB, G, cb, cd) /\ BurstTypes
      /\ Answers(c, si, sk, U, A, Len(replies))
  BY DEF Good
<1>a. PICK l, last, k : l = Head(burstTodo) /\ last = LastList /\ k = Count(l)
  OBVIOUS
<1>b. PICK c2, bn2 : c2 = Append(c, k) /\ bn2 = Append(bn, NB)
  OBVIOUS
<1>1. PICK K2, U2 : K2 = Keys(lists', c2, b, bn2) /\ U2 = Append(U, Len(c) + 1)
  OBVIOUS
<1>2. l \in Askable /\ DispatchRest(b, P, K2, c, k, c2, bn2, si, sk, NB, U, A, dum, st, l, last)
  BY <1>a, <1>b, <1>1, DispatchSame
<1>3. k = 0
  BY <1>a DEF Count
<1>4. PICK v : v = Burst!Result(next.sync, last, Burst!Nothing)
  OBVIOUS
<1>5. /\ Burst!Room(update) /\ update' = Append(update, v)
      /\ next' = [next EXCEPT !.sync = Burst!Succ(@)]
      /\ UNCHANGED <<replies, burstRound, gen, burstOn, work, out, dynamic, sync, seen, sampled,
                     current, cmd, vds>>
  BY <1>a, <1>4 DEF Burst!Dispatch, LastList
<1>6. PICK N : N = Len(c)
  OBVIOUS
<1>7. /\ c \in Seq(Nat) /\ N \in Nat /\ NB \in Nat
  BY <1>0, <1>6 DEF Way
<1>8. c2 = Append(c, k) /\ bn2 = Append(bn, NB) /\ U2 = Append(U, N + 1)
  BY <1>b, <1>1, <1>6
<1>9. Way(P, c2, si, sk, cd, G, bn2, cb, NB)
  BY <1>0, <1>3, <1>8, EnterEmpty
<1>10. Answers(c2, si, sk, U2, A, Len(replies))'
  <2>1. PICK n : n = Len(replies) /\ n = Len(replies')
    BY <1>5
  <2>2. Answers(c, si, sk, U, A, n) /\ Progress(c, si, sk)
    BY <1>0, <2>1 DEF Way
  <2>3. U2 = IF k = 0 THEN Append(U, Len(c) + 1) ELSE U
    BY <1>3, <1>6, <1>8
  <2>4. k \in Nat
    BY <1>3
  <2>5. Answers(c2, si, sk, U2, A, n)
    BY <1>7, <1>8, <2>2, <2>3, <2>4, AnswersEnter
  <2> QED
    BY <2>1, <2>5
<1>11. /\ KeyTable(K2, c2, b, bn2)' /\ Sampling(K2, si, sk)' /\ Stopping(P, dum, st)'
       /\ K2[N + 1] = [l |-> l, last |-> last, c |-> k, id |-> Id(b, N), burst |-> Id(b, NB)]
       /\ Len(lists') = N + 1 /\ next.sync = Id(b, N)
       /\ Stream("answer", update, U, 0, K2, b) /\ Stream("answer", sampled, A, 0, K2, b)
       /\ IsSeq(replies) /\ (\A i \in 1..Len(replies) : AnswerIs(replies[i], K2[i]))
       /\ Chain(P, K2, b, dum, st)
       /\ IsSeq(burstTodo') /\ (\A i \in 1..Len(burstTodo') : burstTodo'[i] \in Askable)
  BY <1>2, <1>6, <1>8 DEF DispatchRest
<1>12. AnswerIs(v, K2[N + 1])
  <2>1. v = [id |-> Id(b, N), last |-> last, words |-> << >>, entries |-> {}]
    BY <1>4, <1>11 DEF Burst!Result, Burst!Nothing
  <2>2. 1..k = {}
    BY <1>3
  <2>3. [i \in 1..k |-> Addr(l, i)] = << >>
    BY <2>2
  <2>4. AllEntries(l) = {}
    <3>1. PICK x \in Nat : x = l[1]
      BY <1>2, AskableType
    <3>2. l[2] = 0
      BY <1>a
    <3>3. x..(x + 0 - 1) = {}
      OBVIOUS
    <3> QED
      BY <3>1, <3>2, <3>3 DEF AllEntries
  <2>5. PICK x : x = K2[N + 1]
    OBVIOUS
  <2>6. x.l = l /\ x.last = last /\ x.c = k /\ x.id = Id(b, N)
    BY <1>11, <2>5
  <2>7. v.id = x.id /\ v.last = x.last /\ v.entries = AllEntries(x.l)
    BY <2>1, <2>4, <2>6
  <2>8. v.words = [i \in 1..x.c |-> Addr(x.l, i)]
    BY <2>1, <2>3, <2>6
  <2> QED
    BY <2>5, <2>7, <2>8 DEF AnswerIs
<1>13. Stream("answer", update', U2, 0, K2, b)
  <2>1. U \in Seq(Nat) /\ N + 1 \in Nat
    BY <1>0, <1>7 DEF Answers, Rising
  <2>2. Like("answer", v, N + 1, K2, b)
    BY <1>12 DEF Like
  <2>3. Stream("answer", Append(update, v), Append(U, N + 1), 0, K2, b)
    BY <1>11, <2>1, <2>2, StreamWrite
  <2> QED
    BY <1>5, <1>8, <2>3
<1>14. Replying(U2, A, K2, b)'
  <2>1. replies' = replies /\ sampled' = sampled
    BY <1>5
  <2> QED
    BY <1>11, <1>13, <2>1 DEF Replying
<1>15. Chain(P, K2, b, dum, st)'
  BY <1>5, <1>11 DEF Chain
<1>16. Ids(b, NB, G, cb, cd)'
  <2>1. next = [sync |-> Id(b, N), burst |-> Id(b, NB), dyn |-> Id(b, G)]
        /\ current = [sync |-> Id(b, Len(replies)), burst |-> Id(b, cb), dyn |-> Id(b, cd)]
    <3>1. next.sync = Id(b, N)
      BY <1>11
    <3>2. next = [sync |-> Id(b, Len(lists)), burst |-> Id(b, NB), dyn |-> Id(b, G)]
      BY <1>0 DEF Ids
    <3>3. Id(b, Len(lists)) = Id(b, N)
      BY <3>1, <3>2
    <3> QED
      BY <1>0, <3>2, <3>3 DEF Ids
  <2>2. Burst!Succ(Id(b, N)) = Id(b, N + 1)
    BY <1>7, IdFacts
  <2>3. next' = [sync |-> Id(b, N + 1), burst |-> Id(b, NB), dyn |-> Id(b, G)]
    BY <1>5, <2>1, <2>2
  <2> QED
    BY <1>5, <1>11, <2>1, <2>3 DEF Ids
<1>17. BurstTypes'
  <2>1. Len(update') <= Depth
    <3>1. IsSeq(update)
      BY <1>11 DEF Stream
    <3> QED
      BY <1>5, <3>1, DepthKept
  <2> QED
    BY <1>0, <1>5, <1>11, <2>1 DEF BurstTypes
<1>18. Good(b, P, K2, c2, si, sk, cd, G, bn2, cb, NB, U2, A, dum, st)'
  BY <1>9, <1>10, <1>11, <1>14, <1>15, <1>16, <1>17 DEF Good
<1> QED
  BY <1>18 DEF BurstInv

\* What entering a place leaves.
LEMMA EnterAt ==
  ASSUME NEW P, Placing(P), NEW r \in Places, NEW x \in Item, NEW Q, Q = Enter(P, r, x)
  PROVE  Q[r] = Append(P[r], x) /\ \A q \in Places : q # r => Q[q] = P[q]
BY DEF Enter, Placing

\* The place and the item of a list that goes to an engine.
Sends(r, k, x, N) ==
  /\ r \in {1, 3} /\ (r = 3 => k = 1) /\ (r = 1 => k # 1) /\ k \in Nat \ {0}
  /\ x \in Item /\ x.req = N + 1 /\ x.lo = 1 /\ x.hi = k /\ x.top = k

\* What the lists that go to an engine have in common: all but the stream they enter.
LEMMA DispatchFull ==
  ASSUME Burst!BurstAssumption, NEW b \in Base, NEW P, NEW K, NEW c, NEW si, NEW sk, NEW cd,
         NEW G, NEW bn, NEW cb, NEW NB, NEW U, NEW A, NEW dum, NEW st,
         Good(b, P, K, c, si, sk, cd, G, bn, cb, NB, U, A, dum, st),
         NEW l, NEW last, NEW k, k = Count(l), NEW K2, NEW c2, c2 = Append(c, k),
         NEW bn2, bn2 = Append(bn, NB),
         DispatchRest(b, P, K2, c, k, c2, bn2, si, sk, NB, U, A, dum, st, l, last),
         UNCHANGED <<replies, burstRound, gen, burstOn, work, out, dynamic, sync, seen, sampled,
                     current, update>>,
         next' = [next EXCEPT !.sync = Burst!Succ(@), !.burst = Burst!Succ(@)],
         NEW r, NEW x, Sends(r, k, x, Len(c)), NEW Q, Q = Enter(P, r, x),
         Len(vds') <= Depth, \A e \in Burst!Engines : Len(cmd'[e]) <= Depth,
         Chain(Q, K2, b, dum, st)'
  PROVE  BurstInv'
<1>0. /\ Way(P, c, si, sk, cd, G, bn, cb, NB) /\ Ids(b, NB, G, cb, cd) /\ BurstTypes
      /\ Answers(c, si, sk, U, A, Len(replies))
  BY DEF Good
<1>1. PICK N : N = Len(c)
  OBVIOUS
<1>2. Placing(P) /\ c \in Seq(Nat) /\ N \in Nat /\ NB \in Nat /\ Progress(c, si, sk)
  BY <1>0, <1>1 DEF Way
<1>3. /\ r \in {1, 3} /\ (r = 3 => k = 1) /\ (r = 1 => k # 1) /\ k \in Nat \ {0}
      /\ x \in Item /\ x.req = N + 1 /\ x.lo = 1 /\ x.hi = k /\ x.top = k
  BY <1>1 DEF Sends
<1>4. Way(Q, c2, si, sk, cd, G, bn2, cb, NB + 1)
  BY <1>0, <1>1, <1>3, EnterWay
<1>5. Answers(c2, si, sk, U, A, Len(replies))'
  <2>1. PICK n : n = Len(replies) /\ n = Len(replies')
    OBVIOUS
  <2>2. Answers(c, si, sk, U, A, n)
    BY <1>0, <2>1
  <2>3. U = IF k = 0 THEN Append(U, Len(c) + 1) ELSE U
    BY <1>3
  <2>4. k \in Nat
    BY <1>3
  <2>5. Answers(c2, si, sk, U, A, n)
    BY <1>2, <2>2, <2>3, <2>4, AnswersEnter
  <2> QED
    BY <2>1, <2>5
<1>6. /\ KeyTable(K2, c2, b, bn2)' /\ Sampling(K2, si, sk)' /\ Stopping(P, dum, st)'
      /\ Len(lists') = N + 1 /\ next.sync = Id(b, N) /\ st = 0
      /\ Stream("answer", update, U, 0, K2, b) /\ Stream("answer", sampled, A, 0, K2, b)
      /\ IsSeq(replies) /\ (\A i \in 1..Len(replies) : AnswerIs(replies[i], K2[i]))
      /\ IsSeq(burstTodo') /\ (\A i \in 1..Len(burstTodo') : burstTodo'[i] \in Askable)
  BY <1>1 DEF DispatchRest
<1>7. Replying(U, A, K2, b)'
  BY <1>6 DEF Replying
<1>8. Ids(b, NB + 1, G, cb, cd)'
  <2>1. next = [sync |-> Id(b, N), burst |-> Id(b, NB), dyn |-> Id(b, G)]
    <3>1. next = [sync |-> Id(b, Len(lists)), burst |-> Id(b, NB), dyn |-> Id(b, G)]
      BY <1>0 DEF Ids
    <3>2. Id(b, Len(lists)) = Id(b, N)
      BY <1>6, <3>1
    <3> QED
      BY <3>1, <3>2
  <2>2. Burst!Succ(Id(b, N)) = Id(b, N + 1) /\ Burst!Succ(Id(b, NB)) = Id(b, NB + 1)
    BY <1>2, IdFacts
  <2>3. next' = [sync |-> Id(b, N + 1), burst |-> Id(b, NB + 1), dyn |-> Id(b, G)]
    BY <2>1, <2>2
  <2> QED
    BY <1>0, <1>6, <2>3 DEF Ids
<1>9. Stopping(Q, dum, st)'
  BY <1>6 DEF Stopping
<1>10. BurstTypes'
  BY <1>0, <1>6 DEF BurstTypes
<1>11. Good(b, Q, K2, c2, si, sk, cd, G, bn2, cb, NB + 1, U, A, dum, st)'
  BY <1>4, <1>5, <1>6, <1>7, <1>8, <1>9, <1>10 DEF Good
<1> QED
  BY <1>11 DEF BurstInv

\* The command for a list that lies in one word.
OneWord(l, k) ==
  Burst!Command(Burst!Align(l[1]), 1, l[1], l[1] + l[2], k.id, k.burst, TRUE, 0, k.last)

\* The single command that fetches a list inside one word.
LEMMA OneWordCommand ==
  ASSUME Burst!BurstAssumption, NEW l \in Nat \X Nat, l[2] # 0, Count(l) = 1,
         NEW k, k.l = l, k.c = 1, NEW b, NEW x, x.lo = 1, x.hi = 1,
         NEW v, v = OneWord(l, k)
  PROVE  CmdIs(v, x, k, b)
<1>0. PICK yes : yes = TRUE
  OBVIOUS
<1>1. v
        = [addr |-> Burst!Align(l[1]), len |-> 1, start |-> l[1], end |-> l[1] + l[2],
           id |-> k.id,
           burst |-> k.burst, ends |-> yes, dyn |-> 0, last |-> k.last]
  BY <1>0 DEF OneWord, Burst!Command
<1>2. PICK a \in Nat, s \in Nat, z \in Nat : a = Addr(l, 1) /\ a = Burst!Align(l[1]) /\ s = l[1]
           /\ z = l[2]
  <2>1. Addr(l, 1) = Align(l[1]) /\ Addr(l, 0 + 1) \in Nat
    BY AddrFacts
  <2>2. l[1] \in Nat /\ l[2] \in Nat
    OBVIOUS
  <2> QED
    BY <2>1, <2>2 DEF Align
<1>3. 1 <= MaxLen /\ Word \in Nat
  BY DEF Burst!BurstAssumption
<1>4. Burst!Unmasked(v, 0) = EntriesOf(l, 1)
  <2>a. v.addr = a /\ v.start = s /\ v.end = s + z
    BY <1>1, <1>2
  <2>1. Burst!Unmasked(v, 0)
          = {a + Word * 0 + j : j \in {j \in 0..(Word - 1) : a + j >= s /\ a + j < s + z}}
    BY <2>a DEF Burst!Unmasked
  <2>2. EntriesOf(l, 1) = {e \in a..(a + Word - 1) : s <= e /\ e < s + z}
    BY <1>2 DEF EntriesOf
  <2>3. Word * 0 = 0
    BY <1>3
  <2>4. ASSUME NEW e \in Burst!Unmasked(v, 0) PROVE e \in EntriesOf(l, 1)
    <3>1. PICK j \in 0..(Word - 1) : a + j >= s /\ a + j < s + z /\ e = a + 0 + j
      BY <2>1, <2>3
    <3>2. e \in a..(a + Word - 1) /\ s <= e /\ e < s + z
      BY <1>2, <1>3, <3>1
    <3> QED
      BY <2>2, <3>2
  <2>5. ASSUME NEW e \in EntriesOf(l, 1) PROVE e \in Burst!Unmasked(v, 0)
    <3>1. e \in a..(a + Word - 1) /\ s <= e /\ e < s + z
      BY <2>2
    <3>2. PICK j \in 0..(Word - 1) : j = e - a
      <4>1. e - a \in 0..(Word - 1)
        BY <1>2, <1>3, <3>1
      <4> QED
        BY <4>1
    <3>3. a + j >= s /\ a + j < s + z /\ e = a + 0 + j
      BY <1>2, <1>3, <3>1, <3>2
    <3> QED
      BY <2>1, <2>3, <3>3
  <2> QED
    BY <2>4, <2>5
<1>5. \A j \in 0..(x.hi - x.lo) : Burst!Unmasked(v, j) = EntriesOf(k.l, x.lo + j)
  <2>1. 0..(x.hi - x.lo) = {0} /\ x.lo + 0 = 1
    OBVIOUS
  <2> QED
    BY <1>4, <2>1
<1>6. v.len = x.hi - x.lo + 1
  <2>1. v.len = 1 /\ 1 - 1 + 1 = 1
    BY <1>1
  <2> QED
    BY <2>1
<1>7. v.addr = Addr(k.l, x.lo) /\ v.len <= MaxLen /\ v.id = k.id /\ v.burst = k.burst
      /\ v.last = k.last
  BY <1>1, <1>2, <1>3
<1>8. v.ends <=> x.hi = k.c
  <2>1. v.ends = yes
    BY <1>1
  <2>2. v.ends
    BY <1>0, <2>1, Zenon
  <2> QED
    BY <2>2
<1> QED
  BY <1>5, <1>6, <1>7, <1>8 DEF CmdIs

\* What vd_scheduler sends to cmd_generator.
LongList(l, k) ==
  [start |-> l[1], size |-> l[2], id |-> k.id, burst |-> k.burst, last |-> k.last]

\* How a list that is not empty leaves vd_scheduler.
SentSingle(v) ==
  Burst!Room(cmd["single"]) /\ cmd' = [cmd EXCEPT !["single"] = Append(@, v)] /\ vds' = vds
SentLong(v) == Burst!Room(vds) /\ vds' = Append(vds, v) /\ cmd' = cmd

\* A list that is not empty goes to the single engine or to cmd_generator.
LEMMA DispatchWays ==
  ASSUME Burst!Dispatch, NEW l, l = Head(burstTodo), l[2] # 0, NEW k, k.l = l,
         k.id = next.sync, k.burst = next.burst, k.last = LastList
  PROVE  /\ UNCHANGED <<replies, burstRound, gen, burstOn, work, out, dynamic, sync, seen,
                        sampled,
                        current, update>>
         /\ next' = [next EXCEPT !.sync = Burst!Succ(@), !.burst = Burst!Succ(@)]
         /\ \/ Align(l[1]) = Align(l[1] + l[2] - 1) /\ SentSingle(OneWord(l, k))
            \/ Align(l[1]) # Align(l[1] + l[2] - 1) /\ SentLong(LongList(l, k))
BY DEF Burst!Dispatch, SentSingle, SentLong, OneWord, LongList, LastList, Align

\* A list that is not empty is put on its way.
LEMMA DispatchSingleKeeps ==
  ASSUME Burst!BurstAssumption, NEW b \in Base, NEW P, NEW K, NEW c, NEW si, NEW sk, NEW cd,
         NEW G, NEW bn, NEW cb, NEW NB, NEW U, NEW A, NEW dum, NEW st,
         Good(b, P, K, c, si, sk, cd, G, bn, cb, NB, U, A, dum, st), Burst!Dispatch,
         Head(burstTodo)[2] # 0
  PROVE  BurstInv'
<1>0. /\ Way(P, c, si, sk, cd, G, bn, cb, NB) /\ Ids(b, NB, G, cb, cd) /\ BurstTypes
  BY DEF Good
<1>a. PICK l, last, k : l = Head(burstTodo) /\ last = LastList /\ k = Count(l)
  OBVIOUS
<1>b. PICK c2, bn2 : c2 = Append(c, k) /\ bn2 = Append(bn, NB)
  OBVIOUS
<1>1. PICK K2, N : K2 = Keys(lists', c2, b, bn2) /\ N = Len(c)
  OBVIOUS
<1>2. l \in Askable /\ DispatchRest(b, P, K2, c, k, c2, bn2, si, sk, NB, U, A, dum, st, l, last)
  BY <1>a, <1>b, <1>1, DispatchSame
<1>3. /\ l \in Nat \X Nat /\ k \in Nat /\ k # 0 /\ l[2] # 0
      /\ (Align(l[1]) = Align(l[1] + l[2] - 1) <=> k = 1)
  BY <1>a, <1>2, AskableType
<1>4. /\ c \in Seq(Nat) /\ N \in Nat /\ Placing(P)
  BY <1>0, <1>1 DEF Way
<1>5. PICK y : y = K2[N + 1]
  OBVIOUS
<1>6. /\ y = [l |-> l, last |-> last, c |-> k, id |-> Id(b, N), burst |-> Id(b, NB)]
      /\ next.sync = Id(b, N) /\ next.burst = Id(b, NB)
      /\ Chain(P, K2, b, dum, st) /\ st = 0 /\ dum["single"] = 0
  BY <1>1, <1>2, <1>5 DEF DispatchRest
<1>7. y.l = l /\ y.last = last /\ y.c = k /\ y.id = next.sync /\ y.burst = next.burst
  BY <1>6
<1>8. /\ UNCHANGED <<replies, burstRound, gen, burstOn, work, out, dynamic, sync, seen, sampled,
                     current, update>>
      /\ next' = [next EXCEPT !.sync = Burst!Succ(@), !.burst = Burst!Succ(@)]
      /\ \/ Align(l[1]) = Align(l[1] + l[2] - 1) /\ SentSingle(OneWord(l, y))
         \/ Align(l[1]) # Align(l[1] + l[2] - 1) /\ SentLong(LongList(l, y))
  <2>1. k.l = k.l /\ y.last = LastList
    BY <1>a, <1>7
  <2> QED
    BY <1>a, <1>3, <1>7, <2>1, DispatchWays
<1>9. PICK r, x : r = (IF k = 1 THEN 3 ELSE 1)
           /\ x = [req |-> N + 1, lo |-> 1, hi |-> k, num |-> 0, top |-> k]
  OBVIOUS
<1>10. Sends(r, k, x, N) /\ r \in Places /\ x \in Item /\ r \in {1, 3} /\ x.req = N + 1
       /\ x.lo = 1 /\ x.hi = k
  <2>1. x \in Item /\ x.req = N + 1 /\ x.lo = 1 /\ x.hi = k /\ x.top = k
    BY <1>3, <1>4, <1>9 DEF Item
  <2>2. r \in {1, 3} /\ (r = 3 => k = 1) /\ (r = 1 => k # 1) /\ r \in Places
    BY <1>9 DEF Places
  <2> QED
    BY <1>3, <2>1, <2>2 DEF Sends
<1>11. PICK Q : Q = Enter(P, r, x)
  OBVIOUS
<1>12. Q[r] = Append(P[r], x) /\ \A q \in Places : q # r => Q[q] = P[q]
  BY <1>4, <1>10, <1>11, EnterAt
<1>13. ASSUME Len(vds') <= Depth, \A e \in Burst!Engines : Len(cmd'[e]) <= Depth,
              Chain(Q, K2, b, dum, st)'
       PROVE  BurstInv'
  <2>1. Sends(r, k, x, Len(c))
    BY <1>1, <1>10
  <2> QED
    BY <1>a, <1>b, <1>2, <1>8, <1>11, <1>13, <2>1, DispatchFull
<1>14. /\ DOMAIN cmd = Burst!Engines /\ "single" \in Burst!Engines
       /\ Stream("list", vds, P[1], 0, K2, b) /\ Stream("cmd", cmd["single"], P[3], 0, K2, b)
       /\ P[1] \in Seq(Item) /\ P[3] \in Seq(Item) /\ 1 \in Places /\ 3 \in Places
       /\ 2 \in Places /\ 12 \in Places /\ 13 \in Places
  <2>1. 1 \in Places /\ 3 \in Places /\ 2 \in Places /\ 12 \in Places /\ 13 \in Places
    BY DEF Places
  <2>2. Stream("list", vds, P[1], 0, K2, b) /\ DOMAIN cmd = Burst!Engines
    BY <1>6 DEF Chain
  <2>3. At["single"] = 3 /\ "single" \in Burst!Engines
    BY AtFacts
  <2>4. Stream("cmd", cmd["single"], P[At["single"]], dum["single"], K2, b)
    BY <1>6, <2>3 DEF Chain
  <2>5. Stream("cmd", cmd["single"], P[3], 0, K2, b)
    BY <1>6, <2>3, <2>4
  <2> QED
    BY <1>4, <2>1, <2>2, <2>3, <2>5, PlacedItem
<1>15. /\ Len(vds) <= Depth /\ \A e \in Burst!Engines : Len(cmd[e]) <= Depth
  BY <1>0 DEF BurstTypes
<1>16. CASE k = 1
  <2>1. SentSingle(OneWord(l, y)) /\ r = 3
    BY <1>3, <1>8, <1>9, <1>16
  <2>2. PICK v : v = OneWord(l, y)
    OBVIOUS
  <2>3. Burst!Room(cmd["single"]) /\ cmd' = [cmd EXCEPT !["single"] = Append(@, v)]
        /\ vds' = vds
    BY <2>1, <2>2 DEF SentSingle
  <2>4. Like("cmd", v, x, K2, b)
    <3>1. CmdIs(v, x, y, b)
      BY <1>a, <1>3, <1>7, <1>10, <1>16, <2>2, OneWordCommand
    <3> QED
      BY <1>5, <1>10, <3>1 DEF Like
  <2>5. Stream("cmd", Append(cmd["single"], v), Append(P[3], x), 0, K2, b)
    BY <1>10, <1>14, <2>4, StreamWrite
  <2>6. /\ cmd'["single"] = Append(cmd["single"], v) /\ DOMAIN cmd' = Burst!Engines
        /\ \A e \in Burst!Engines : e # "single" => cmd'[e] = cmd[e]
    BY <1>14, <2>3
  <2>7. Len(vds') <= Depth /\ \A e \in Burst!Engines : Len(cmd'[e]) <= Depth
    <3>1. IsSeq(cmd["single"])
      BY <1>14 DEF Stream
    <3>2. Len(cmd'["single"]) <= Depth
      BY <2>3, <2>6, <3>1, DepthKept
    <3> QED
      BY <1>15, <2>3, <2>6, <3>2
  <2>8. ASSUME NEW g \in Burst!Engines
        PROVE  /\ Stream("cmd", cmd'[g], Q[At[g]], dum[g], K2, b)
               /\ Working(work'[g], Q[At[g] + 1], K2, b)
               /\ Stream("word", out'[g], Q[At[g] + 2], 0, K2, b)
    <3>0. /\ At["single"] = 3 /\ At[g] \in Places /\ At[g] + 1 \in Places
             /\ At[g] + 2 \in Places
          /\ (g # "single" => At[g] # 3) /\ At[g] + 1 # 3 /\ At[g] + 2 # 3
      <4>1. PICK z : z = At[g]
        OBVIOUS
      <4>2. z \in {3, 6, 9}
        BY <4>1, AtFacts
      <4>3. z + 1 # 3 /\ z + 2 # 3
        BY <4>2
      <4> QED
        BY <4>1, <4>3, AtFacts
    <3>1. Q[At[g] + 1] = P[At[g] + 1] /\ Q[At[g] + 2] = P[At[g] + 2]
      BY <1>12, <2>1, <3>0
    <3>2. Working(work'[g], Q[At[g] + 1], K2, b)
          /\ Stream("word", out'[g], Q[At[g] + 2], 0, K2, b)
      BY <1>6, <1>8, <3>1 DEF Chain
    <3>3. CASE g = "single"
      BY <1>6, <1>12, <2>1, <2>5, <2>6, <3>0, <3>2, <3>3
    <3>4. CASE g # "single"
      <4>1. Q[At[g]] = P[At[g]] /\ cmd'[g] = cmd[g]
        BY <1>12, <2>1, <2>6, <3>0, <3>4
      <4> QED
        BY <1>6, <3>2, <4>1 DEF Chain
    <3> QED
      BY <3>3, <3>4
  <2>9. Q[1] = P[1] /\ Q[2] = P[2] /\ Q[12] = P[12] /\ Q[13] = P[13]
    BY <1>12, <1>14, <2>1
  <2>10. Chain(Q, K2, b, dum, st)'
    BY <1>6, <1>8, <2>3, <2>6, <2>8, <2>9 DEF Chain
  <2> QED
    BY <1>13, <2>7, <2>10
<1>17. CASE k # 1
  <2>1. SentLong(LongList(l, y)) /\ r = 1
    BY <1>3, <1>8, <1>9, <1>17
  <2>2. PICK v : v = LongList(l, y)
    OBVIOUS
  <2>3. Burst!Room(vds) /\ vds' = Append(vds, v) /\ cmd' = cmd
    BY <2>1, <2>2 DEF SentLong
  <2>4. Like("list", v, x, K2, b)
    <3>1. ListIs(v, y)
      BY <1>7, <2>2 DEF LongList, ListIs
    <3> QED
      BY <1>5, <1>10, <3>1 DEF Like
  <2>5. Stream("list", Append(vds, v), Append(P[1], x), 0, K2, b)
    BY <1>10, <1>14, <2>4, StreamWrite
  <2>6. Stream("list", vds', Q[1], 0, K2, b)
    BY <1>12, <2>1, <2>3, <2>5
  <2>7. Len(vds') <= Depth /\ \A e \in Burst!Engines : Len(cmd'[e]) <= Depth
    <3>1. IsSeq(vds)
      BY <1>14 DEF Stream
    <3> QED
      BY <1>15, <2>3, <3>1, DepthKept
  <2>8. ASSUME NEW g \in Burst!Engines
        PROVE  /\ Stream("cmd", cmd'[g], Q[At[g]], dum[g], K2, b)
               /\ Working(work'[g], Q[At[g] + 1], K2, b)
               /\ Stream("word", out'[g], Q[At[g] + 2], 0, K2, b)
    <3>0. /\ At[g] \in Places /\ At[g] + 1 \in Places /\ At[g] + 2 \in Places
          /\ At[g] # 1 /\ At[g] + 1 # 1 /\ At[g] + 2 # 1
      BY AtApart
    <3>1. Q[At[g]] = P[At[g]] /\ Q[At[g] + 1] = P[At[g] + 1] /\ Q[At[g] + 2] = P[At[g] + 2]
      BY <1>12, <2>1, <3>0
    <3> QED
      BY <1>6, <1>8, <2>3, <3>1 DEF Chain
  <2>9. Q[2] = P[2] /\ Q[12] = P[12] /\ Q[13] = P[13]
    BY <1>12, <1>14, <2>1
  <2>10. Chain(Q, K2, b, dum, st)'
    BY <1>6, <1>8, <2>3, <2>6, <2>8, <2>9 DEF Chain
  <2> QED
    BY <1>13, <2>7, <2>10
<1> QED
  BY <1>16, <1>17

-----------------------------------------------------------------------------
(***************************************************************************)
(* The lists and commands that make the engines return, and cmd_generator. *)
(***************************************************************************)

\* The dummy command for the single engine, written so that its flags are in one place.
StopWord == Burst!Command(0, 1, 0, 0, Burst!Dummy, 0, TRUE, 0, TRUE)

\* The dummy command makes an engine return.
LEMMA StopWordStops == Stops("cmd", StopWord)
BY DEF StopWord, Burst!Command, Stops

\* vd_scheduler sends the dummy command to the single engine.
LEMMA StopSingleKeeps ==
  ASSUME Burst!BurstAssumption, NEW b \in Base, NEW P, NEW K, NEW c, NEW si, NEW sk, NEW cd,
         NEW G, NEW bn, NEW cb, NEW NB, NEW U, NEW A, NEW dum, NEW st,
         Good(b, P, K, c, si, sk, cd, G, bn, cb, NB, U, A, dum, st), Burst!StopSingle
  PROVE  BurstInv'
<1>0. /\ Way(P, c, si, sk, cd, G, bn, cb, NB) /\ KeyTable(K, c, b, bn)
         /\ Chain(P, K, b, dum, st)
      /\ Sampling(K, si, sk) /\ Ids(b, NB, G, cb, cd) /\ Stopping(P, dum, st) /\ BurstTypes
  BY DEF Good
<1>1. PICK v : v = StopWord
  OBVIOUS
<1>2. /\ burstPc = "stopSingle" /\ Burst!Room(cmd["single"])
      /\ cmd' = [cmd EXCEPT !["single"] = Append(@, v)] /\ burstPc' = "stopDynamic"
      /\ UNCHANGED <<lists, replies, burstRound, burstTodo, next, update, vds, gen, burstOn,
                     work,
                     out, dynamic, sync, seen, sampled, current>>
  BY <1>1 DEF Burst!StopSingle, StopWord
<1>3. /\ Answers(c, si, sk, U, A, Len(replies))' /\ KeyTable(K, c, b, bn)'
         /\ Replying(U, A, K, b)'
      /\ Sampling(K, si, sk)'
  BY <1>0, <1>2, RestKept, SeenKept
<1>4. Ids(b, NB, G, cb, cd)'
  BY <1>0, <1>2 DEF Ids
<1>5. /\ DOMAIN cmd = Burst!Engines /\ "single" \in Burst!Engines /\ At["single"] = 3
      /\ Stream("cmd", cmd["single"], P[3], dum["single"], K, b) /\ P[3] \in Seq(Item)
  <2>1. 3 \in Places /\ Placing(P)
    BY <1>0 DEF Places, Way
  <2> QED
    BY <1>0, <2>1, AtFacts, PlacedItem DEF Chain
<1>6. dum["single"] = 0 /\ dum \in [Burst!Engines -> {0, 1}] /\ st = 0 /\ burstTodo = << >>
  BY <1>0, <1>2, <1>5 DEF Stopping
<1>7. PICK D : D = [dum EXCEPT !["single"] = 1]
  OBVIOUS
<1>8. /\ D \in [Burst!Engines -> {0, 1}] /\ D["single"] = 1
      /\ \A f \in Burst!Engines : f # "single" => D[f] = dum[f]
  BY <1>5, <1>6, <1>7
<1>9. Stream("cmd", Append(cmd["single"], v), P[3], 1, K, b)
  BY <1>1, <1>5, <1>6, StopWordStops, StreamWrite
<1>10. /\ cmd'["single"] = Append(cmd["single"], v) /\ DOMAIN cmd' = Burst!Engines
       /\ \A e \in Burst!Engines : e # "single" => cmd'[e] = cmd[e]
  BY <1>2, <1>5
<1>11. ASSUME NEW g \in Burst!Engines
       PROVE  /\ Stream("cmd", cmd'[g], P[At[g]], D[g], K, b)
              /\ Working(work'[g], P[At[g] + 1], K, b)
              /\ Stream("word", out'[g], P[At[g] + 2], 0, K, b)
  <2>1. Working(work'[g], P[At[g] + 1], K, b) /\ Stream("word", out'[g], P[At[g] + 2], 0, K, b)
    BY <1>0, <1>2 DEF Chain
  <2>2. CASE g = "single"
    BY <1>5, <1>8, <1>9, <1>10, <2>1, <2>2
  <2>3. CASE g # "single"
    <3>1. cmd'[g] = cmd[g] /\ D[g] = dum[g]
      BY <1>8, <1>10, <2>3
    <3> QED
      BY <1>0, <2>1, <3>1 DEF Chain
  <2> QED
    BY <2>2, <2>3
<1>12. Chain(P, K, b, D, st)'
  BY <1>0, <1>2, <1>10, <1>11 DEF Chain
<1>13. Stopping(P, D, st)'
  <2>1. "long" \in Burst!Engines /\ "one" \in Burst!Engines
    BY AtFacts
  <2>2. D["long"] = dum["long"] /\ D["one"] = dum["one"]
    BY <1>8, <2>1
  <2> QED
    BY <1>0, <1>2, <1>6, <1>8, <2>2 DEF Stopping
<1>14. BurstTypes'
  <2>1. Len(cmd'["single"]) <= Depth
    <3>1. IsSeq(cmd["single"])
      BY <1>5 DEF Stream
    <3> QED
      BY <1>2, <1>10, <3>1, DepthKept
  <2>2. \A e \in Burst!Engines : Len(cmd'[e]) <= Depth /\ Len(out'[e]) <= Depth
    BY <1>0, <1>2, <1>10, <2>1 DEF BurstTypes
  <2> QED
    BY <1>0, <1>2, <2>2 DEF BurstTypes
<1>15. Good(b, P, K, c, si, sk, cd, G, bn, cb, NB, U, A, D, st)'
  BY <1>0, <1>3, <1>4, <1>12, <1>13, <1>14 DEF Good
<1> QED
  BY <1>15 DEF BurstInv

\* vd_scheduler sends cmd_generator the list that makes the other engines return.
LEMMA StopDynamicKeeps ==
  ASSUME Burst!BurstAssumption, NEW b \in Base, NEW P, NEW K, NEW c, NEW si, NEW sk, NEW cd,
         NEW G, NEW bn, NEW cb, NEW NB, NEW U, NEW A, NEW dum, NEW st,
         Good(b, P, K, c, si, sk, cd, G, bn, cb, NB, U, A, dum, st), Burst!StopDynamic
  PROVE  BurstInv'
<1>0. /\ Way(P, c, si, sk, cd, G, bn, cb, NB) /\ KeyTable(K, c, b, bn)
         /\ Chain(P, K, b, dum, st)
      /\ Sampling(K, si, sk) /\ Ids(b, NB, G, cb, cd) /\ Stopping(P, dum, st) /\ BurstTypes
  BY DEF Good
<1>2. /\ burstPc = "stopDynamic" /\ Burst!Room(vds)
      /\ vds' = Append(vds, StopList) /\ burstPc' = "main"
      /\ UNCHANGED <<lists, replies, burstRound, burstTodo, next, update, cmd, gen, burstOn,
                     work,
                     out, dynamic, sync, seen, sampled, current>>
  BY DEF Burst!StopDynamic, StopList
<1>3. /\ Answers(c, si, sk, U, A, Len(replies))' /\ KeyTable(K, c, b, bn)'
         /\ Replying(U, A, K, b)'
      /\ Sampling(K, si, sk)'
  BY <1>0, <1>2, RestKept, SeenKept
<1>4. Ids(b, NB, G, cb, cd)'
  BY <1>0, <1>2 DEF Ids
<1>5. st = 0 /\ burstTodo = << >>
  BY <1>0, <1>2 DEF Stopping
<1>6. Stream("list", vds, P[1], 0, K, b) /\ P[1] \in Seq(Item)
  <2>1. 1 \in Places /\ Placing(P)
    BY <1>0 DEF Places, Way
  <2> QED
    BY <1>0, <1>5, <2>1, PlacedItem DEF Chain
<1>7. Stream("list", vds', P[1], 1, K, b)
  <2>1. Stops("list", StopList)
    BY DEF Stops
  <2> QED
    BY <1>2, <1>6, <2>1, StreamWrite
<1>8. Cutter(gen, P[2], 1, K)
  <2>1. Cutter(gen, P[2], 0, K)
    BY <1>0, <1>5 DEF Chain
  <2> QED
    BY <2>1 DEF Cutter
<1>9. Chain(P, K, b, dum, 1)'
  <2>1. ASSUME NEW g \in Burst!Engines
        PROVE  /\ Stream("cmd", cmd'[g], P[At[g]], dum[g], K, b)
               /\ Working(work'[g], P[At[g] + 1], K, b)
               /\ Stream("word", out'[g], P[At[g] + 2], 0, K, b)
    BY <1>0, <1>2 DEF Chain
  <2> QED
    BY <1>0, <1>2, <1>7, <1>8, <2>1 DEF Chain
<1>10. Stopping(P, dum, 1)'
  BY <1>0, <1>2, <1>5 DEF Stopping
<1>11. BurstTypes'
  <2>1. IsSeq(vds)
    BY <1>6 DEF Stream
  <2>2. Len(vds') <= Depth
    BY <1>2, <2>1, DepthKept
  <2> QED
    BY <1>0, <1>2, <2>2 DEF BurstTypes
<1>12. Good(b, P, K, c, si, sk, cd, G, bn, cb, NB, U, A, dum, 1)'
  BY <1>0, <1>3, <1>4, <1>9, <1>10, <1>11 DEF Good
<1> QED
  BY <1>12 DEF BurstInv

\* cmd_generator takes a list, or the one that stops the engines.
LEMMA TakeListKeeps ==
  ASSUME Burst!BurstAssumption, NEW b \in Base, NEW P, NEW K, NEW c, NEW si, NEW sk, NEW cd,
         NEW G, NEW bn, NEW cb, NEW NB, NEW U, NEW A, NEW dum, NEW st,
         Good(b, P, K, c, si, sk, cd, G, bn, cb, NB, U, A, dum, st), Burst!TakeList
  PROVE  BurstInv'
<1>0. /\ Way(P, c, si, sk, cd, G, bn, cb, NB) /\ KeyTable(K, c, b, bn)
         /\ Chain(P, K, b, dum, st)
      /\ Sampling(K, si, sk) /\ Ids(b, NB, G, cb, cd) /\ Stopping(P, dum, st) /\ BurstTypes
  BY DEF Good
<1>1. PICK v : v = Head(vds)
  OBVIOUS
<1>2. /\ gen = << >> /\ vds # << >> /\ vds' = Tail(vds) /\ gen' = <<v, Align(v.start)>>
      /\ UNCHANGED <<lists, replies, burstRound, burstTodo, burstPc, next, update, cmd, burstOn,
                     work,
                     out, dynamic, sync, seen, sampled, current>>
  BY <1>1 DEF Burst!TakeList, Burst!Idle, Align
<1>3. /\ Answers(c, si, sk, U, A, Len(replies))' /\ KeyTable(K, c, b, bn)'
         /\ Replying(U, A, K, b)'
      /\ Sampling(K, si, sk)'
  BY <1>0, <1>2, RestKept, SeenKept
<1>4. Ids(b, NB, G, cb, cd)'
  BY <1>0, <1>2 DEF Ids
<1>5. /\ 1 \in Places /\ 2 \in Places /\ 12 \in Places /\ 13 \in Places
      /\ Placing(P) /\ P[1] \in Seq(Item) /\ c \in Seq(Nat)
  <2>1. 1 \in Places /\ 2 \in Places /\ 12 \in Places /\ 13 \in Places /\ Placing(P)
    BY <1>0 DEF Places, Way
  <2> QED
    BY <1>0, <2>1, PlacedItem DEF Way
<1>6. P[2] = << >> /\ st \notin {2, 3}
  <2>1. Cutter(gen, P[2], st, K)
    BY <1>0 DEF Chain
  <2>2. \A x, y : gen # <<x, y>>
    BY <1>2
  <2> QED
    BY <2>1, <2>2 DEF Cutter
<1>7. PICK d : d = IF st = 1 THEN 1 ELSE 0
  OBVIOUS
<1>8. /\ P[1] # << >> => Like("list", v, P[1][1], K, b)
         /\ Stream("list", vds', Tail(P[1]), d, K, b)
      /\ P[1] = << >> => d = 1 /\ v = StopList /\ Stream("list", vds', P[1], 0, K, b)
  <2>1. Stream("list", vds, P[1], d, K, b)
    BY <1>0, <1>7 DEF Chain
  <2>2. /\ P[1] # << >> => Like("list", Head(vds), P[1][1], K, b)
           /\ Stream("list", Tail(vds), Tail(P[1]), d, K, b)
        /\ P[1] = << >> => d = 1 /\ Stops("list", Head(vds))
           /\ Stream("list", Tail(vds), P[1], 0, K, b)
    <3>1. PICK t \in Seq(Item) : t = P[1]
      BY <1>5
    <3>2. Stream("list", vds, t, d, K, b) /\ vds # << >>
      BY <1>2, <2>1, <3>1
    <3>3. /\ t # << >> => Like("list", Head(vds), t[1], K, b)
             /\ Stream("list", Tail(vds), Tail(t), d, K, b)
          /\ t = << >> => d = 1 /\ Stops("list", Head(vds))
             /\ Stream("list", Tail(vds), t, 0, K, b)
      BY <3>2, StreamRead
    <3> QED
      BY <3>1, <3>3
  <2> QED
    BY <1>1, <1>2, <2>2 DEF Stops
<1>9. BurstTypes'
  <2>1. Len(vds') <= Depth
    <3>1. IsSeq(vds) /\ Len(vds) <= Depth
      BY <1>0 DEF Chain, Stream, BurstTypes
    <3> QED
      BY <1>2, <3>1, DepthKept
  <2> QED
    BY <1>0, <1>2, <2>1 DEF BurstTypes
<1>10. CASE P[1] # << >>
  <2>1. PICK h \in Item :
           /\ h = P[1][1] /\ 1 \in 1..Len(P[1]) /\ Stands(1, h, c)
           /\ h.req \in 1..Len(c) /\ h.lo \in Nat /\ h.hi \in Nat /\ h.top \in Nat
              /\ h.num \in Nat
           /\ 1 <= h.lo /\ h.lo <= h.hi /\ h.hi <= h.top /\ h.top <= c[h.req]
           /\ c[h.req] \in Nat /\ c[h.req] # 0 /\ FrontOf(P, 1, h) /\ c \in Seq(Nat)
    BY <1>0, <1>5, <1>10, HeadFacts
  <2>2. h.lo = 1 /\ h.hi = c[h.req] /\ c[h.req] # 1
    BY <2>1 DEF Stands
  <2>3. PICK Q : Q = MoveTo(P, 1, 2, h)
    OBVIOUS
  <2>4. Way(Q, c, si, sk, cd, G, bn, cb, NB)
    <3>1. Stands(2, h, c)
      BY <2>1, <2>2 DEF Stands
    <3>2. PICK p, r : p = 1 /\ r = 2
      OBVIOUS
    <3>3. /\ p \in Places /\ r \in Places /\ <<p, r>> \in Routes /\ p # 2 /\ r \notin {12, 13}
      BY <1>5, <3>2 DEF Routes
    <3>4. FrontOf(P, p, h) /\ h = P[p][1] /\ ~(h.hi < P[p][1].hi) /\ Stands(r, h, c)
      BY <2>1, <3>1, <3>2
    <3>5. h.num = P[p][1].num /\ h.top = P[p][1].top
      BY <3>4
    <3>6. Way(MoveTo(P, p, r, h), c, si, sk, cd, G, bn, cb, NB)
      BY <1>0, <3>3, <3>4, <3>5, StepInside
    <3> QED
      BY <2>3, <3>2, <3>6
  <2>5. /\ \A q \in Places : q # 1 /\ q # 2 => Q[q] = P[q]
        /\ Q[2] = Append(P[2], h) /\ Q[1] = Tail(P[1])
    <3>1. PICK p, r : p = 1 /\ r = 2
      OBVIOUS
    <3>2. /\ p \in Places /\ r \in Places /\ p # r /\ P[p] # << >> /\ h = P[p][1]
          /\ Q = MoveTo(P, p, r, h) /\ Placing(P)
      BY <1>5, <1>10, <2>1, <2>3, <3>1
    <3>3. /\ \A q \in Places : q # p /\ q # r => Q[q] = P[q]
          /\ Q[r] = Append(P[r], h) /\ Q[p] = Tail(P[p])
      BY <3>2, MoveWhole
    <3> QED
      BY <3>1, <3>3
  <2>6. Q[2] = <<h>> /\ Len(Q[2]) = 1 /\ Q[2][1] = h
    <3>1. Q[2] = <<h>>
      BY <1>6, <2>5
    <3> QED
      BY <3>1
  <2>7. st \in {0, 1}
    BY <1>0, <1>6, <1>10 DEF Stopping
  <2>8. Cutter(gen', Q[2], st, K)
    <3>1. PICK i \in 1..Len(c) : i = h.req
      BY <2>1
    <3>2. PICK k : k = K[i]
      OBVIOUS
    <3>3. k.l \in Nat \X Nat /\ k.c = c[i]
      <4>1. K[i].l \in Nat \X Nat /\ K[i].c = c[i]
        BY <1>0, <1>5, ListOf
      <4> QED
        BY <3>2, <4>1
    <3>4. ListIs(v, k)
      BY <1>8, <1>10, <2>1, <3>1, <3>2 DEF Like
    <3>5. gen' = <<v, Addr(k.l, 1)>>
      <4>1. v.start = k.l[1] /\ Addr(k.l, 1) = Align(k.l[1])
        BY <3>3, <3>4, AddrFacts DEF ListIs
      <4> QED
        BY <1>2, <4>1
    <3>6. Starts(1, k.c)
      <4>1. 0 \in Nat /\ 1 = 0 * MaxLen + 1
        BY DEF Burst!BurstAssumption
      <4> QED
        BY <4>1 DEF Starts
    <3>7. K[Q[2][1].req] = k /\ Q[2][1].lo = 1
      BY <2>2, <2>6, <3>1, <3>2
    <3> QED
      BY <2>6, <2>7, <3>4, <3>5, <3>6, <3>7 DEF Cutter
  <2>9. ASSUME NEW g \in Burst!Engines
        PROVE  /\ Stream("cmd", cmd'[g], Q[At[g]], dum[g], K, b)
               /\ Working(work'[g], Q[At[g] + 1], K, b)
               /\ Stream("word", out'[g], Q[At[g] + 2], 0, K, b)
    <3>1. /\ At[g] \in Places /\ At[g] + 1 \in Places /\ At[g] + 2 \in Places
          /\ At[g] \notin {1, 2} /\ At[g] + 1 \notin {1, 2} /\ At[g] + 2 \notin {1, 2}
      BY AtApart
    <3>2. Q[At[g]] = P[At[g]] /\ Q[At[g] + 1] = P[At[g] + 1] /\ Q[At[g] + 2] = P[At[g] + 2]
      BY <2>5, <3>1
    <3> QED
      BY <1>0, <1>2, <3>2 DEF Chain
  <2>10. Q[12] = P[12] /\ Q[13] = P[13]
    BY <1>5, <2>5
  <2>11. Stream("list", vds', Q[1], IF st = 1 THEN 1 ELSE 0, K, b)
    BY <1>7, <1>8, <1>10, <2>5
  <2>12. Chain(Q, K, b, dum, st)'
    BY <1>0, <1>2, <2>8, <2>9, <2>10, <2>11 DEF Chain
  <2>13. Stopping(Q, dum, st)'
    BY <1>0, <1>2, <2>7 DEF Stopping
  <2>14. Good(b, Q, K, c, si, sk, cd, G, bn, cb, NB, U, A, dum, st)'
    BY <1>3, <1>4, <1>9, <2>4, <2>12, <2>13 DEF Good
  <2> QED
    BY <2>14 DEF BurstInv
<1>11. CASE P[1] = << >>
  <2>1. st = 1 /\ v = StopList /\ Stream("list", vds', P[1], 0, K, b)
    BY <1>7, <1>8, <1>11
  <2>2. gen' = <<StopList, 0>>
    <3>1. StopList.start = 0
      BY DEF StopList
    <3>2. Align(0) = 0
      <4>1. Off(0) = 0 /\ 0 < Word /\ 0 \in Nat
        BY OffType DEF Burst!BurstAssumption
      <4>2. Align(Off(0) + 0) = Off(0)
        BY <4>1, AlignIs
      <4>3. Off(0) + 0 = 0
        BY <4>1
      <4> QED
        BY <4>1, <4>2, <4>3
    <3> QED
      BY <1>2, <2>1, <3>1, <3>2
  <2>3. Cutter(gen', P[2], 2, K)
    BY <1>6, <2>2 DEF Cutter
  <2>4. ASSUME NEW g \in Burst!Engines
        PROVE  /\ Stream("cmd", cmd'[g], P[At[g]], dum[g], K, b)
               /\ Working(work'[g], P[At[g] + 1], K, b)
               /\ Stream("word", out'[g], P[At[g] + 2], 0, K, b)
    BY <1>0, <1>2 DEF Chain
  <2>5. Chain(P, K, b, dum, 2)'
    BY <1>0, <1>2, <2>1, <2>3, <2>4 DEF Chain
  <2>6. Stopping(P, dum, 2)'
    BY <1>0, <1>2, <1>11, <2>1 DEF Stopping
  <2>7. Good(b, P, K, c, si, sk, cd, G, bn, cb, NB, U, A, dum, 2)'
    BY <1>0, <1>3, <1>4, <1>9, <2>5, <2>6 DEF Good
  <2> QED
    BY <2>7 DEF BurstInv
<1> QED
  BY <1>10, <1>11

\* The command cmd_generator cuts from list v at address f, n words long.
CutEnds(v, f, n) == f + n * Word = Burst!EndAddr(v)
CutLast(v, f, n) == CutEnds(v, f, n) /\ v.last
CutCmd(v, f, n) ==
  Burst!Command(f, n, Burst!TheLast(f, v.start), Burst!TheFirst(f + n * Word, v.start + v.size),
                v.id, v.burst, CutEnds(v, f, n), next.dyn, CutLast(v, f, n))
CutSize(v, f) == IF Burst!EndAddr(v) >= f + MaxLen * Word THEN MaxLen ELSE 1
EngineFor(n) == IF n = MaxLen THEN "long" ELSE "one"

\* What a cut changes.
LEMMA CutWays ==
  ASSUME Burst!Cut, NEW v, NEW f, gen = <<v, f>>, NEW n, n = CutSize(v, f),
         NEW e, e = EngineFor(n),
         NEW w, w = CutCmd(v, f, n)
  PROVE  /\ Burst!Room(cmd[e]) /\ cmd' = [cmd EXCEPT ![e] = Append(@, w)]
         /\ next'
              = [next EXCEPT !.dyn = IF v.id = Burst!Dummy THEN next.dyn
                 ELSE Burst!Succ(next.dyn)]
         /\ CutEnds(v, f, n) => gen' = << >>
         /\ ~CutEnds(v, f, n) => gen' = <<v, f + n * Word>>
         /\ UNCHANGED <<lists, replies, burstRound, burstTodo, burstPc, update, vds, burstOn,
                        work,
                        out, dynamic, sync, seen, sampled, current>>
<1>1. gen[1] = v /\ gen[2] = f
  OBVIOUS
<1> QED
  BY <1>1 DEF Burst!Cut, CutSize, EngineFor, CutCmd, CutEnds, CutLast, Burst!NextDyn, Burst!Idle

\* What the command says.
LEMMA CutFields ==
  ASSUME NEW v, NEW f, NEW n, NEW w, w = CutCmd(v, f, n)
  PROVE  /\ w.addr = f /\ w.len = n /\ w.id = v.id /\ w.burst = v.burst /\ w.dyn = next.dyn
         /\ w.start = Burst!TheLast(f, v.start)
         /\ w.end = Burst!TheFirst(f + n * Word, v.start + v.size)
         /\ w.ends = CutEnds(v, f, n) /\ w.last = CutLast(v, f, n)
<1>1. PICK ends, last : ends = CutEnds(v, f, n) /\ last = CutLast(v, f, n)
  OBVIOUS
<1>2. w
        = Burst!Command(f, n, Burst!TheLast(f, v.start),
                        Burst!TheFirst(f + n * Word, v.start + v.size),
                        v.id, v.burst, ends, next.dyn, last)
  BY <1>1 DEF CutCmd
<1>3. /\ w.addr = f /\ w.len = n /\ w.id = v.id /\ w.burst = v.burst /\ w.dyn = next.dyn
      /\ w.start = Burst!TheLast(f, v.start)
      /\ w.end = Burst!TheFirst(f + n * Word, v.start + v.size)
      /\ w.ends = ends /\ w.last = last
  BY <1>2 DEF Burst!Command
<1> QED
  BY <1>1, <1>3

\* What a cut does to the streams and registers.
CutMoves(P, Q, K, b, dum, D, st, st2, e, w) ==
  /\ Placing(P) /\ Chain(P, K, b, dum, st) /\ e \in {"one", "long"}
  /\ cmd' = [cmd EXCEPT ![e] = Append(@, w)] /\ UNCHANGED <<vds, work, out, dynamic, sync>>
  /\ \A q \in Places : q # 2 /\ q # At[e] => Q[q] = P[q]
  /\ \A g \in Burst!Engines : g # e => D[g] = dum[g]
  /\ Stream("cmd", Append(cmd[e], w), Q[At[e]], D[e], K, b)
  /\ Cutter(gen', Q[2], st2, K)
  /\ Stream("list", vds, Q[1], IF st2 = 1 THEN 1 ELSE 0, K, b)

\* A command joins the stream of its engine; the list it is cut from may move on.
LEMMA CutChain ==
  ASSUME NEW P, NEW Q, NEW K, NEW b, NEW dum, NEW D, NEW st, NEW st2, NEW e, NEW w,
         CutMoves(P, Q, K, b, dum, D, st, st2, e, w)
  PROVE  Chain(Q, K, b, D, st2)'
<1>0. /\ Placing(P) /\ Chain(P, K, b, dum, st) /\ e \in {"one", "long"}
      /\ cmd' = [cmd EXCEPT ![e] = Append(@, w)] /\ UNCHANGED <<vds, work, out, dynamic, sync>>
      /\ \A q \in Places : q # 2 /\ q # At[e] => Q[q] = P[q]
      /\ \A g \in Burst!Engines : g # e => D[g] = dum[g]
      /\ Stream("cmd", Append(cmd[e], w), Q[At[e]], D[e], K, b)
      /\ Cutter(gen', Q[2], st2, K)
      /\ Stream("list", vds, Q[1], IF st2 = 1 THEN 1 ELSE 0, K, b)
  BY DEF CutMoves
<1>1. /\ e \in Burst!Engines /\ At[e] \in {6, 9} /\ DOMAIN cmd = Burst!Engines
      /\ 1 \in Places /\ 12 \in Places /\ 13 \in Places
  BY <1>0, AtFacts DEF Chain, Places
<1>2. /\ cmd'[e] = Append(cmd[e], w) /\ DOMAIN cmd' = Burst!Engines
      /\ \A g \in Burst!Engines : g # e => cmd'[g] = cmd[g]
  BY <1>0, <1>1
<1>3. Q[1] = P[1] /\ Q[12] = P[12] /\ Q[13] = P[13]
  <2>1. PICK z : z = At[e]
    OBVIOUS
  <2>2. 1 # 2 /\ 12 # 2 /\ 13 # 2 /\ 1 # z /\ 12 # z /\ 13 # z
    BY <1>1, <2>1
  <2> QED
    BY <1>0, <1>1, <2>1, <2>2
<1>4. ASSUME NEW g \in Burst!Engines
      PROVE  /\ Stream("cmd", cmd'[g], Q[At[g]], D[g], K, b)
             /\ Working(work'[g], Q[At[g] + 1], K, b)
             /\ Stream("word", out'[g], Q[At[g] + 2], 0, K, b)
  <2>1. PICK y, z : y = At[g] /\ z = At[e]
    OBVIOUS
  <2>2. /\ y \in {3, 6, 9} /\ z \in {6, 9} /\ y \in Places /\ y + 1 \in Places
           /\ y + 2 \in Places
        /\ (g # e => y # z)
    BY <1>1, <2>1, AtFacts
  <2>3. y # 2 /\ y + 1 # 2 /\ y + 2 # 2 /\ y + 1 # z /\ y + 2 # z
    BY <2>2
  <2>4. Q[y + 1] = P[y + 1] /\ Q[y + 2] = P[y + 2] /\ (g # e => Q[y] = P[y])
    BY <1>0, <2>1, <2>2, <2>3
  <2>5. /\ Stream("cmd", cmd[g], P[y], dum[g], K, b) /\ Working(work[g], P[y + 1], K, b)
        /\ Stream("word", out[g], P[y + 2], 0, K, b)
    BY <1>0, <2>1 DEF Chain
  <2>6. Stream("cmd", cmd'[g], Q[y], D[g], K, b)
    <3>1. CASE g = e
      BY <1>0, <1>2, <2>1, <3>1
    <3>2. CASE g # e
      BY <1>0, <1>2, <2>4, <2>5, <3>2
    <3> QED
      BY <3>1, <3>2
  <2> QED
    BY <1>0, <2>1, <2>4, <2>5, <2>6
<1> QED
  BY <1>0, <1>2, <1>3, <1>4 DEF Chain

\* The list that stops the engines is one long burst and one word.
LEMMA StopSizes ==
  ASSUME Burst!BurstAssumption
  PROVE  /\ CutSize(StopList, 0) = MaxLen /\ ~CutEnds(StopList, 0, MaxLen)
         /\ CutSize(StopList, MaxLen * Word) = 1 /\ CutEnds(StopList, MaxLen * Word, 1)
         /\ MaxLen # 1 /\ 0 + MaxLen * Word = MaxLen * Word
<1>1. PICK Z, M : Z = MaxLen * Word /\ M = MaxLen + 1
  OBVIOUS
<1>2. /\ MaxLen \in Nat /\ M \in Nat /\ 1 < MaxLen /\ Off(MaxLen) = Z /\ Z \in Nat
      /\ Word \in Nat /\ 0 < Word /\ 0 \in Nat /\ 1 \in Nat
  BY <1>1, OffType DEF Burst!BurstAssumption, Off
<1>3. Off(M) = Z + Word /\ Off(M) = M * Word
  BY <1>1, <1>2, OffAdd, OffType DEF Off
<1>4. Word + Word <= Z
  BY <1>2, OffLess, OffType
<1>5. StopList.start = 0 /\ StopList.size = Z + Word
  BY <1>1, <1>3 DEF StopList, Burst!DummySize
<1>6. Burst!EndAddr(StopList) = Z + Word
  <2>1. Align(Off(M) + 0) = Off(M)
    BY <1>2, AlignIs
  <2>2. Off(M) + 0 = Z + Word
    BY <1>2, <1>3
  <2>3. Burst!Align(Z + Word) = Z + Word
    BY <1>3, <2>1, <2>2 DEF Align
  <2>4. StopList.start + StopList.size = Z + Word
    BY <1>2, <1>5
  <2> QED
    BY <2>3, <2>4 DEF Burst!EndAddr
<1>7. 1 * Word = Word /\ 0 + Z = Z /\ Z + Word >= 0 + Z /\ ~(Z + Word >= Z + Z)
      /\ 0 + Z # Z + Word
  BY <1>2, <1>4
<1> QED
  BY <1>1, <1>2, <1>6, <1>7 DEF CutSize, CutEnds

\* cmd_generator cuts the list that stops the engines: a dummy command for each.
LEMMA CutStopKeeps ==
  ASSUME Burst!BurstAssumption, NEW b \in Base, NEW P, NEW K, NEW c, NEW si, NEW sk, NEW cd,
         NEW G, NEW bn, NEW cb, NEW NB, NEW U, NEW A, NEW dum, NEW st,
         Good(b, P, K, c, si, sk, cd, G, bn, cb, NB, U, A, dum, st), Burst!Cut, st \in {2, 3}
  PROVE  BurstInv'
<1>0. /\ Way(P, c, si, sk, cd, G, bn, cb, NB) /\ KeyTable(K, c, b, bn)
         /\ Chain(P, K, b, dum, st)
      /\ Sampling(K, si, sk) /\ Ids(b, NB, G, cb, cd) /\ Stopping(P, dum, st) /\ BurstTypes
      /\ Placing(P)
  BY DEF Good, Way
<1>1. PICK f : f = IF st = 2 THEN 0 ELSE MaxLen * Word
  OBVIOUS
<1>2. gen = <<StopList, f>> /\ P[2] = << >>
  <2>1. Cutter(gen, P[2], st, K)
    BY <1>0 DEF Chain
  <2> QED
    BY <1>1, <2>1 DEF Cutter
<1>3. PICK n, e, w : n = CutSize(StopList, f) /\ e = EngineFor(n) /\ w = CutCmd(StopList, f, n)
  OBVIOUS
<1>4. /\ Burst!Room(cmd[e]) /\ cmd' = [cmd EXCEPT ![e] = Append(@, w)]
      /\ next'
           = [next EXCEPT !.dyn = IF StopList.id = Burst!Dummy THEN next.dyn
              ELSE Burst!Succ(next.dyn)]
      /\ CutEnds(StopList, f, n) => gen' = << >>
      /\ ~CutEnds(StopList, f, n) => gen' = <<StopList, f + n * Word>>
      /\ UNCHANGED <<lists, replies, burstRound, burstTodo, burstPc, update, vds, burstOn, work,
                     out, dynamic, sync, seen, sampled, current>>
  BY <1>2, <1>3, CutWays
<1>5. w.id = Burst!Dummy /\ StopList.id = Burst!Dummy
  BY <1>3, CutFields DEF StopList
<1>6. next' = next
  <2>1. next' = [next EXCEPT !.dyn = next.dyn]
    BY <1>4, <1>5
  <2> QED
    BY <1>0, <2>1 DEF Ids
<1>7. /\ st = 2 => e = "long" /\ gen' = <<StopList, MaxLen * Word>>
      /\ st = 3 => e = "one" /\ gen' = << >>
  BY <1>1, <1>3, <1>4, StopSizes DEF EngineFor
<1>8. /\ Answers(c, si, sk, U, A, Len(replies))' /\ KeyTable(K, c, b, bn)'
         /\ Replying(U, A, K, b)'
      /\ Sampling(K, si, sk)'
  BY <1>0, <1>4, RestKept, SeenKept
<1>9. Ids(b, NB, G, cb, cd)'
  BY <1>0, <1>4, <1>6 DEF Ids
<1>10. /\ e \in Burst!Engines /\ e \in {"one", "long"} /\ At[e] \in Places
       /\ Stream("cmd", cmd[e], P[At[e]], dum[e], K, b) /\ P[At[e]] \in Seq(Item)
       /\ DOMAIN cmd = Burst!Engines
  <2>1. e \in {"one", "long"}
    BY <1>3 DEF EngineFor
  <2>2. e \in Burst!Engines /\ At[e] \in Places
    BY <2>1, AtFacts
  <2> QED
    BY <1>0, <2>1, <2>2, PlacedItem DEF Chain
<1>11. dum[e] = 0 /\ dum \in [Burst!Engines -> {0, 1}]
  <2>1. dum \in [Burst!Engines -> {0, 1}] /\ (dum["long"] = 1 => st \in {3, 4})
        /\ (dum["one"] = 1 => st = 4)
    BY <1>0 DEF Stopping
  <2> QED
    BY <1>7, <1>10, <2>1
<1>12. PICK D, st2 : D = [dum EXCEPT ![e] = 1] /\ st2 = IF st = 2 THEN 3 ELSE 4
  OBVIOUS
<1>13. /\ D \in [Burst!Engines -> {0, 1}] /\ D[e] = 1 /\ st2 \in {3, 4} /\ st # 1 /\ st2 # 1
       /\ \A g \in Burst!Engines : g # e => D[g] = dum[g]
  BY <1>10, <1>11, <1>12
<1>14. Stream("cmd", Append(cmd[e], w), P[At[e]], D[e], K, b)
  <2>1. PICK t \in Seq(Item) : t = P[At[e]]
    BY <1>10
  <2>2. Stops("cmd", w)
    BY <1>5 DEF Stops
  <2>3. Stream("cmd", cmd[e], t, 0, K, b)
    BY <1>10, <1>11, <2>1
  <2>4. Stream("cmd", Append(cmd[e], w), t, 1, K, b)
    BY <2>2, <2>3, StreamWrite
  <2> QED
    BY <1>13, <2>1, <2>4
<1>15. Cutter(gen, P[2], st2, K)'
  BY <1>2, <1>7, <1>12 DEF Cutter
<1>16. Chain(P, K, b, D, st2)'
  <2>1. PICK Q : Q = P
    OBVIOUS
  <2>2. \A q \in Places : q # 2 /\ q # At[e] => Q[q] = P[q]
    BY <2>1
  <2>3. Stream("cmd", Append(cmd[e], w), Q[At[e]], D[e], K, b)
    BY <1>14, <2>1
  <2>4. Cutter(gen, Q[2], st2, K)'
    BY <1>15, <2>1
  <2>5. Stream("list", vds, Q[1], IF st2 = 1 THEN 1 ELSE 0, K, b)
    BY <1>0, <1>13, <2>1 DEF Chain
  <2>6. CutMoves(P, Q, K, b, dum, D, st, st2, e, w)
    BY <1>0, <1>4, <1>10, <1>13, <2>2, <2>3, <2>4, <2>5 DEF CutMoves
  <2>7. Chain(Q, K, b, D, st2)'
    BY <2>6, CutChain
  <2> QED
    BY <2>1, <2>7
<1>17. Stopping(P, D, st2)'
  <2>1. "long" \in Burst!Engines /\ "one" \in Burst!Engines /\ "single" \in Burst!Engines
    BY AtFacts
  <2>2. CASE st = 2
    BY <1>0, <1>4, <1>7, <1>12, <1>13, <2>1, <2>2 DEF Stopping
  <2>3. CASE st = 3
    BY <1>0, <1>4, <1>7, <1>12, <1>13, <2>1, <2>3 DEF Stopping
  <2> QED
    BY <2>2, <2>3
<1>18. BurstTypes'
  <2>1. /\ cmd'[e] = Append(cmd[e], w) /\ \A g \in Burst!Engines : g # e => cmd'[g] = cmd[g]
    BY <1>4, <1>10
  <2>2. Len(cmd'[e]) <= Depth
    <3>1. IsSeq(cmd[e])
      BY <1>10 DEF Stream
    <3> QED
      BY <1>4, <2>1, <3>1, DepthKept
  <2>3. \A g \in Burst!Engines : Len(cmd'[g]) <= Depth /\ Len(out'[g]) <= Depth
    BY <1>0, <1>4, <2>1, <2>2 DEF BurstTypes
  <2> QED
    BY <1>0, <1>4, <2>3 DEF BurstTypes
<1>19. Good(b, P, K, c, si, sk, cd, G, bn, cb, NB, U, A, D, st2)'
  BY <1>0, <1>8, <1>9, <1>16, <1>17, <1>18 DEF Good
<1> QED
  BY <1>19 DEF BurstInv

\* The mask of command w shows at B the entries from s up to z.
Masked(w, a, j, B, s, z) ==
  /\ a \in Nat /\ j \in Nat /\ B \in Nat /\ w.addr = a /\ B = a + Word * j /\ s \in Nat
     /\ z \in Nat
  /\ \A i \in 0..(Word - 1) : (a + i >= w.start /\ a + i < w.end) <=> (s <= B + i /\ B + i < z)

\* What the mask of a command shows of its word at B, if it is the list from s to z there.
LEMMA MaskIs ==
  ASSUME Burst!BurstAssumption, NEW w, NEW a, NEW j, NEW B, NEW s, NEW z,
         Masked(w, a, j, B, s, z)
  PROVE  Burst!Unmasked(w, j) = {e \in B..(B + Word - 1) : s <= e /\ e < z}
<1>m. /\ a \in Nat /\ j \in Nat /\ B \in Nat /\ w.addr = a /\ B = a + Word * j /\ s \in Nat
         /\ z \in Nat
      /\ \A i \in 0..(Word - 1)
           : (a + i >= w.start /\ a + i < w.end) <=> (s <= B + i /\ B + i < z)
  BY DEF Masked
<1>0. Word \in Nat \ {0}
  BY DEF Burst!BurstAssumption
<1>1. PICK T : T = {i \in 0..(Word - 1) : a + i >= w.start /\ a + i < w.end}
  OBVIOUS
<1>2. Burst!Unmasked(w, j) = {B + i : i \in T}
  BY <1>m, <1>1 DEF Burst!Unmasked
<1>3. \A i \in 0..(Word - 1) : i \in T <=> s <= B + i /\ B + i < z
  BY <1>m, <1>1
<1>4. \A i \in T : i \in 0..(Word - 1)
  BY <1>1
<1>5. ASSUME NEW e \in {B + i : i \in T} PROVE e \in B..(B + Word - 1) /\ s <= e /\ e < z
  <2>1. PICK i \in T : e = B + i
    OBVIOUS
  <2>2. i \in 0..(Word - 1)
    BY <1>4
  <2>3. s <= B + i /\ B + i < z
    BY <1>3, <2>2
  <2> QED
    BY <1>m, <1>0, <2>1, <2>2, <2>3
<1>6. ASSUME NEW e \in B..(B + Word - 1), s <= e, e < z PROVE e \in {B + i : i \in T}
  <2>1. PICK i \in 0..(Word - 1) : e = B + i
    <3>1. e - B \in 0..(Word - 1) /\ e = B + (e - B)
      BY <1>m, <1>0
    <3> QED
      BY <3>1
  <2>2. i \in T
    BY <1>m, <1>3, <1>6, <2>1
  <2> QED
    BY <2>1, <2>2
<1> QED
  BY <1>2, <1>5, <1>6

\* The facts of a list that its words lie in.
ListAt(l, C, s, z) ==
  /\ l \in Nat \X Nat /\ l[2] # 0 /\ C \in Nat /\ C # 0 /\ C = Count(l)
  /\ s \in Nat /\ z \in Nat /\ s = l[1] /\ z = l[1] + l[2]

\* Where the words of such a list are.
LEMMA WordAddr ==
  ASSUME Burst!BurstAssumption, NEW l, NEW C, NEW s, NEW z, ListAt(l, C, s, z)
  PROVE  /\ Addr(l, 1) <= s /\ s < Addr(l, 1) + Word
         /\ Addr(l, C) < z /\ z <= Addr(l, C + 1)
         /\ Word \in Nat /\ 0 < Word
         /\ \A i \in Nat : i # 0 => Addr(l, i) \in Nat
         /\ \A i \in Nat : i # 0 => \A j \in Nat : Addr(l, i + j) = Addr(l, i) + Word * j
         /\ \A i, m \in Nat : i # 0 /\ i < m => Addr(l, i) + Word <= Addr(l, m)
<1>1. /\ l \in Nat \X Nat /\ l[2] # 0 /\ C \in Nat /\ C # 0 /\ C = Count(l)
      /\ s \in Nat /\ z \in Nat /\ s = l[1] /\ z = l[1] + l[2]
  BY DEF ListAt
<1>2. /\ Addr(l, 1) <= l[1] /\ l[1] < Addr(l, 1) + Word
      /\ Addr(l, C) < l[1] + l[2] /\ l[1] + l[2] <= Addr(l, C + 1)
  BY <1>1, ListFacts
<1>3. Word \in Nat /\ 0 < Word
  BY DEF Burst!BurstAssumption
<1>4. /\ \A k \in Nat : Addr(l, k + 1) \in Nat
      /\ \A k, n \in Nat : k # 0 => Addr(l, k + n) = Addr(l, k) + n * Word
      /\ \A k, m \in Nat : k # 0 /\ k < m => Addr(l, k) + Word <= Addr(l, m)
  BY <1>1, AddrFacts
<1>5. ASSUME NEW i \in Nat, i # 0 PROVE Addr(l, i) \in Nat
  <2>1. PICK j \in Nat : i = j + 1
    <3>1. i - 1 \in Nat /\ i = (i - 1) + 1
      BY <1>5
    <3> QED
      BY <3>1
  <2> QED
    BY <1>4, <2>1
<1>6. ASSUME NEW i \in Nat, i # 0, NEW j \in Nat PROVE Addr(l, i + j) = Addr(l, i) + Word * j
  <2>1. Addr(l, i + j) = Addr(l, i) + j * Word
    BY <1>4, <1>6
  <2>2. j * Word = Word * j
    BY <1>3
  <2> QED
    BY <2>1, <2>2
<1> QED
  BY <1>1, <1>2, <1>3, <1>4, <1>5, <1>6

\* The words of a burst of one word show the entries of the list.
LEMMA ShortEntries ==
  ASSUME Burst!BurstAssumption, NEW l, NEW C, NEW s, NEW z, ListAt(l, C, s, z),
         NEW lo \in Nat, lo # 0, NEW a, a = Addr(l, lo), NEW w, w.addr = a,
         w.start = Burst!TheLast(a, s), w.end = Burst!TheFirst(a + 1 * Word, z)
  PROVE  Burst!Unmasked(w, 0) = EntriesOf(l, lo + 0)
<1>1. a \in Nat /\ Word \in Nat /\ s \in Nat /\ z \in Nat /\ s = l[1] /\ z = l[1] + l[2]
      /\ 0 < Word
  BY WordAddr DEF ListAt
<1>2. a = a + Word * 0 /\ 1 * Word = Word /\ lo + 0 = lo
  BY <1>1
<1>3. ASSUME NEW i \in 0..(Word - 1)
      PROVE  (a + i >= w.start /\ a + i < w.end) <=> (s <= a + i /\ a + i < z)
  BY <1>1, <1>2 DEF Burst!TheLast, Burst!TheFirst
<1>4. Burst!Unmasked(w, 0) = {e \in a..(a + Word - 1) : s <= e /\ e < z}
  <2>1. PICK q : q = 0
    OBVIOUS
  <2>2. Masked(w, a, q, a, s, z)
    BY <1>1, <1>2, <1>3, <2>1 DEF Masked
  <2>3. Burst!Unmasked(w, q) = {e \in a..(a + Word - 1) : s <= e /\ e < z}
    BY <2>2, MaskIs
  <2> QED
    BY <2>1, <2>3
<1>5. EntriesOf(l, lo) = {e \in a..(a + Word - 1) : s <= e /\ e < z}
  BY <1>1 DEF EntriesOf
<1> QED
  BY <1>2, <1>4, <1>5

\* Command w is a long burst of n words from word lo of the list, and j is one of them.
LongAt(l, C, s, z, lo, n, a, w, j) ==
  /\ lo \in Nat /\ lo # 0 /\ n \in Nat /\ 2 <= n /\ lo + n <= C + 1
  /\ Addr(l, 1) = s /\ (lo + n = C + 1 => Addr(l, C + 1) = z)
  /\ a = Addr(l, lo) /\ w.addr = a
  /\ w.start = Burst!TheLast(a, s) /\ w.end = Burst!TheFirst(a + n * Word, z)
  /\ j \in Nat /\ j < n

\* And those of a long burst, if the list fills them.
LEMMA LongEntries ==
  ASSUME Burst!BurstAssumption, NEW l, NEW C, NEW s, NEW z, ListAt(l, C, s, z),
         NEW lo, NEW n, NEW a, NEW w, NEW j, LongAt(l, C, s, z, lo, n, a, w, j)
  PROVE  Burst!Unmasked(w, j) = EntriesOf(l, lo + j)
<1>l. /\ lo \in Nat /\ lo # 0 /\ n \in Nat /\ 2 <= n /\ lo + n <= C + 1
      /\ Addr(l, 1) = s /\ (lo + n = C + 1 => Addr(l, C + 1) = z)
      /\ a = Addr(l, lo) /\ w.addr = a
      /\ w.start = Burst!TheLast(a, s) /\ w.end = Burst!TheFirst(a + n * Word, z)
      /\ j \in Nat /\ j < n
  BY DEF LongAt
<1>1. /\ a \in Nat /\ Word \in Nat /\ 0 < Word /\ s \in Nat /\ z \in Nat /\ s = l[1]
      /\ z = l[1] + l[2] /\ C \in Nat /\ C # 0
  BY <1>l, WordAddr DEF ListAt
<1>2. PICK B \in Nat : B = Addr(l, lo + j) /\ B = a + Word * j
  <2>1. lo + j \in Nat /\ lo + j # 0
    BY <1>l
  <2>2. \A i \in Nat : i # 0 => \A k \in Nat : Addr(l, i + k) = Addr(l, i) + Word * k
    BY <1>l, WordAddr
  <2>3. Addr(l, lo + j) = Addr(l, lo) + Word * j
    BY <1>l, <2>2
  <2>4. Addr(l, lo + j) \in Nat
    BY <1>l, <2>1, WordAddr
  <2> QED
    BY <1>l, <2>3, <2>4
<1>3. PICK y \in Nat : y = Addr(l, C) /\ y < z
  BY <1>l, <1>1, WordAddr
<1>4. s <= a
  <2>1. lo = 1 \/ 1 < lo
    BY <1>l
  <2>2. 1 < lo => Addr(l, 1) + Word <= Addr(l, lo)
    BY <1>l, WordAddr
  <2> QED
    BY <1>l, <1>1, <2>1, <2>2
<1>5. a + Word <= z /\ a + Word <= a + n * Word
  <2>1. lo < C
    BY <1>l, <1>1
  <2>2. a + Word <= y
    BY <1>l, <1>1, <1>3, <2>1, WordAddr
  <2>3. Word <= n * Word
    <3>1. PICK d \in Nat : n = 1 + d
      <4>1. n - 1 \in Nat /\ n = 1 + (n - 1)
        BY <1>l
      <4> QED
        BY <1>l, <4>1
    <3>2. Off(n) = Off(1) + Off(d) /\ Off(1) = Word /\ Off(d) \in Nat
      BY <1>l, <3>1, OffAdd, OffType
    <3>3. Word <= Off(n)
      BY <1>l, <1>1, <3>2
    <3> QED
      BY <3>3 DEF Off
  <2>4. PICK Z : Z = n * Word
    BY <1>l
  <2>5. Z \in Nat /\ Word <= Z
    BY <1>l, <1>1, <2>3, <2>4
  <2> QED
    BY <1>l, <1>1, <1>3, <2>2, <2>4, <2>5
<1>6. B + Word <= z
  <2>1. CASE lo + j < C
    <3>1. B + Word <= y
      BY <1>l, <1>1, <1>2, <1>3, <2>1, WordAddr
    <3> QED
      BY <1>l, <1>1, <1>3, <3>1
  <2>2. CASE ~(lo + j < C)
    <3>1. lo + j = C /\ lo + n = C + 1
      BY <1>l, <1>1, <2>2
    <3>2. Addr(l, C + 1) = Addr(l, C) + Word * 1
      BY <1>l, <1>1, WordAddr
    <3>3. Word * 1 = Word
      BY <1>l, <1>1
    <3>4. z = B + Word
      BY <1>l, <1>2, <3>1, <3>2, <3>3
    <3> QED
      BY <1>l, <1>1, <3>4
  <2> QED
    BY <1>l, <2>1, <2>2
<1>7. s <= B
  <2>1. PICK Z \in Nat : Z = Word * j
    <3>1. Word * j \in Nat
      BY <1>l, <1>1
    <3> QED
      BY <1>l, <3>1
  <2> QED
    BY <1>l, <1>1, <1>2, <1>4, <2>1
<1>8. ASSUME NEW i \in 0..(Word - 1)
      PROVE  (a + i >= w.start /\ a + i < w.end) <=> (s <= B + i /\ B + i < z)
  <2>1. PICK Z : Z = n * Word
    BY <1>l
  <2>2. Z \in Nat
    BY <1>l, <1>1, <2>1
  <2>3. w.start = a
    BY <1>l, <1>1, <1>4 DEF Burst!TheLast
  <2>4. w.end = a + Z \/ w.end = z
    BY <1>l, <2>1 DEF Burst!TheFirst
  <2>5. a + i >= w.start
    BY <1>l, <1>1, <2>3
  <2>6. a + i < w.end
    BY <1>l, <1>1, <1>5, <2>1, <2>2, <2>4
  <2>7. s <= B + i /\ B + i < z
    BY <1>l, <1>1, <1>6, <1>7
  <2> QED
    BY <1>l, <2>5, <2>6, <2>7
<1>9. Burst!Unmasked(w, j) = {e \in B..(B + Word - 1) : s <= e /\ e < z}
  <2>1. Masked(w, a, j, B, s, z)
    BY <1>l, <1>1, <1>2, <1>8 DEF Masked
  <2> QED
    BY <1>l, <2>1, MaskIs
<1>10. EntriesOf(l, lo + j) = {e \in B..(B + Word - 1) : s <= e /\ e < z}
  BY <1>l, <1>1, <1>2 DEF EntriesOf
<1> QED
  BY <1>l, <1>9, <1>10

\* cmd_generator is at word lo of the list v, and cuts n words.
CutOf(l, C, lo, n, f, v) ==
  /\ lo \in Nat /\ lo # 0 /\ lo <= C /\ Starts(lo, C)
  /\ v.start = l[1] /\ v.size = l[2] /\ f = Addr(l, lo) /\ n = CutSize(v, f)

\* The cut is whole bursts, or one word, and ends with the list or where the next may start.
CutIs(l, C, lo, n, f, v) ==
  /\ n \in Nat /\ 1 <= n /\ n <= MaxLen /\ lo + n <= C + 1 /\ (n = MaxLen \/ n = 1)
  /\ CutEnds(v, f, n) <=> lo + n = C + 1
  /\ f + n * Word = Addr(l, lo + n)
  /\ lo + n <= C => Starts(lo + n, C)
  /\ n = MaxLen => \E q \in Nat : lo = q * MaxLen + 1

\* The next cut starts where one may.
LEMMA StartsOn ==
  ASSUME Burst!BurstAssumption, NEW C \in Nat, NEW lo \in Nat, lo <= C, Starts(lo, C)
  PROVE  /\ lo + MaxLen <= C + 1 => /\ \E q \in Nat : lo = q * MaxLen + 1
                                    /\ Starts(lo + MaxLen, C)
         /\ ~(lo + MaxLen <= C + 1) => Starts(lo + 1, C)
<1>1. MaxLen \in Nat
  BY DEF Burst!BurstAssumption
<1>2. PICK q \in Nat : lo = q * MaxLen + 1 \/ (q * MaxLen < lo /\ C < q * MaxLen + MaxLen)
  BY DEF Starts
<1>3. PICK Z \in Nat : Z = q * MaxLen
  <2>1. q * MaxLen \in Nat
    BY <1>1
  <2> QED
    BY <2>1
<1>4. lo = Z + 1 \/ (Z < lo /\ C < Z + MaxLen)
  BY <1>2, <1>3
<1>5. ASSUME lo + MaxLen <= C + 1
      PROVE  (\E r \in Nat : lo = r * MaxLen + 1) /\ Starts(lo + MaxLen, C)
  <2>1. lo = Z + 1
    BY <1>1, <1>4, <1>5
  <2>2. (q + 1) * MaxLen = q * MaxLen + MaxLen
    BY <1>1
  <2>3. q + 1 \in Nat /\ lo + MaxLen = (Z + MaxLen) + 1
    BY <1>1, <2>1
  <2>4. lo + MaxLen = (q + 1) * MaxLen + 1
    BY <1>3, <2>2, <2>3
  <2>5. Starts(lo + MaxLen, C)
    BY <2>3, <2>4 DEF Starts
  <2> QED
    BY <1>3, <2>1, <2>5
<1>6. ASSUME ~(lo + MaxLen <= C + 1) PROVE Starts(lo + 1, C)
  <2>1. Z < lo + 1 /\ C < Z + MaxLen
    BY <1>1, <1>4, <1>6
  <2>2. q * MaxLen < lo + 1 /\ C < q * MaxLen + MaxLen
    BY <1>3, <2>1
  <2> QED
    BY <2>2 DEF Starts
<1> QED
  BY <1>5, <1>6

\* What cmd_generator cuts is such a cut.
LEMMA CutAt ==
  ASSUME Burst!BurstAssumption, NEW l, NEW C, NEW s, NEW z, ListAt(l, C, s, z),
         NEW lo, NEW n, NEW f, NEW v, CutOf(l, C, lo, n, f, v)
  PROVE  CutIs(l, C, lo, n, f, v)
<1>0. /\ lo \in Nat /\ lo # 0 /\ lo <= C /\ Starts(lo, C)
      /\ v.start = l[1] /\ v.size = l[2] /\ f = Addr(l, lo) /\ n = CutSize(v, f)
  BY DEF CutOf
<1>1. /\ l \in Nat \X Nat /\ l[2] # 0 /\ C \in Nat /\ C # 0 /\ C = Count(l)
  BY DEF ListAt
<1>2. MaxLen \in Nat /\ 1 < MaxLen
  BY DEF Burst!BurstAssumption
<1>3. PICK E : E = Burst!EndAddr(v)
  OBVIOUS
<1>4. E = Addr(l, C + 1)
  <2>1. \A vd : vd.start = l[1] /\ vd.size = l[2] => Burst!EndAddr(vd) = Addr(l, C + 1)
    BY <1>1, ListFacts
  <2> QED
    BY <1>0, <1>3, <2>1
<1>5. /\ E >= f + MaxLen * Word <=> lo + MaxLen <= C + 1
      /\ \A i \in Nat : lo + i <= C + 1 => (f + i * Word = E <=> lo + i = C + 1)
  BY <1>0, <1>1, <1>4, CutFacts
<1>6. n = IF lo + MaxLen <= C + 1 THEN MaxLen ELSE 1
  BY <1>0, <1>3, <1>5 DEF CutSize
<1>7. n \in Nat /\ 1 <= n /\ n <= MaxLen /\ lo + n <= C + 1 /\ (n = MaxLen \/ n = 1)
      /\ (n = MaxLen <=> lo + MaxLen <= C + 1)
  BY <1>0, <1>1, <1>2, <1>6
<1>8. CutEnds(v, f, n) <=> lo + n = C + 1
  BY <1>3, <1>5, <1>7 DEF CutEnds
<1>9. f + n * Word = Addr(l, lo + n)
  BY <1>0, <1>1, <1>7, AddrFacts
<1>10. Starts(lo + n, C) /\ (n = MaxLen => \E q \in Nat : lo = q * MaxLen + 1)
  <2>1. CASE n = MaxLen
    BY <1>0, <1>1, <1>7, <2>1, StartsOn
  <2>2. CASE n # MaxLen
    BY <1>0, <1>1, <1>7, <2>2, StartsOn
  <2> QED
    BY <2>1, <2>2
<1> QED
  BY <1>7, <1>8, <1>9, <1>10 DEF CutIs

\* The entries its mask shows are those of the list, if the long bursts of the list are whole.
LEMMA CutShows ==
  ASSUME Burst!BurstAssumption, NEW l, NEW C, NEW s, NEW z, ListAt(l, C, s, z),
         NEW lo, NEW n, NEW f, NEW v, CutOf(l, C, lo, n, f, v), WholeBursts(l),
         NEW w, w = CutCmd(v, f, n), NEW j \in Nat, j < n
  PROVE  Burst!Unmasked(w, j) = EntriesOf(l, lo + j)
<1>0. lo \in Nat /\ lo # 0 /\ v.start = s /\ v.start + v.size = z /\ f = Addr(l, lo)
      /\ C \in Nat /\ C = Count(l)
  BY DEF CutOf, ListAt
<1>1. /\ n \in Nat /\ 1 <= n /\ n <= MaxLen /\ lo + n <= C + 1 /\ (n = MaxLen \/ n = 1)
      /\ n = MaxLen => \E q \in Nat : lo = q * MaxLen + 1
  BY CutAt DEF CutIs
<1>2. /\ w.addr = f /\ w.start = Burst!TheLast(f, s) /\ w.end = Burst!TheFirst(f + n * Word, z)
  BY <1>0, CutFields
<1>3. MaxLen \in Nat /\ 1 < MaxLen
  BY DEF Burst!BurstAssumption
<1>4. CASE n = 1
  <2>1. j = 0
    BY <1>4
  <2>2. w.end = Burst!TheFirst(f + 1 * Word, z)
    BY <1>2, <1>4
  <2>3. Burst!Unmasked(w, 0) = EntriesOf(l, lo + 0)
    BY <1>0, <1>2, <2>2, ShortEntries
  <2> QED
    BY <2>1, <2>3
<1>5. CASE n = MaxLen
  <2>1. 2 <= n
    BY <1>3, <1>5
  <2>2. C >= MaxLen
    BY <1>0, <1>1, <1>3, <1>5
  <2>3. Addr(l, 1) = s /\ \A q \in Nat : C = q * MaxLen => Addr(l, C + 1) = z
    BY <1>0, <2>2 DEF WholeBursts, ListAt
  <2>4. lo + n = C + 1 => Addr(l, C + 1) = z
    <3>1. SUFFICES ASSUME lo + n = C + 1 PROVE Addr(l, C + 1) = z
      OBVIOUS
    <3>2. PICK q \in Nat : lo = q * MaxLen + 1
      BY <1>1, <1>5
    <3>3. PICK Z : Z = q * MaxLen
      OBVIOUS
    <3>4. Z \in Nat /\ (q + 1) * MaxLen = Z + MaxLen
      BY <1>3, <3>3
    <3>5. C = Z + MaxLen
      BY <1>0, <1>3, <1>5, <3>1, <3>2, <3>3, <3>4
    <3>6. q + 1 \in Nat /\ C = (q + 1) * MaxLen
      BY <3>4, <3>5
    <3> QED
      BY <2>3, <3>6
  <2>5. LongAt(l, C, s, z, lo, n, f, w, j)
    BY <1>0, <1>1, <1>2, <2>1, <2>3, <2>4 DEF LongAt
  <2> QED
    BY <2>5, LongEntries
<1> QED
  BY <1>1, <1>4, <1>5

\* The command is the one the engines expect.
LEMMA CutCommand ==
  ASSUME Burst!BurstAssumption, NEW l, NEW C, NEW s, NEW z, ListAt(l, C, s, z),
         NEW lo, NEW n, NEW f, NEW v, CutOf(l, C, lo, n, f, v), l \in Askable,
         NEW k, k.l = l, k.c = C, ListIs(v, k), k.last \in BOOLEAN, NEW b,
         NEW G, next.dyn = Id(b, G),
         NEW m, m.lo = lo, m.hi = lo + n - 1, m.num = G,
         NEW w, w = CutCmd(v, f, n)
  PROVE  CmdIs(w, m, k, b)
<1>0. lo \in Nat /\ lo # 0 /\ f = Addr(l, lo) /\ C \in Nat
  BY DEF CutOf, ListAt
<1>1. /\ n \in Nat /\ 1 <= n /\ n <= MaxLen /\ lo + n <= C + 1
      /\ CutEnds(v, f, n) <=> lo + n = C + 1
  BY CutAt DEF CutIs
<1>2. /\ w.addr = f /\ w.len = n /\ w.id = v.id /\ w.burst = v.burst /\ w.dyn = next.dyn
      /\ w.ends = CutEnds(v, f, n) /\ w.last = CutLast(v, f, n)
  BY CutFields
<1>3. m.hi - m.lo + 1 = n
  BY <1>0, <1>1
<1>4. w.ends <=> m.hi = k.c
  <2>1. lo + n = C + 1 <=> m.hi = k.c
    BY <1>0, <1>1
  <2> QED
    BY <1>1, <1>2, <2>1, Zenon
<1>5. w.ends => w.last = k.last
  <2>1. v.last = k.last
    BY DEF ListIs
  <2>2. CutEnds(v, f, n) => CutLast(v, f, n) = k.last
    <3>1. CASE k.last = TRUE
      BY <2>1, <3>1, Zenon DEF CutLast
    <3>2. CASE k.last = FALSE
      BY <2>1, <3>2, Zenon DEF CutLast
    <3> QED
      BY <3>1, <3>2
  <2>3. CutEnds(v, f, n) => w.last = k.last
    BY <1>2, <2>2, Zenon
  <2> QED
    BY <1>2, <2>3, Zenon
<1>6. ASSUME Exact, NEW j \in 0..(m.hi - m.lo)
             PROVE Burst!Unmasked(w, j) = EntriesOf(k.l, m.lo + j)
  <2>1. WholeBursts(l)
    BY <1>6 DEF Exact
  <2>2. j \in Nat /\ j < n
    BY <1>0, <1>1, <1>6
  <2>3. Burst!Unmasked(w, j) = EntriesOf(l, lo + j)
    BY <2>1, <2>2, CutShows
  <2> QED
    BY <2>3
<1>7. w.addr = Addr(k.l, m.lo) /\ w.len = m.hi - m.lo + 1 /\ w.len <= MaxLen
  BY <1>0, <1>1, <1>2, <1>3
<1>8. w.id = k.id /\ w.burst = k.burst /\ w.dyn = Id(b, m.num)
  BY <1>2 DEF ListIs
<1> QED
  BY <1>4, <1>5, <1>6, <1>7, <1>8 DEF CmdIs

\* The list that cmd_generator is cutting.
CutState(b, P, K, c, x, k, l, C, s, z, lo, n, f, v) ==
  /\ x \in Item /\ P[2] = <<x>> /\ x = P[2][1] /\ FrontOf(P, 2, x) /\ 2 \in Places
  /\ x.lo = lo /\ x.hi = C /\ C # 1 /\ x.req \in 1..Len(c) /\ c[x.req] = C
  /\ k = K[x.req] /\ k.l = l /\ k.c = C /\ k.last \in BOOLEAN /\ l \in Askable
  /\ k.id # Burst!Dummy
  /\ ListAt(l, C, s, z) /\ CutOf(l, C, lo, n, f, v) /\ ListIs(v, k) /\ gen = <<v, f>>

\* When cmd_generator is in a list, it is at a place where it may cut.
LEMMA CutStateIs ==
  ASSUME Burst!BurstAssumption, NEW b \in Base, NEW P, NEW K, NEW c, NEW si, NEW sk, NEW cd,
         NEW G, NEW bn, NEW cb, NEW NB, NEW U, NEW A, NEW dum, NEW st,
         Good(b, P, K, c, si, sk, cd, G, bn, cb, NB, U, A, dum, st), gen # << >>,
           st \notin {2, 3}
  PROVE  st \in {0, 1}
         /\ \E x, k, l, C, s, z, lo, n, f,
              v : CutState(b, P, K, c, x, k, l, C, s, z, lo, n, f, v)
<1>0. /\ Way(P, c, si, sk, cd, G, bn, cb, NB) /\ KeyTable(K, c, b, bn)
         /\ Chain(P, K, b, dum, st)
      /\ Placing(P) /\ 2 \in Places
  BY DEF Good, Way, Places
<1>1. Cutter(gen, P[2], st, K)
  BY <1>0 DEF Chain
<1>2. /\ Len(P[2]) = 1 /\ st \in {0, 1} /\ Starts(P[2][1].lo, K[P[2][1].req].c)
      /\ \E v : ListIs(v, K[P[2][1].req]) /\ gen = <<v, Addr(K[P[2][1].req].l, P[2][1].lo)>>
  BY <1>1 DEF Cutter
<1>3. PICK t \in Seq(Item) : t = P[2]
  BY <1>0, PlacedItem
<1>4. P[2] # << >>
  BY <1>2, <1>3
<1>5. PICK x \in Item :
         /\ x = P[2][1] /\ 1 \in 1..Len(P[2]) /\ Stands(2, x, c)
         /\ x.req \in 1..Len(c) /\ x.lo \in Nat /\ x.hi \in Nat /\ x.top \in Nat
            /\ x.num \in Nat
         /\ 1 <= x.lo /\ x.lo <= x.hi /\ x.hi <= x.top /\ x.top <= c[x.req]
         /\ c[x.req] \in Nat /\ c[x.req] # 0 /\ FrontOf(P, 2, x) /\ c \in Seq(Nat)
  BY <1>0, <1>4, HeadFacts
<1>6. P[2] = <<x>>
  BY <1>2, <1>3, <1>5
<1>7. x.hi = c[x.req] /\ c[x.req] # 1
  BY <1>5 DEF Stands
<1>8. PICK i \in 1..Len(c) : i = x.req
  BY <1>5
<1>9. /\ K[i].l \in Askable /\ K[i].l \in Nat \X Nat /\ K[i].c = c[i] /\ K[i].c = Count(K[i].l)
      /\ K[i].l[2] = 0 <=> K[i].c = 0
      /\ K[i].last \in BOOLEAN /\ K[i].id = Id(b, i - 1)
  <2>1. KeyTable(K, c, b, bn) /\ c \in Seq(Nat)
    BY <1>0, <1>5
  <2> QED
    BY <2>1, ListOf
<1>10. PICK k, l, C, lo : k = K[i] /\ l = k.l /\ C = c[i] /\ lo = x.lo
  OBVIOUS
<1>11. PICK v : ListIs(v, k) /\ gen = <<v, Addr(l, lo)>>
  BY <1>2, <1>5, <1>8, <1>10
<1>12. PICK s, z, f, n : s = l[1] /\ z = l[1] + l[2] /\ f = Addr(l, lo) /\ n = CutSize(v, f)
  OBVIOUS
<1>13. ListAt(l, C, s, z)
  <2>1. l \in Nat \X Nat /\ C \in Nat /\ C # 0 /\ C = Count(l) /\ (l[2] = 0 <=> C = 0)
    BY <1>5, <1>8, <1>9, <1>10
  <2>2. s \in Nat /\ z \in Nat
    BY <1>12, <2>1
  <2> QED
    BY <1>12, <2>1, <2>2 DEF ListAt
<1>14. CutOf(l, C, lo, n, f, v)
  <2>1. Starts(lo, C)
    BY <1>2, <1>5, <1>8, <1>9, <1>10
  <2> QED
    BY <1>5, <1>7, <1>8, <1>10, <1>11, <1>12, <2>1 DEF CutOf, ListIs
<1>15. k.id # Burst!Dummy
  <2>1. PICK m \in Nat : m = i - 1
    OBVIOUS
  <2>2. Id(b, m) # Burst!Dummy
    BY IdFacts
  <2> QED
    BY <1>9, <1>10, <2>1, <2>2
<1>16. CutState(b, P, K, c, x, k, l, C, s, z, lo, n, f, v)
  BY <1>0, <1>5, <1>6, <1>7, <1>8, <1>9, <1>10, <1>11, <1>12, <1>13, <1>14, <1>15 DEF CutState
<1> QED
  BY <1>2, <1>16

\* What is cut off goes to engine e.
CutPiece(x, n, G) == [x EXCEPT !.hi = x.lo + n - 1, !.num = G, !.top = x.lo + n - 1]

\* The words on their way after the cut.
LEMMA CutStep ==
  ASSUME Burst!BurstAssumption, NEW P, NEW c, NEW si, NEW sk, NEW cd, NEW G, NEW bn, NEW cb,
         NEW NB, Way(P, c, si, sk, cd, G, bn, cb, NB),
         NEW b, NEW K, NEW x, NEW k, NEW l, NEW C, NEW s, NEW z, NEW lo, NEW n, NEW f, NEW v,
         CutState(b, P, K, c, x, k, l, C, s, z, lo, n, f, v), NEW r, r \in {6, 9},
         NEW m, m = CutPiece(x, n, G)
  PROVE  /\ Way(MoveTo(P, 2, r, m), c, si, sk, cd, G + 1, bn, cb, NB)
         /\ m \in Item /\ m.req = x.req /\ m.lo = lo /\ m.hi = lo + n - 1 /\ m.num = G
<1>0. /\ x \in Item /\ P[2] = <<x>> /\ x = P[2][1] /\ FrontOf(P, 2, x) /\ 2 \in Places
      /\ x.lo = lo /\ x.hi = C /\ C # 1 /\ x.req \in 1..Len(c) /\ c[x.req] = C
      /\ ListAt(l, C, s, z) /\ CutOf(l, C, lo, n, f, v)
  BY DEF CutState
<1>1. lo \in Nat /\ lo # 0 /\ lo <= C /\ C \in Nat /\ x.top \in Nat /\ x.req \in Nat
  BY <1>0 DEF CutOf, ListAt, Item
<1>2. n \in Nat /\ 1 <= n /\ lo + n <= C + 1
  BY <1>0, CutAt DEF CutIs
<1>3. G \in Nat /\ Placing(P)
  BY DEF Way
<1>4. PICK h \in Nat : h = lo + n - 1 /\ lo <= h /\ h <= C
  <2>1. lo + n - 1 \in Nat /\ lo <= lo + n - 1 /\ lo + n - 1 <= C
    BY <1>1, <1>2
  <2> QED
    BY <2>1
<1>5. m \in Item /\ m.req = x.req /\ m.lo = lo /\ m.hi = h /\ m.num = G /\ m.top = h
  BY <1>0, <1>1, <1>3, <1>4 DEF CutPiece, Item
<1>6. FrontOf(P, 2, m)
  BY <1>0, <1>4, <1>5 DEF FrontOf
<1>7. Stands(r, m, c)
  BY <1>0, <1>1, <1>4, <1>5 DEF Stands
<1>8. ASSUME m.hi < P[2][1].hi PROVE Stands(2, Remainder(P[2][1], m), c)
  <2>1. PICK y : y = Remainder(x, m)
    OBVIOUS
  <2>2. y \in Item /\ y.req = x.req /\ y.top = x.top /\ y.hi = C /\ y.lo = h + 1
    <3>1. y \in Item /\ y.req = x.req /\ y.top = x.top /\ y.hi = x.hi /\ y.lo = m.hi + 1
      <4>1. x \in Item /\ m \in Item
        BY <1>0, <1>5
      <4> QED
        BY <2>1, <4>1, RestItem
    <3> QED
      BY <1>0, <1>5, <3>1
  <2>3. h < C
    BY <1>0, <1>5, <1>8
  <2>4. Stands(2, x, c)
    <3>1. 1 \in 1..Len(P[2])
      BY <1>0
    <3> QED
      BY <1>0, <3>1 DEF Way, Located
  <2>5. C <= x.top /\ x.top <= C
    BY <1>0, <2>4 DEF Stands
  <2>6. Stands(2, y, c)
    BY <1>0, <1>1, <1>4, <2>2, <2>3, <2>5 DEF Stands
  <2> QED
    BY <1>0, <2>1, <2>6
<1>9. m.num = G /\ m.hi = m.top
  BY <1>5
<1>10. Way(MoveTo(P, 2, r, m), c, si, sk, cd, G + 1, bn, cb, NB)
  BY <1>6, <1>7, <1>8, <1>9, StepCut
<1> QED
  BY <1>4, <1>5, <1>10

\* What the cut leaves of the list.
RestOf(P, Q, x, m, lo, n, f, v, r, st, g) ==
  /\ r \in {6, 9} /\ m \in Item /\ m.req = x.req /\ m.lo = lo /\ m.hi = lo + n - 1
  /\ Q = MoveTo(P, 2, r, m) /\ st \in {0, 1}
  /\ CutEnds(v, f, n) => g = << >>
  /\ ~CutEnds(v, f, n) => g = <<v, f + n * Word>>

\* cmd_generator after the cut.
LEMMA CutRest ==
  ASSUME Burst!BurstAssumption, NEW P, Placing(P), NEW K, NEW c, NEW b, NEW x, NEW k, NEW l,
         NEW C,
         NEW s, NEW z, NEW lo, NEW n, NEW f, NEW v,
         CutState(b, P, K, c, x, k, l, C, s, z, lo, n, f, v),
         NEW r, NEW m, NEW Q, NEW st, NEW g, RestOf(P, Q, x, m, lo, n, f, v, r, st, g)
  PROVE  /\ Cutter(g, Q[2], st, K)
         /\ \A q \in Places : q # 2 /\ q # r => Q[q] = P[q]
         /\ Q[r] = Append(P[r], m)
<1>r. /\ r \in {6, 9} /\ m \in Item /\ m.req = x.req /\ m.lo = lo /\ m.hi = lo + n - 1
      /\ Q = MoveTo(P, 2, r, m) /\ st \in {0, 1}
      /\ CutEnds(v, f, n) => g = << >>
      /\ ~CutEnds(v, f, n) => g = <<v, f + n * Word>>
  BY DEF RestOf
<1>0. /\ x \in Item /\ P[2] = <<x>> /\ x = P[2][1] /\ 2 \in Places
      /\ x.lo = lo /\ x.hi = C /\ k = K[x.req] /\ k.l = l /\ k.c = C
      /\ ListAt(l, C, s, z) /\ CutOf(l, C, lo, n, f, v) /\ ListIs(v, k)
  BY DEF CutState
<1>1. lo \in Nat /\ lo # 0 /\ lo <= C /\ C \in Nat
  BY <1>0 DEF CutOf, ListAt
<1>2. /\ n \in Nat /\ 1 <= n /\ lo + n <= C + 1 /\ (CutEnds(v, f, n) <=> lo + n = C + 1)
      /\ f + n * Word = Addr(l, lo + n)
      /\ lo + n <= C => Starts(lo + n, C)
  BY <1>0, CutAt DEF CutIs
<1>3. /\ \A q \in Places : q # 2 /\ q # r => Q[q] = P[q]
      /\ Q[r] = Append(P[r], m)
      /\ m.hi = x.hi => Q[2] = << >>
      /\ m.hi # x.hi => Q[2] = <<Remainder(x, m)>>
  <2>1. PICK p : p = 2
    OBVIOUS
  <2>2. p \in Places /\ r \in Places /\ p # r /\ P[p] # << >> /\ x = P[p][1]
        /\ Q = MoveTo(P, p, r, m)
        /\ Len(P[p]) = 1
    <3>1. P[2] # << >> /\ Len(P[2]) = 1
      <4>1. <<x>> # << >> /\ Len(<<x>>) = 1
        OBVIOUS
      <4> QED
        BY <1>r, <1>0, <4>1
    <3>2. 2 \in Places /\ r \in Places /\ 2 # r
      BY <1>r DEF Places
    <3> QED
      BY <1>r, <1>0, <2>1, <3>1, <3>2
  <2>3. /\ \A q \in Places : q # p /\ q # r => Q[q] = P[q]
        /\ Q[r] = Append(P[r], m)
        /\ Len(P[p]) = 1 /\ m.hi = x.hi => Q[p] = << >>
        /\ Len(P[p]) = 1 /\ m.hi # x.hi => Q[p] = <<Remainder(x, m)>>
    BY <1>r, <2>2, MoveAt
  <2> QED
    BY <1>r, <2>1, <2>2, <2>3
<1>4. CASE lo + n = C + 1
  <2>1. m.hi = x.hi
    BY <1>r, <1>0, <1>1, <1>2, <1>4
  <2>2. g = << >> /\ Q[2] = << >> /\ st \notin {2, 3}
    BY <1>r, <1>2, <1>3, <1>4, <2>1
  <2>3. Cutter(g, Q[2], st, K)
    BY <1>r, <2>2 DEF Cutter
  <2> QED
    BY <1>r, <1>3, <2>3
<1>5. CASE lo + n # C + 1
  <2>1. m.hi # x.hi
    BY <1>r, <1>0, <1>1, <1>2, <1>5
  <2>2. PICK y : y = Remainder(x, m)
    OBVIOUS
  <2>3. Q[2] = <<y>> /\ g = <<v, Addr(l, lo + n)>>
    BY <1>r, <1>2, <1>3, <1>5, <2>1, <2>2
  <2>4. y.req = x.req /\ y.lo = lo + n
    <3>1. y.req = x.req /\ y.lo = m.hi + 1
      BY <1>r, <1>0, <2>2, RestItem
    <3> QED
      BY <1>r, <1>1, <1>2, <3>1
  <2>5. Starts(lo + n, C)
    BY <1>r, <1>1, <1>2, <1>5
  <2>6. K[y.req] = k /\ Len(Q[2]) = 1 /\ Q[2][1] = y
    <3>1. Len(<<y>>) = 1 /\ <<y>>[1] = y
      OBVIOUS
    <3>2. K[y.req] = K[x.req]
      BY <1>r, <2>4
    <3> QED
      BY <1>r, <1>0, <2>3, <3>1, <3>2
  <2>7. Starts(Q[2][1].lo, K[Q[2][1].req].c)
    BY <1>r, <1>0, <2>4, <2>5, <2>6
  <2>8. ListIs(v, K[Q[2][1].req]) /\ g = <<v, Addr(K[Q[2][1].req].l, Q[2][1].lo)>>
    BY <1>r, <1>0, <2>3, <2>4, <2>6
  <2>9. Cutter(g, Q[2], st, K)
    BY <1>r, <2>6, <2>7, <2>8 DEF Cutter
  <2> QED
    BY <1>r, <1>3, <2>9
<1> QED
  BY <1>r, <1>4, <1>5

\* cmd_generator cuts a command off a list.
LEMMA CutListKeeps ==
  ASSUME Burst!BurstAssumption, NEW b \in Base, NEW P, NEW K, NEW c, NEW si, NEW sk, NEW cd,
         NEW G, NEW bn, NEW cb, NEW NB, NEW U, NEW A, NEW dum, NEW st,
         Good(b, P, K, c, si, sk, cd, G, bn, cb, NB, U, A, dum, st), Burst!Cut, st \notin {2, 3}
  PROVE  BurstInv'
<1>0. /\ Way(P, c, si, sk, cd, G, bn, cb, NB) /\ KeyTable(K, c, b, bn)
         /\ Chain(P, K, b, dum, st)
      /\ Sampling(K, si, sk) /\ Ids(b, NB, G, cb, cd) /\ Stopping(P, dum, st) /\ BurstTypes
      /\ Placing(P) /\ G \in Nat
  BY DEF Good, Way
<1>1. st \in {0, 1}
      /\ \E x, k, l, C, s, z, lo, n, f, v : CutState(b, P, K, c, x, k, l, C, s, z, lo, n, f, v)
  <2>1. gen # << >>
    BY DEF Burst!Cut, Burst!Idle
  <2> QED
    BY <2>1, CutStateIs
<1>2. PICK x, k, l, C, s, z, lo, n, f, v : CutState(b, P, K, c, x, k, l, C, s, z, lo, n, f, v)
  BY <1>1
<1>3. /\ k = K[x.req] /\ k.l = l /\ k.c = C /\ k.last \in BOOLEAN /\ l \in Askable
      /\ k.id # Burst!Dummy
      /\ ListAt(l, C, s, z) /\ CutOf(l, C, lo, n, f, v) /\ ListIs(v, k) /\ gen = <<v, f>>
  BY <1>2 DEF CutState
<1>4. PICK e, w : e = EngineFor(n) /\ w = CutCmd(v, f, n)
  OBVIOUS
<1>5. n = CutSize(v, f)
  BY <1>3 DEF CutOf
<1>6. /\ Burst!Room(cmd[e]) /\ cmd' = [cmd EXCEPT ![e] = Append(@, w)]
      /\ next'
           = [next EXCEPT !.dyn = IF v.id = Burst!Dummy THEN next.dyn ELSE Burst!Succ(next.dyn)]
      /\ CutEnds(v, f, n) => gen' = << >>
      /\ ~CutEnds(v, f, n) => gen' = <<v, f + n * Word>>
      /\ UNCHANGED <<lists, replies, burstRound, burstTodo, burstPc, update, vds, burstOn, work,
                     out, dynamic, sync, seen, sampled, current>>
  BY <1>3, <1>4, <1>5, CutWays
<1>7. /\ Answers(c, si, sk, U, A, Len(replies))' /\ KeyTable(K, c, b, bn)'
         /\ Replying(U, A, K, b)'
      /\ Sampling(K, si, sk)'
  BY <1>0, <1>6, RestKept, SeenKept
<1>8. Ids(b, NB, G + 1, cb, cd)' /\ next.dyn = Id(b, G)
  <2>1. /\ next = [sync |-> Id(b, Len(lists)), burst |-> Id(b, NB), dyn |-> Id(b, G)]
        /\ current = [sync |-> Id(b, Len(replies)), burst |-> Id(b, cb), dyn |-> Id(b, cd)]
    BY <1>0 DEF Ids
  <2>2. v.id # Burst!Dummy
    BY <1>3 DEF ListIs
  <2>3. Burst!Succ(Id(b, G)) = Id(b, G + 1)
    BY <1>0, IdFacts
  <2>4. next' = [next EXCEPT !.dyn = Burst!Succ(next.dyn)]
    BY <1>6, <2>2
  <2>5. next' = [sync |-> Id(b, Len(lists)), burst |-> Id(b, NB), dyn |-> Id(b, G + 1)]
    BY <2>1, <2>3, <2>4
  <2> QED
    BY <1>6, <2>1, <2>5 DEF Ids
<1>9. PICK r, m : r = At[e] /\ m = CutPiece(x, n, G)
  OBVIOUS
<1>10. r \in {6, 9} /\ e \in {"one", "long"} /\ e \in Burst!Engines /\ r \in Places
  <2>1. e \in {"one", "long"}
    BY <1>4 DEF EngineFor
  <2> QED
    BY <1>9, <2>1, AtFacts
<1>11. PICK Q : Q = MoveTo(P, 2, r, m)
  OBVIOUS
<1>12. /\ Way(Q, c, si, sk, cd, G + 1, bn, cb, NB)
       /\ m \in Item /\ m.req = x.req /\ m.lo = lo /\ m.hi = lo + n - 1 /\ m.num = G
  <2>1. /\ Way(MoveTo(P, 2, r, m), c, si, sk, cd, G + 1, bn, cb, NB)
        /\ m \in Item /\ m.req = x.req /\ m.lo = lo /\ m.hi = lo + n - 1 /\ m.num = G
    BY <1>0, <1>2, <1>9, <1>10, CutStep
  <2> QED
    BY <1>11, <2>1
<1>13. PICK g : g = gen'
  OBVIOUS
<1>14. /\ Cutter(g, Q[2], st, K)
       /\ \A q \in Places : q # 2 /\ q # r => Q[q] = P[q]
       /\ Q[r] = Append(P[r], m)
  <2>1. /\ CutEnds(v, f, n) => g = << >>
        /\ ~CutEnds(v, f, n) => g = <<v, f + n * Word>>
    BY <1>6, <1>13
  <2>2. m \in Item /\ m.req = x.req /\ m.lo = lo /\ m.hi = lo + n - 1
    BY <1>12
  <2> QED
    <3>1. RestOf(P, Q, x, m, lo, n, f, v, r, st, g)
      BY <1>1, <1>10, <1>11, <2>1, <2>2 DEF RestOf
    <3> QED
      BY <1>0, <1>2, <3>1, CutRest
<1>15. CmdIs(w, m, k, b)
  <2>1. m.lo = lo /\ m.hi = lo + n - 1 /\ m.num = G
    BY <1>12
  <2> QED
    BY <1>3, <1>4, <1>8, <2>1, CutCommand
<1>16. /\ DOMAIN cmd = Burst!Engines /\ Stream("cmd", cmd[e], P[r], dum[e], K, b)
       /\ P[r] \in Seq(Item) /\ Stream("list", vds, P[1], IF st = 1 THEN 1 ELSE 0, K, b)
  BY <1>0, <1>9, <1>10, PlacedItem DEF Chain
<1>17. dum[e] = 0
  <2>1. dum \in [Burst!Engines -> {0, 1}] /\ (dum["long"] = 1 => st \in {3, 4})
        /\ (dum["one"] = 1 => st = 4)
    BY <1>0 DEF Stopping
  <2> QED
    BY <1>1, <1>10, <2>1
<1>18. Stream("cmd", Append(cmd[e], w), Q[r], dum[e], K, b)
  <2>1. PICK t \in Seq(Item) : t = P[r]
    BY <1>16
  <2>2. Like("cmd", w, m, K, b)
    <3>1. K[m.req] = k
      BY <1>3, <1>12
    <3> QED
      BY <1>15, <3>1 DEF Like
  <2>3. Stream("cmd", cmd[e], t, 0, K, b)
    BY <1>16, <1>17, <2>1
  <2>4. Stream("cmd", Append(cmd[e], w), Append(t, m), 0, K, b)
    BY <1>12, <2>2, <2>3, StreamWrite
  <2> QED
    BY <1>14, <1>17, <2>1, <2>4
<1>19. Chain(Q, K, b, dum, st)'
  <2>1. 1 \in Places /\ 1 # 2 /\ 1 # r
    BY <1>10 DEF Places
  <2>2. Stream("list", vds, Q[1], IF st = 1 THEN 1 ELSE 0, K, b)
    BY <1>14, <1>16, <2>1
  <2>3. \A q \in Places : q # 2 /\ q # At[e] => Q[q] = P[q]
    BY <1>9, <1>14
  <2>4. Stream("cmd", Append(cmd[e], w), Q[At[e]], dum[e], K, b)
    BY <1>9, <1>18
  <2>5. Cutter(gen', Q[2], st, K)
    BY <1>13, <1>14
  <2>6. UNCHANGED <<vds, work, out, dynamic, sync>> /\ cmd' = [cmd EXCEPT ![e] = Append(@, w)]
    BY <1>6
  <2>7. CutMoves(P, Q, K, b, dum, dum, st, st, e, w)
    BY <1>0, <1>10, <2>2, <2>3, <2>4, <2>5, <2>6 DEF CutMoves
  <2> QED
    BY <2>7, CutChain
<1>20. Stopping(Q, dum, st)'
  <2>1. st \notin {2, 3, 4}
    BY <1>1
  <2> QED
    BY <1>0, <1>6, <2>1 DEF Stopping
<1>21. BurstTypes'
  <2>1. /\ cmd'[e] = Append(cmd[e], w) /\ \A h \in Burst!Engines : h # e => cmd'[h] = cmd[h]
    BY <1>6, <1>10, <1>16
  <2>2. Len(cmd'[e]) <= Depth
    <3>1. IsSeq(cmd[e])
      BY <1>16 DEF Stream
    <3> QED
      BY <1>6, <2>1, <3>1, DepthKept
  <2>3. \A h \in Burst!Engines : Len(cmd'[h]) <= Depth /\ Len(out'[h]) <= Depth
    BY <1>0, <1>6, <2>1, <2>2 DEF BurstTypes
  <2> QED
    BY <1>0, <1>6, <2>3 DEF BurstTypes
<1>22. PICK G2 : G2 = G + 1
  OBVIOUS
<1>23. Good(b, Q, K, c, si, sk, cd, G2, bn, cb, NB, U, A, dum, st)'
  BY <1>7, <1>8, <1>12, <1>19, <1>20, <1>21, <1>22 DEF Good
<1> QED
  BY <1>23 DEF BurstInv

\* Cut is one of the two.
LEMMA CutKeeps ==
  ASSUME Burst!BurstAssumption, BurstInv, Burst!Cut
  PROVE  BurstInv'
<1>1. PICK b \in Base : \E P, K, c, si, sk, cd, G, bn, cb, NB, U, A, dum, st :
         Good(b, P, K, c, si, sk, cd, G, bn, cb, NB, U, A, dum, st)
  BY DEF BurstInv
<1>2. PICK P, K, c, si, sk, cd, G, bn, cb, NB, U, A, dum, st :
         Good(b, P, K, c, si, sk, cd, G, bn, cb, NB, U, A, dum, st)
  BY <1>1
<1>3. CASE st \in {2, 3}
  BY <1>2, <1>3, CutStopKeeps
<1>4. CASE st \notin {2, 3}
  BY <1>2, <1>4, CutListKeeps
<1> QED
  BY <1>3, <1>4

-----------------------------------------------------------------------------
(***************************************************************************)
(* The host's rounds, and the invariant.                                   *)
(***************************************************************************)

\* What the host can rely on when the engines and fetch_next have returned.
LEMMA Over ==
  ASSUME Burst!BurstAssumption, NEW b, NEW P, NEW K, NEW c, NEW si, NEW sk, NEW cd,
         NEW G, NEW bn, NEW cb, NEW NB, NEW U, NEW A, NEW dum, NEW st,
         Good(b, P, K, c, si, sk, cd, G, bn, cb, NB, U, A, dum, st), Burst!Finished
  PROVE  /\ st = 4 /\ dum \in [Burst!Engines -> {0, 1}] /\ \A e \in Burst!Engines : dum[e] = 0
         /\ burstPc = "main" /\ burstTodo = << >>
         /\ \A q \in Places : P[q] = << >>
         /\ cd = G /\ cb = NB /\ U = << >> /\ A = << >> /\ Len(replies) = Len(c)
         /\ Len(lists) = Len(c)
         /\ \A i \in 1..Len(c) : c[i] # 0 => SeenAll(c, i, si, sk)
<1>0. /\ Way(P, c, si, sk, cd, G, bn, cb, NB) /\ Answers(c, si, sk, U, A, Len(replies))
      /\ KeyTable(K, c, b, bn) /\ Stopping(P, dum, st)
  BY DEF Good
<1>1. /\ "one" \in Burst!Engines /\ "long" \in Burst!Engines /\ "single" \in Burst!Engines
      /\ Burst!Engines = {"one", "long", "single"}
  BY AtFacts
<1>2. /\ ~burstOn["one"] /\ ~burstOn["long"] /\ ~burstOn["single"] /\ burstTodo = << >>
      /\ Len(replies) = Len(lists)
  BY <1>1 DEF Burst!Finished
<1>3. st = 4 /\ dum["one"] # 1 /\ dum["long"] # 1 /\ dum["single"] # 1
  BY <1>0, <1>2 DEF Stopping
<1>4. burstPc = "main"
  BY <1>0, <1>2, <1>3 DEF Stopping
<1>5. dum \in [Burst!Engines -> {0, 1}] /\ \A e \in Burst!Engines : dum[e] = 0
  BY <1>0, <1>1, <1>3 DEF Stopping
<1>6. PICK n : n = Len(replies)
  OBVIOUS
<1>7. Len(c) = n /\ Len(lists) = n
  BY <1>0, <1>2, <1>6 DEF KeyTable, KeyTableOf
<1>8. /\ n \in Nat /\ Rising(U, n + 1, n) /\ Rising(A, n + 1, n)
      /\ \A i \in 1..n : c[i] # 0 => SeenAll(c, i, si, sk)
  BY <1>0, <1>6, <1>7 DEF Answers
<1>9. ASSUME NEW s, Rising(s, n + 1, n) PROVE s = << >>
  <2>1. s \in Seq(Nat) /\ \A i \in 1..Len(s) : s[i] \in (n + 1)..n
    BY <1>9 DEF Rising
  <2>2. (n + 1)..n = {}
    BY <1>8
  <2>3. Len(s) = 0
    <3>1. Len(s) \in Nat
      BY <2>1
    <3>2. ASSUME Len(s) # 0 PROVE FALSE
      <4>1. 1 \in 1..Len(s)
        BY <3>1, <3>2
      <4> QED
        BY <2>1, <2>2, <4>1
    <3> QED
      BY <3>2
  <2> QED
    BY <2>1, <2>3
<1>10. U = << >> /\ A = << >>
  BY <1>8, <1>9
<1>11. \A i \in 1..Len(c) : c[i] # 0 => i < si \/ (i = si /\ sk = c[i])
  BY <1>7, <1>8 DEF SeenAll
<1>12. (\A q \in Places : P[q] = << >>) /\ cd = G /\ cb = NB
  BY <1>0, <1>11, NothingLeft
<1> QED
  BY <1>2, <1>3, <1>4, <1>5, <1>6, <1>7, <1>8, <1>10, <1>12

\* A round may ask for anything the host may ask for.
LEMMA RoundType ==
  ASSUME Burst!BurstAssumption, NEW r \in BurstRounds
  PROVE  IsSeq(r) /\ r # << >> /\ \A i \in 1..Len(r) : r[i] \in Askable
<1>1. r \in Seq(Nat \X Nat) /\ r # << >>
  BY DEF Burst!BurstAssumption
<1>2. IsSeq(r)
  BY <1>1 DEF IsSeq
<1>3. ASSUME NEW i \in 1..Len(r) PROVE r[i] \in Askable
  <2>1. i \in DOMAIN r
    BY <1>1
  <2>2. r[i] \in {r[j] : j \in DOMAIN r}
    BY <2>1
  <2> QED
    BY <2>2 DEF Askable
<1> QED
  BY <1>1, <1>2, <1>3

\* The host starts the next round.
LEMMA StartRoundKeeps ==
  ASSUME Burst!BurstAssumption, NEW b \in Base, NEW P, NEW K, NEW c, NEW si, NEW sk, NEW cd,
         NEW G, NEW bn, NEW cb, NEW NB, NEW U, NEW A, NEW dum, NEW st,
         Good(b, P, K, c, si, sk, cd, G, bn, cb, NB, U, A, dum, st), Burst!StartRound
  PROVE  BurstInv'
<1>0. /\ Way(P, c, si, sk, cd, G, bn, cb, NB) /\ KeyTable(K, c, b, bn)
         /\ Chain(P, K, b, dum, st)
      /\ Sampling(K, si, sk) /\ Ids(b, NB, G, cb, cd) /\ Stopping(P, dum, st) /\ BurstTypes
  BY DEF Good
<1>1. /\ Burst!Finished /\ burstRound < MaxRounds /\ burstRound' = burstRound + 1
      /\ burstOn' = [e \in Burst!Engines |-> TRUE] /\ burstTodo' \in BurstRounds
      /\ UNCHANGED <<lists, replies, burstPc, next, update, vds, gen, cmd, work, out, dynamic,
                     sync, seen, sampled, current>>
  BY DEF Burst!StartRound
<1>2. /\ st = 4 /\ dum \in [Burst!Engines -> {0, 1}] /\ \A e \in Burst!Engines : dum[e] = 0
      /\ burstPc = "main" /\ \A q \in Places : P[q] = << >>
  BY <1>1, Over
<1>3. /\ Answers(c, si, sk, U, A, Len(replies))' /\ KeyTable(K, c, b, bn)'
         /\ Replying(U, A, K, b)'
      /\ Sampling(K, si, sk)'
  BY <1>0, <1>1, RestKept, SeenKept
<1>4. Ids(b, NB, G, cb, cd)'
  BY <1>0, <1>1 DEF Ids
<1>5. 1 \in Places /\ 2 \in Places
  BY DEF Places
<1>6. P[2] = << >> /\ gen = << >>
  <2>1. Cutter(gen, P[2], 4, K)
    BY <1>0, <1>2 DEF Chain
  <2>2. P[2] = << >> /\ Len(<< >>) = 0
    BY <1>2, <1>5
  <2> QED
    BY <2>1, <2>2 DEF Cutter
<1>7. Cutter(gen', P[2], 0, K)
  BY <1>1, <1>6 DEF Cutter
<1>8. Stream("list", vds', P[1], 0, K, b)
  BY <1>0, <1>1, <1>2 DEF Chain
<1>9. ASSUME NEW g \in Burst!Engines
      PROVE  /\ Stream("cmd", cmd'[g], P[At[g]], dum[g], K, b)
             /\ Working(work'[g], P[At[g] + 1], K, b)
             /\ Stream("word", out'[g], P[At[g] + 2], 0, K, b)
  BY <1>0, <1>1 DEF Chain
<1>10. Chain(P, K, b, dum, 0)'
  BY <1>0, <1>1, <1>7, <1>8, <1>9 DEF Chain
<1>11. PICK r \in BurstRounds : r = burstTodo'
  BY <1>1
<1>12. IsSeq(r) /\ r # << >> /\ \A i \in 1..Len(r) : r[i] \in Askable
  BY RoundType
<1>13. Stopping(P, dum, 0)'
  <2>1. "long" \in Burst!Engines /\ "one" \in Burst!Engines /\ "single" \in Burst!Engines
    BY AtFacts
  <2>2. burstOn'["long"] /\ burstOn'["one"] /\ burstOn'["single"]
    BY <1>1, <2>1
  <2>3. dum["long"] = 0 /\ dum["one"] = 0 /\ dum["single"] = 0
    BY <1>2, <2>1
  <2> QED
    BY <1>1, <1>2, <1>11, <1>12, <2>2, <2>3 DEF Stopping
<1>14. BurstTypes'
  <2>1. burstRound' \in 0..MaxRounds
    BY <1>0, <1>1 DEF BurstTypes, Burst!BurstAssumption
  <2>2. burstOn' \in [Burst!Engines -> BOOLEAN]
    BY <1>1
  <2> QED
    BY <1>0, <1>1, <1>11, <1>12, <2>1, <2>2 DEF BurstTypes
<1>15. Good(b, P, K, c, si, sk, cd, G, bn, cb, NB, U, A, dum, 0)'
  BY <1>0, <1>3, <1>4, <1>10, <1>13, <1>14 DEF Good
<1> QED
  BY <1>15 DEF BurstInv

\* Nothing happens.
LEMMA StutterKeeps ==
  ASSUME BurstInv, UNCHANGED Burst!vars
  PROVE  BurstInv'
<1>1. PICK b \in Base : \E P, K, c, si, sk, cd, G, bn, cb, NB, U, A, dum, st :
         Good(b, P, K, c, si, sk, cd, G, bn, cb, NB, U, A, dum, st)
  BY DEF BurstInv
<1>2. PICK P, K, c, si, sk, cd, G, bn, cb, NB, U, A, dum, st :
         Good(b, P, K, c, si, sk, cd, G, bn, cb, NB, U, A, dum, st)
  BY <1>1
<1>3. UNCHANGED <<lists, replies, burstRound, burstTodo, burstPc, next, update, vds, gen, cmd,
                  burstOn, work, out, dynamic, sync, seen, sampled, current>>
  BY DEF Burst!vars
<1>4. /\ Answers(c, si, sk, U, A, Len(replies))' /\ KeyTable(K, c, b, bn)'
         /\ Replying(U, A, K, b)'
      /\ Sampling(K, si, sk)'
  <2>1. Sampling(K, si, sk)
    BY <1>2 DEF Good
  <2> QED
    BY <1>2, <1>3, <2>1, RestKept, SeenKept
<1>5. /\ Way(P, c, si, sk, cd, G, bn, cb, NB) /\ Chain(P, K, b, dum, st)
      /\ Ids(b, NB, G, cb, cd) /\ Stopping(P, dum, st) /\ BurstTypes
  BY <1>2 DEF Good
<1>6. Chain(P, K, b, dum, st)'
  BY <1>3, <1>5 DEF Chain
<1>7. Ids(b, NB, G, cb, cd)' /\ Stopping(P, dum, st)' /\ BurstTypes'
  BY <1>3, <1>5 DEF Ids, Stopping, BurstTypes
<1>8. Good(b, P, K, c, si, sk, cd, G, bn, cb, NB, U, A, dum, st)'
  BY <1>4, <1>5, <1>6, <1>7 DEF Good
<1> QED
  BY <1>8 DEF BurstInv

\* Before the first round nothing is on its way.
LEMMA EmptyWay ==
  ASSUME NEW P, P = [q \in Places |-> << >>], NEW o, o = 0, NEW e, e = << >>
  PROVE  Way(P, e, o, o, o, o, e, o, o)
<1>1. \A q \in Places : P[q] = << >>
  OBVIOUS
<1>2. Placing(P)
  <2>1. << >> \in Seq(Item)
    OBVIOUS
  <2> QED
    BY <2>1 DEF Placing
<1>3. \A q \in Places : \A i \in 1..Len(P[q]) : FALSE
  <2> SUFFICES ASSUME NEW q \in Places, NEW i \in 1..Len(P[q]) PROVE FALSE
    OBVIOUS
  <2>1. Len(P[q]) = 0
    BY <1>1
  <2>2. i \in 1..0
    BY <2>1
  <2> QED
    BY <2>2
<1>4. e \in Seq(Nat) /\ Len(e) = 0 /\ 1..Len(e) = {}
  OBVIOUS
<1>5. Ordered(P) /\ Located(P, e) /\ Unseen(P, o, o)
  BY <1>3 DEF Ordered, Located, Unseen
<1>6. Progress(e, o, o) /\ Present(P, e, o, o)
  BY <1>4 DEF Progress, Present
<1>7. Numbered(P, o, o)
  <2>1. NumRange(P, o, o) /\ NumOrder(P)
    BY <1>3, CuttingPlaces DEF NumRange, NumOrder
  <2>2. o..(o - 1) = {}
    OBVIOUS
  <2>3. NumAll(P, o, o)
    BY <2>2 DEF NumAll
  <2> QED
    BY <2>1, <2>3 DEF Numbered
<1>8. Bursts(P, e, e, o, o)
  <2>1. Ranked(e, e, o)
    BY <1>4 DEF Ranked
  <2>2. BurstRange(P, e, o)
    BY <1>3, WaitingPlaces DEF BurstRange
  <2>3. o..(o - 1) = {}
    OBVIOUS
  <2>4. BurstAll(P, e, e, o, o)
    BY <2>3 DEF BurstAll
  <2> QED
    BY <2>1, <2>2, <2>4 DEF Bursts
<1> QED
  BY <1>2, <1>4, <1>5, <1>6, <1>7, <1>8 DEF Way

\* Nor is an answer.
LEMMA EmptyAnswers ==
  ASSUME NEW o, o = 0, NEW e, e = << >>
  PROVE  Answers(e, o, o, e, e, o)
<1>1. e \in Seq(Nat) /\ Len(e) = 0 /\ 1..Len(e) = {} /\ (o + 1)..Len(e) = {} /\ 1..o = {}
  OBVIOUS
<1>2. Rising(e, o + 1, Len(e))
  BY <1>1 DEF Rising
<1> QED
  BY <1>1, <1>2 DEF Answers

\* Streams are empty.
LEMMA EmptyStream ==
  ASSUME Burst!BurstAssumption, NEW kind, NEW e, e = << >>, NEW o, o = 0, NEW K, NEW b
  PROVE  Stream(kind, e, e, o, K, b) /\ Working(e, e, K, b) /\ IsSeq(e)
<1>1. e \in Seq({}) /\ Len(e) = 0 /\ 1..Len(e) = {}
  OBVIOUS
<1>2. IsSeq(e)
  BY <1>1 DEF IsSeq
<1> QED
  BY <1>1, <1>2 DEF Stream, Working, Burst!BurstAssumption

\* The invariant holds before the first round.
LEMMA InitHolds ==
  ASSUME Burst!BurstAssumption, Burst!Init
  PROVE  BurstInv
<1>1. PICK b \in Base : /\ next = [sync |-> b, burst |-> b, dyn |-> b]
                        /\ current = [sync |-> b, burst |-> b, dyn |-> b]
  BY DEF Burst!Init
<1>2. /\ lists = << >> /\ replies = << >> /\ burstRound = 0 /\ burstTodo = << >>
         /\ burstPc = "main"
      /\ update = << >> /\ vds = << >> /\ gen = << >>
      /\ cmd = [g \in Burst!Engines |-> << >>] /\ burstOn = [g \in Burst!Engines |-> FALSE]
      /\ work = [g \in Burst!Engines |-> << >>] /\ out = [g \in Burst!Engines |-> << >>]
      /\ dynamic = << >> /\ sync = << >> /\ seen = Burst!Nothing /\ sampled = << >>
  BY DEF Burst!Init, Burst!Idle
<1>3. PICK P, o, e, dum, st : P = [q \in Places |-> << >>] /\ o = 0 /\ e = << >>
                              /\ dum = [g \in Burst!Engines |-> 0] /\ st = 4
  OBVIOUS
<1>4. Way(P, e, o, o, o, o, e, o, o) /\ Answers(e, o, o, e, e, o)
  BY <1>3, EmptyWay, EmptyAnswers
<1>5. PICK K : K = Keys(lists, e, b, e)
  OBVIOUS
<1>6. IsSeq(e) /\ Len(e) = 0 /\ 1..Len(e) = {} /\ e \in Seq(Nat)
  BY <1>3, EmptyStream
<1>7. KeyTable(K, e, b, e)
  BY <1>2, <1>3, <1>5, <1>6 DEF KeyTable, KeyTableOf
<1>8. Len(replies) = o /\ Len(lists) = o
  BY <1>2, <1>3
<1>9. /\ 1 \in Places /\ 2 \in Places /\ 12 \in Places /\ 13 \in Places
      /\ \A q \in Places : P[q] = e
  BY <1>3 DEF Places
<1>10. ASSUME NEW g \in Burst!Engines
       PROVE  /\ Stream("cmd", cmd[g], P[At[g]], dum[g], K, b)
              /\ Working(work[g], P[At[g] + 1], K, b)
              /\ Stream("word", out[g], P[At[g] + 2], 0, K, b)
  <2>1. P[At[g]] = e /\ P[At[g] + 1] = e /\ P[At[g] + 2] = e
    BY <1>9, AtFacts
  <2>2. cmd[g] = e /\ work[g] = e /\ out[g] = e /\ dum[g] = o
    BY <1>2, <1>3
  <2>3. Stream("cmd", e, e, o, K, b) /\ Working(e, e, K, b) /\ Stream("word", e, e, o, K, b)
    BY <1>3, EmptyStream
  <2> QED
    BY <1>3, <2>1, <2>2, <2>3
<1>11. Chain(P, K, b, dum, st)
  <2>1. Stream("list", e, e, o, K, b) /\ Stream("word", e, e, o, K, b)
    BY <1>3, EmptyStream
  <2>2. Stream("list", vds, P[1], 0, K, b) /\ Stream("word", dynamic, P[12], 0, K, b)
        /\ Stream("word", sync, P[13], 0, K, b)
    BY <1>2, <1>3, <1>9, <2>1
  <2>3. Cutter(gen, P[2], st, K)
    BY <1>2, <1>3, <1>9 DEF Cutter
  <2> QED
    BY <1>2, <1>3, <1>10, <2>2, <2>3 DEF Chain
<1>12. Replying(e, e, K, b)
  <2>1. Stream("answer", e, e, o, K, b)
    BY <1>3, EmptyStream
  <2> QED
    BY <1>2, <1>3, <1>6, <2>1 DEF Replying
<1>13. Sampling(K, o, o)
  BY <1>2, <1>3 DEF Sampling
<1>14. Ids(b, o, o, o, o)
  <2>1. Id(b, o) = b
    BY <1>3, IdFacts
  <2> QED
    BY <1>1, <1>8, <2>1 DEF Ids
<1>15. Stopping(P, dum, st)
  <2>1. /\ "one" \in Burst!Engines /\ "long" \in Burst!Engines /\ "single" \in Burst!Engines
    BY AtFacts
  <2>2. dum \in [Burst!Engines -> {0, 1}] /\ dum["one"] = 0 /\ dum["long"] = 0
        /\ dum["single"] = 0
    BY <1>3, <2>1
  <2>3. ~burstOn["one"] /\ ~burstOn["long"] /\ ~burstOn["single"]
    BY <1>2, <2>1
  <2>4. P[1] = << >>
    BY <1>3, <1>9
  <2> QED
    BY <1>2, <1>3, <2>2, <2>3, <2>4 DEF Stopping
<1>16. BurstTypes
  <2>1. 0 \in 0..MaxRounds /\ 0 <= Depth
    BY DEF Burst!BurstAssumption
  <2>2. burstOn \in [Burst!Engines -> BOOLEAN]
    BY <1>2
  <2>3. IsSeq(burstTodo) /\ \A i \in 1..Len(burstTodo) : burstTodo[i] \in Askable
    BY <1>2, <1>3, <1>6
  <2>4. /\ Len(vds) <= Depth /\ Len(update) <= Depth /\ Len(dynamic) <= Depth
        /\ Len(sync) <= Depth /\ Len(sampled) <= Depth
    BY <1>2, <1>3, <1>6, <2>1
  <2>5. ASSUME NEW g \in Burst!Engines PROVE Len(cmd[g]) <= Depth /\ Len(out[g]) <= Depth
    BY <1>2, <1>3, <1>6, <2>1
  <2> QED
    BY <1>2, <2>1, <2>2, <2>3, <2>4, <2>5 DEF BurstTypes
<1>17. Good(b, P, K, e, o, o, o, o, e, o, o, e, e, dum, st)
  BY <1>4, <1>7, <1>8, <1>11, <1>12, <1>13, <1>14, <1>15, <1>16 DEF Good
<1> QED
  BY <1>17 DEF BurstInv

\* Every step of the burst engine keeps the invariant, case by case.
LEMMA GoodStep ==
  ASSUME Burst!BurstAssumption, NEW b \in Base, NEW P, NEW K, NEW c, NEW si, NEW sk, NEW cd,
         NEW G, NEW bn, NEW cb, NEW NB, NEW U, NEW A, NEW dum, NEW st,
         Good(b, P, K, c, si, sk, cd, G, bn, cb, NB, U, A, dum, st), Burst!Next
  PROVE  BurstInv'
<1>0. BurstInv
  BY DEF BurstInv
<1>1. CASE Burst!Scheduler
  <2>1. CASE Burst!Dispatch
    <3>1. CASE Head(burstTodo)[2] = 0
      BY <2>1, <3>1, DispatchEmpty
    <3>2. CASE Head(burstTodo)[2] # 0
      BY <2>1, <3>2, DispatchSingleKeeps
    <3> QED
      BY <3>1, <3>2
  <2>2. CASE Burst!StopSingle
    BY <2>2, StopSingleKeeps
  <2>3. CASE Burst!StopDynamic
    BY <2>3, StopDynamicKeeps
  <2> QED
    BY <1>1, <2>1, <2>2, <2>3 DEF Burst!Scheduler
<1>2. CASE Burst!Generator
  <2>1. CASE Burst!TakeList
    BY <2>1, TakeListKeeps
  <2>2. CASE Burst!Cut
    BY <1>0, <2>2, CutKeeps
  <2> QED
    BY <1>2, <2>1, <2>2 DEF Burst!Generator
<1>3. ASSUME NEW e \in Burst!Engines, Burst!Engine(e) PROVE BurstInv'
  <2>1. CASE Burst!TakeCommand(e)
    BY <2>1, TakeCommandKeeps
  <2>2. CASE Burst!SendWord(e)
    BY <2>2, SendWordKeeps
  <2> QED
    BY <1>3, <2>1, <2>2 DEF Burst!Engine
<1>4. CASE Burst!Intra
  <2>1. PICK e \in Burst!Engines : Burst!IntraMerge(e)
    BY <1>4 DEF Burst!Intra
  <2> QED
    BY <2>1, IntraMergeKeeps
<1>5. CASE Burst!Inter
  <2>1. PICK single \in BOOLEAN : Burst!InterMerge(single)
    BY <1>5 DEF Burst!Inter
  <2> QED
    BY <2>1, InterMergeKeeps
<1>6. CASE Burst!Sample
  BY <1>6, SampleKeeps
<1>7. CASE Burst!Update
  <2>1. PICK empty \in BOOLEAN : Burst!UpdateMerge(empty)
    BY <1>7 DEF Burst!Update
  <2> QED
    BY <2>1, UpdateMergeKeeps
<1>8. CASE Burst!StartRound
  BY <1>8, StartRoundKeeps
<1>9. CASE Burst!Exit
  <2>1. UNCHANGED Burst!vars
    BY <1>9 DEF Burst!Exit
  <2> QED
    BY <1>0, <2>1, StutterKeeps
<1> QED
  BY <1>1, <1>2, <1>3, <1>4, <1>5, <1>6, <1>7, <1>8, <1>9 DEF Burst!Next

\* Every step of the burst engine keeps the invariant.
LEMMA BurstNextKeeps ==
  ASSUME Burst!BurstAssumption, BurstInv, [Burst!Next]_(Burst!vars)
  PROVE  BurstInv'
<1>1. PICK b \in Base : \E P, K, c, si, sk, cd, G, bn, cb, NB, U, A, dum, st :
         Good(b, P, K, c, si, sk, cd, G, bn, cb, NB, U, A, dum, st)
  BY DEF BurstInv
<1>2. PICK P, K, c, si, sk, cd, G, bn, cb, NB, U, A, dum, st :
         Good(b, P, K, c, si, sk, cd, G, bn, cb, NB, U, A, dum, st)
  BY <1>1
<1>3. CASE Burst!Next
  BY <1>2, <1>3, GoodStep
<1>4. CASE UNCHANGED Burst!vars
  BY <1>4, StutterKeeps
<1> QED
  BY <1>3, <1>4

\* Types and depths follow.
LEMMA BurstInvType ==
  ASSUME Burst!BurstAssumption, BurstInv
  PROVE  Burst!TypeOK
<1>1. PICK b \in Base : \E P, K, c, si, sk, cd, G, bn, cb, NB, U, A, dum, st :
         Good(b, P, K, c, si, sk, cd, G, bn, cb, NB, U, A, dum, st)
  BY DEF BurstInv
<1>2. PICK P, K, c, si, sk, cd, G, bn, cb, NB, U, A, dum, st :
         Good(b, P, K, c, si, sk, cd, G, bn, cb, NB, U, A, dum, st)
  BY <1>1
<1>3. /\ Way(P, c, si, sk, cd, G, bn, cb, NB) /\ KeyTable(K, c, b, bn)
         /\ Chain(P, K, b, dum, st)
      /\ Ids(b, NB, G, cb, cd) /\ Stopping(P, dum, st) /\ BurstTypes
      /\ Answers(c, si, sk, U, A, Len(replies))
  BY <1>2 DEF Good
<1>4. cd \in Nat /\ G \in Nat /\ cb \in Nat /\ NB \in Nat /\ c \in Seq(Nat)
  BY <1>3 DEF Way
<1>5. Len(lists) \in Nat /\ Len(replies) \in Nat
  <2>1. Len(lists) = Len(c)
    BY <1>3 DEF KeyTable, KeyTableOf
  <2> QED
    BY <1>3, <1>4, <2>1 DEF Answers
<1>6. /\ next \in [{"sync", "burst", "dyn"} -> 0..(IdRange - 1)]
      /\ current \in [{"sync", "burst", "dyn"} -> 0..(IdRange - 1)]
  <2>1. PICK n, r : n = Len(lists) /\ r = Len(replies)
    OBVIOUS
  <2>2. /\ Id(b, n) \in 0..(IdRange - 1) /\ Id(b, r) \in 0..(IdRange - 1)
        /\ Id(b, NB) \in 0..(IdRange - 1) /\ Id(b, G) \in 0..(IdRange - 1)
        /\ Id(b, cb) \in 0..(IdRange - 1) /\ Id(b, cd) \in 0..(IdRange - 1)
    BY <1>4, <1>5, <2>1, IdFacts
  <2>3. /\ next = [sync |-> Id(b, n), burst |-> Id(b, NB), dyn |-> Id(b, G)]
        /\ current = [sync |-> Id(b, r), burst |-> Id(b, cb), dyn |-> Id(b, cd)]
    BY <1>3, <2>1 DEF Ids
  <2> QED
    BY <2>2, <2>3
<1>7. \A e \in Burst!Engines : Len(cmd[e]) <= Depth /\ Len(out[e]) <= Depth
      /\ Len(work[e]) <= MaxLen
  BY <1>3 DEF BurstTypes, Chain, Working
<1> QED
  BY <1>3, <1>6, <1>7 DEF Burst!TypeOK, BurstTypes, Stopping

-----------------------------------------------------------------------------
(***************************************************************************)
(* What the invariant shows: rounds are apart, entries are exact, and the  *)
(* answers are those of BurstService, in order.                            *)
(***************************************************************************)

\* Nothing of a finished round is left.
LEMMA BurstInvApart ==
  ASSUME Burst!BurstAssumption, BurstInv, Burst!Finished
  PROVE  /\ burstPc = "main" /\ gen = Burst!Idle /\ seen = Burst!Nothing
         /\ update = << >> /\ vds = << >> /\ dynamic = << >> /\ sync = << >> /\ sampled = << >>
         /\ \A e \in Burst!Engines : cmd[e] = << >> /\ work[e] = << >> /\ out[e] = << >>
         /\ current = next
<1>1. PICK b \in Base : \E P, K, c, si, sk, cd, G, bn, cb, NB, U, A, dum, st :
         Good(b, P, K, c, si, sk, cd, G, bn, cb, NB, U, A, dum, st)
  BY DEF BurstInv
<1>2. PICK P, K, c, si, sk, cd, G, bn, cb, NB, U, A, dum, st :
         Good(b, P, K, c, si, sk, cd, G, bn, cb, NB, U, A, dum, st)
  BY <1>1
<1>3. /\ Way(P, c, si, sk, cd, G, bn, cb, NB) /\ KeyTable(K, c, b, bn)
         /\ Chain(P, K, b, dum, st)
      /\ Ids(b, NB, G, cb, cd) /\ Sampling(K, si, sk) /\ Replying(U, A, K, b)
  BY <1>2 DEF Good
<1>4. /\ st = 4 /\ \A e \in Burst!Engines : dum[e] = 0
      /\ burstPc = "main" /\ \A q \in Places : P[q] = << >>
      /\ cd = G /\ cb = NB /\ U = << >> /\ A = << >> /\ Len(replies) = Len(c)
         /\ Len(lists) = Len(c)
      /\ \A i \in 1..Len(c) : c[i] # 0 => SeenAll(c, i, si, sk)
  BY <1>2, Over
<1>5. 1 \in Places /\ 2 \in Places /\ 12 \in Places /\ 13 \in Places
  BY DEF Places
<1>6. ASSUME NEW kind, NEW s, NEW t, t = << >>, NEW d, d = 0, Stream(kind, s, t, d, K, b)
      PROVE  s = << >>
  <2>1. t \in Seq(Item)
    BY <1>6
  <2> QED
    BY <1>6, <2>1, StreamSize
<1>7. gen = << >>
  <2>1. Cutter(gen, P[2], 4, K)
    BY <1>3, <1>4 DEF Chain
  <2> QED
    BY <2>1 DEF Cutter
<1>8. vds = << >> /\ dynamic = << >> /\ sync = << >>
  <2>1. /\ Stream("list", vds, P[1], 0, K, b) /\ Stream("word", dynamic, P[12], 0, K, b)
        /\ Stream("word", sync, P[13], 0, K, b)
    BY <1>3, <1>4 DEF Chain
  <2>2. P[1] = << >> /\ P[12] = << >> /\ P[13] = << >>
    BY <1>4, <1>5
  <2> QED
    BY <1>6, <2>1, <2>2
<1>9. update = << >> /\ sampled = << >>
  <2>1. Stream("answer", update, U, 0, K, b) /\ Stream("answer", sampled, A, 0, K, b)
    BY <1>3 DEF Replying
  <2> QED
    BY <1>4, <1>6, <2>1
<1>10. ASSUME NEW e \in Burst!Engines
       PROVE  cmd[e] = << >> /\ work[e] = << >> /\ out[e] = << >>
  <2>1. /\ Stream("cmd", cmd[e], P[At[e]], dum[e], K, b)
        /\ Working(work[e], P[At[e] + 1], K, b)
        /\ Stream("word", out[e], P[At[e] + 2], 0, K, b)
    BY <1>3 DEF Chain
  <2>2. P[At[e]] = << >> /\ P[At[e] + 1] = << >> /\ P[At[e] + 2] = << >> /\ dum[e] = 0
    BY <1>4, AtFacts
  <2>3. work[e] = << >>
    BY <2>1, <2>2 DEF Working
  <2> QED
    BY <1>6, <2>1, <2>2, <2>3
<1>11. current = next
  <2>1. Id(b, Len(lists)) = Id(b, Len(replies))
    BY <1>4
  <2> QED
    BY <1>3, <1>4, <2>1 DEF Ids
<1>12. seen = Burst!Nothing
  <2>1. c \in Seq(Nat) /\ Progress(c, si, sk)
    BY <1>3 DEF Way
  <2>2. CASE si = 0
    BY <1>3, <2>2 DEF Sampling
  <2>3. CASE si # 0
    <3>1. PICK i \in 1..Len(c) : i = si
      BY <2>1, <2>3 DEF Progress
    <3>2. 1 <= sk /\ sk <= c[i] /\ sk \in Nat /\ c[i] \in Nat
      BY <2>1, <2>3, <3>1 DEF Progress
    <3>3. SeenAll(c, i, si, sk)
      BY <1>4, <3>2
    <3>4. sk = c[i]
      BY <3>1, <3>3 DEF SeenAll
    <3>5. K[i].c = c[i]
      BY <1>3, <2>1, ListOf
    <3>6. ~(sk < K[si].c)
      BY <3>1, <3>2, <3>4, <3>5
    <3> QED
      BY <1>3, <3>6 DEF Sampling
  <2> QED
    BY <2>2, <2>3
<1> QED
  BY <1>4, <1>7, <1>8, <1>9, <1>10, <1>11, <1>12 DEF Burst!Idle

\* RoundsApart follows from the invariant.
LEMMA ApartIs ==
  ASSUME Burst!BurstAssumption, BurstInv
  PROVE  RoundsApart
<1>1. ASSUME Burst!Finished
      PROVE  /\ burstPc = "main" /\ gen = Burst!Idle /\ seen = Burst!Nothing
             /\ \A s \in {update, vds, dynamic, sync, sampled} : s = << >>
             /\ \A e \in Burst!Engines : cmd[e] = << >> /\ work[e] = << >> /\ out[e] = << >>
             /\ current = next
  BY <1>1, BurstInvApart
<1> QED
  BY <1>1 DEF RoundsApart, Burst!RoundsApart

\* The answers given show the entries of their lists.
LEMMA BurstInvExact ==
  ASSUME Burst!BurstAssumption, BurstInv, Exact
  PROVE  ExactEntries
<1>1. PICK b \in Base : \E P, K, c, si, sk, cd, G, bn, cb, NB, U, A, dum, st :
         Good(b, P, K, c, si, sk, cd, G, bn, cb, NB, U, A, dum, st)
  BY DEF BurstInv
<1>2. PICK P, K, c, si, sk, cd, G, bn, cb, NB, U, A, dum, st :
         Good(b, P, K, c, si, sk, cd, G, bn, cb, NB, U, A, dum, st)
  BY <1>1
<1>3. /\ KeyTable(K, c, b, bn) /\ Replying(U, A, K, b) /\ Answers(c, si, sk, U, A, Len(replies))
      /\ c \in Seq(Nat)
  BY <1>2 DEF Good, Way
<1>4. IsSeq(replies) /\ \A i \in 1..Len(replies) : AnswerIs(replies[i], K[i])
  BY <1>3 DEF Replying
<1>5. PICK n : n = Len(replies)
  OBVIOUS
<1>6. n \in Nat /\ n <= Len(c) /\ DOMAIN replies = 1..n
  <2>1. PICK S : replies \in Seq(S)
    BY <1>4 DEF IsSeq
  <2> QED
    BY <1>3, <1>5, <2>1 DEF Answers
<1>7. ASSUME NEW i \in 1..n
      PROVE  replies[i].entries = lists[i].list[1]..(lists[i].list[1] + lists[i].list[2] - 1)
  <2>1. i \in 1..Len(c)
    BY <1>3, <1>6
  <2>2. K[i].l = lists[i].list
    BY <1>3, <2>1, ListOf
  <2>3. replies[i].entries = AllEntries(K[i].l)
    BY <1>4, <1>5 DEF AnswerIs
  <2> QED
    BY <2>2, <2>3 DEF AllEntries
<1> QED
  BY <1>6, <1>7 DEF ExactEntries, Burst!ExactEntries

\* What BurstService sees of the answers.
Shown(r) == [i \in DOMAIN r |-> [words |-> r[i].words, last |-> r[i].last]]

\* One answer more shows one reply more.
LEMMA ShownAppend ==
  ASSUME NEW r, IsSeq(r), NEW v
  PROVE  /\ Shown(Append(r, v)) = Append(Shown(r), [words |-> v.words, last |-> v.last])
         /\ Len(Shown(r)) = Len(r)
<1>1. PICK S : r \in Seq(S)
  BY DEF IsSeq
<1>2. PICK y : y = [words |-> v.words, last |-> v.last]
  OBVIOUS
<1>3. PICK T : T = {[words |-> r[i].words, last |-> r[i].last] : i \in DOMAIN r} \cup {y}
  OBVIOUS
<1>4. PICK n \in Nat : n = Len(r) /\ DOMAIN r = 1..n
  BY <1>1
<1>5. PICK u : u = Shown(r)
  OBVIOUS
<1>6. u = [i \in 1..n |-> [words |-> r[i].words, last |-> r[i].last]]
  BY <1>4, <1>5 DEF Shown
<1>7. \A i \in 1..n : u[i] \in T
  BY <1>3, <1>4, <1>6
<1>8. u \in Seq(T) /\ Len(u) = n
  <2>1. u \in [1..n -> T]
    BY <1>6, <1>7
  <2> QED
    BY <2>1
<1>9. PICK q : q = Append(r, v)
  OBVIOUS
<1>10. DOMAIN q = 1..(n + 1) /\ q[n + 1] = v /\ \A i \in 1..n : q[i] = r[i]
  <2>1. r \in Seq(S \cup {v}) /\ v \in S \cup {v}
    BY <1>1
  <2> QED
    BY <1>4, <1>9, <2>1
<1>11. PICK w : w = Shown(q)
  OBVIOUS
<1>12. w = [i \in 1..(n + 1) |-> [words |-> q[i].words, last |-> q[i].last]]
  BY <1>10, <1>11 DEF Shown
<1>13. y \in T
  BY <1>3
<1>a. PICK z : z = Append(u, y)
  OBVIOUS
<1>14. z \in Seq(T) /\ Len(z) = n + 1 /\ z[n + 1] = y /\ \A i \in 1..n : z[i] = u[i]
  BY <1>8, <1>13, <1>a, AppendAt
<1>15. ASSUME NEW i \in 1..(n + 1) PROVE w[i] = z[i]
  <2>1. CASE i = n + 1
    <3>1. w[i] = y
      BY <1>2, <1>10, <1>12, <2>1
    <3> QED
      BY <1>14, <2>1, <3>1
  <2>2. CASE i \in 1..n
    <3>1. w[i] = u[i]
      BY <1>6, <1>10, <1>12, <2>2
    <3> QED
      BY <1>14, <2>2, <3>1
  <2> QED
    BY <2>1, <2>2
<1>16. w \in Seq(T) /\ Len(w) = n + 1
  <2>1. \A i \in 1..(n + 1) : w[i] \in T
    <3>1. \A i \in 1..(n + 1) : z[i] \in T
      BY <1>14
    <3> QED
      BY <1>15, <3>1
  <2>2. w \in [1..(n + 1) -> T]
    BY <1>12, <2>1
  <2> QED
    BY <2>2
<1>17. w = Append(u, y)
  BY <1>a, <1>14, <1>15, <1>16, SeqEqual
<1> QED
  BY <1>2, <1>4, <1>5, <1>8, <1>9, <1>11, <1>17

\* The service asks with the lists of the rounds and answers with their words.
LEMMA ServiceIs ==
  /\ Burst!Service!vars = <<lists, Shown(replies)>>
  /\ \A l \in Askable, last \in BOOLEAN :
       /\ lists' = Append(lists, [list |-> l, last |-> last])
       /\ Shown(replies') = Shown(replies)
       => Burst!Service!Next
  /\ /\ Len(Shown(replies)) < Len(lists) /\ lists' = lists
     /\ Shown(replies')
          = Append(Shown(replies), Burst!Service!Reply(lists[Len(Shown(replies)) + 1]))
     => Burst!Service!Next
  /\ lists = << >> /\ replies = << >> => Burst!Service!Init
<1>1. Burst!Service!vars = <<lists, Shown(replies)>>
  BY DEF Burst!Service!vars, Shown
<1>2. ASSUME NEW l \in Askable, NEW last \in BOOLEAN,
             lists' = Append(lists, [list |-> l, last |-> last]),
               Shown(replies') = Shown(replies)
      PROVE  Burst!Service!Next
  BY <1>2 DEF Burst!Service!Next, Burst!Service!Ask, Shown, Askable
<1>3. ASSUME Len(Shown(replies)) < Len(lists), lists' = lists,
             Shown(replies')
               = Append(Shown(replies), Burst!Service!Reply(lists[Len(Shown(replies)) + 1]))
      PROVE  Burst!Service!Next
  BY <1>3 DEF Burst!Service!Next, Burst!Service!Answer, Shown
<1>4. ASSUME lists = << >>, replies = << >> PROVE Burst!Service!Init
  <2>1. DOMAIN replies = {}
    BY <1>4
  <2>2. Shown(replies) = << >>
    BY <2>1 DEF Shown
  <2> QED
    BY <1>4, <2>2 DEF Burst!Service!Init, Shown
<1> QED
  BY <1>1, <1>2, <1>3, <1>4

\* vd_scheduler asks for a list of the round.
LEMMA DispatchAsks ==
  ASSUME Burst!BurstAssumption, BurstInv, Burst!Dispatch
  PROVE  Burst!Service!Next
<1>1. PICK b \in Base : \E P, K, c, si, sk, cd, G, bn, cb, NB, U, A, dum, st :
         Good(b, P, K, c, si, sk, cd, G, bn, cb, NB, U, A, dum, st)
  BY DEF BurstInv
<1>2. BurstTypes
  BY <1>1 DEF Good
<1>3. PICK l, last : l = Head(burstTodo) /\ last = LastList
  OBVIOUS
<1>4. burstTodo # << >> /\ lists' = Append(lists, [list |-> l, last |-> last])
      /\ replies' = replies
  BY <1>3 DEF Burst!Dispatch, LastList
<1>5. l \in Askable
  <2>1. Head(burstTodo) = burstTodo[1] /\ Len(burstTodo) \in Nat /\ Len(burstTodo) # 0
    BY <1>2, <1>4, SeqAt DEF BurstTypes
  <2>2. 1 \in 1..Len(burstTodo)
    BY <2>1
  <2> QED
    BY <1>2, <1>3, <2>1, <2>2 DEF BurstTypes
<1>6. last \in BOOLEAN
  BY <1>3 DEF LastList
<1>7. Shown(replies') = Shown(replies)
  BY <1>4
<1> QED
  BY <1>4, <1>5, <1>6, <1>7, ServiceIs

\* update_merge gives the answer that is due.
LEMMA UpdateAnswers ==
  ASSUME Burst!BurstAssumption, BurstInv, NEW empty \in BOOLEAN, Burst!UpdateMerge(empty)
  PROVE  Burst!Service!Next
<1>1. PICK b \in Base : \E P, K, c, si, sk, cd, G, bn, cb, NB, U, A, dum, st :
         Good(b, P, K, c, si, sk, cd, G, bn, cb, NB, U, A, dum, st)
  BY DEF BurstInv
<1>2. PICK P, K, c, si, sk, cd, G, bn, cb, NB, U, A, dum, st :
         Good(b, P, K, c, si, sk, cd, G, bn, cb, NB, U, A, dum, st)
  BY <1>1
<1>3. KeyTable(K, c, b, bn) /\ Replying(U, A, K, b) /\ c \in Seq(Nat)
  BY <1>2 DEF Good, Way
<1>4. PICK v : /\ replies' = Append(replies, v) /\ lists' = lists
               /\ Len(replies) + 1 \in 1..Len(c)
               /\ AnswerIs(v, K[Len(replies) + 1])
  BY <1>2, UpdateMergeKeeps
<1>5. PICK i \in 1..Len(c) : i = Len(replies) + 1
  BY <1>4
<1>6. IsSeq(replies) /\ Len(replies) \in Nat /\ Len(lists) = Len(c)
  <2>1. IsSeq(replies) /\ Len(lists) = Len(c)
    BY <1>3 DEF Replying, KeyTable, KeyTableOf
  <2> QED
    BY <2>1, SeqAt
<1>7. /\ K[i].c = Count(K[i].l) /\ K[i].l = lists[i].list /\ K[i].last = lists[i].last
  BY <1>3, ListOf
<1>8. v.words = [j \in 1..K[i].c |-> Addr(K[i].l, j)] /\ v.last = K[i].last
  BY <1>4, <1>5 DEF AnswerIs
<1>9. PICK l : l = lists[i].list
  OBVIOUS
<1>10. v.words = Burst!Service!WordsOf(l) /\ v.last = lists[i].last
  <2>1. Burst!Service!WordsOf(l) = [j \in 1..Count(l) |-> Addr(l, j)]
    BY ListWords
  <2>2. K[i].l = l /\ K[i].c = Count(l)
    BY <1>7, <1>9
  <2>3. v.words = [j \in 1..Count(l) |-> Addr(l, j)]
    BY <1>8, <2>2
  <2> QED
    BY <1>7, <1>8, <2>1, <2>3
<1>11. [words |-> v.words, last |-> v.last] = Burst!Service!Reply(lists[i])
  BY <1>9, <1>10 DEF Burst!Service!Reply
<1>12. /\ Shown(replies') = Append(Shown(replies), Burst!Service!Reply(lists[i]))
       /\ Len(Shown(replies)) = Len(replies)
  BY <1>4, <1>6, <1>11, ShownAppend
<1>13. Len(Shown(replies)) < Len(lists) /\ i = Len(Shown(replies)) + 1
  <2>1. PICK n, m : n = Len(replies) /\ m = Len(c)
    OBVIOUS
  <2>2. n \in Nat /\ m \in Nat /\ n + 1 <= m
    BY <1>3, <1>4, <1>6, <2>1
  <2>3. n < m
    BY <2>2
  <2> QED
    BY <1>5, <1>6, <1>12, <2>1, <2>3
<1> QED
  BY <1>4, <1>12, <1>13, ServiceIs

\* Every other step of the engine changes nothing the service shows.
LEMMA ServiceStep ==
  ASSUME Burst!BurstAssumption, BurstInv, [Burst!Next]_(Burst!vars)
  PROVE  [Burst!Service!Next]_(Burst!Service!vars)
<1>1. CASE Burst!Dispatch
  BY <1>1, DispatchAsks
<1>2. ASSUME NEW empty \in BOOLEAN, Burst!UpdateMerge(empty)
      PROVE  Burst!Service!Next
  BY <1>2, UpdateAnswers
<1>3. CASE UNCHANGED <<lists, replies>>
  <2>1. <<lists, Shown(replies)>>' = <<lists, Shown(replies)>>
    BY <1>3 DEF Shown
  <2>2. Burst!Service!vars = <<lists, Shown(replies)>>
    BY ServiceIs
  <2>3. Burst!Service!vars' = Burst!Service!vars
    BY <1>3 DEF Burst!Service!vars
  <2> QED
    BY <2>3
<1>4. CASE Burst!Next
  BY <1>1, <1>2, <1>3, <1>4 DEF Burst!Next, Burst!Scheduler, Burst!StopSingle,
     Burst!StopDynamic,
     Burst!Generator, Burst!TakeList, Burst!Cut, Burst!Engine, Burst!TakeCommand,
       Burst!SendWord,
     Burst!Intra, Burst!IntraMerge, Burst!Inter, Burst!InterMerge, Burst!Sample, Burst!Update,
     Burst!StartRound, Burst!Exit, Burst!vars
<1>5. CASE UNCHANGED Burst!vars
  BY <1>3, <1>5 DEF Burst!vars
<1> QED
  BY <1>4, <1>5

\* A behaviour of the run is, for the burst engine, one of the engine or one in which it rests.
BurstSteps == Burst!Init /\ [][Burst!Next]_(Burst!vars)

\* Every behaviour of the run is, for the burst engine, such a behaviour.
LEMMA PartIsBurst == PartSpec => BurstSteps
<1>1. InitOfPart => Burst!Init
  BY DEF InitOfPart
<1>2. [CacheNext \/ BurstNext \/ SampleNext \/ StepNext]_<<part, vars, burstVars, sampleVars,
                                                           stepVars>>
      => [Burst!Next]_(Burst!vars)
  BY DEF CacheNext, BurstNext, SampleNext, StepNext, burstVars, Burst!vars
<1> QED
  BY <1>1, <1>2, PTL DEF PartSpec, BurstSteps

\* The invariant holds in all of them.
LEMMA BurstInvariant ==
  ASSUME Burst!BurstAssumption
  PROVE  BurstSteps => []BurstInv
<1>1. Burst!Init => BurstInv
  BY InitHolds
<1>2. BurstInv /\ [Burst!Next]_(Burst!vars) => BurstInv'
  BY BurstNextKeeps
<1> QED
  BY <1>1, <1>2, PTL DEF BurstSteps

\* RoundsApart: when the host sees a round of the burst engine finished, nothing of it is
\* left anywhere, whatever the lists, the depths and the ids a round finds.
THEOREM BurstRoundsApart ==
  ASSUME Burst!BurstAssumption
  PROVE  PartSpec => [](Burst!TypeOK /\ RoundsApart)
<1>1. BurstInv => Burst!TypeOK /\ RoundsApart
  BY BurstInvType, ApartIs
<1> QED
  BY <1>1, PartIsBurst, BurstInvariant, PTL

\* ExactEntries, for the lists whose long bursts are whole words of the list.
THEOREM BurstExactEntries ==
  ASSUME Burst!BurstAssumption, Exact
  PROVE  PartSpec => []ExactEntries
<1>1. BurstInv => ExactEntries
  BY BurstInvExact
<1> QED
  BY <1>1, PartIsBurst, BurstInvariant, PTL

\* The safety part of ImplementsService.
THEOREM BurstAnswersInOrder ==
  ASSUME Burst!BurstAssumption
  PROVE  PartSpec => Burst!Service!Init /\ [][Burst!Service!Next]_(Burst!Service!vars)
<1>1. Burst!Init => Burst!Service!Init
  <2> SUFFICES ASSUME Burst!Init PROVE Burst!Service!Init
    OBVIOUS
  <2>1. lists = << >> /\ replies = << >>
    BY DEF Burst!Init
  <2> QED
    BY <2>1, ServiceIs
<1>2. BurstInv /\ [Burst!Next]_(Burst!vars) => [Burst!Service!Next]_(Burst!Service!vars)
  BY ServiceStep
<1> QED
  BY <1>1, <1>2, PartIsBurst, BurstInvariant, PTL DEF BurstSteps
=============================================================================
