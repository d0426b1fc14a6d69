-------------------------- MODULE MCButterflySwitch --------------------------
EXTENDS ButterflySwitch, LaneMap

CONSTANTS Vertices,   \* the vertices queries ask for
          Senders,    \* the input lanes that send
          PerFlow     \* queries lane 0 sends to each lane; the others send one

MCVertex == Vertices
MCDest  == [v \in Vertices |-> [l \in 1..K |-> (rpa_dest(v) \div 2^(l - 1)) % 2]]
MCItem  == [dest : [1..K -> {0, 1}], src : [1..K -> {0, 1}], no : 1..PerFlow, vid : Vertices]
LaneNo(w) == w[1] + (IF K > 1 THEN 2 * w[2] ELSE 0)
MCQuota ==
  [s \in [1..K -> {0, 1}] |-> [d \in [1..K -> {0, 1}] |->
     IF LaneNo(s) \notin Senders \/ \A v \in Vertices : MCDest[v] # d THEN 0
     ELSE IF LaneNo(s) = 0 THEN PerFlow ELSE 1]]
=============================================================================
