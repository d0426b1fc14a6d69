----------------------------- MODULE MCLaneAccess -----------------------------
EXTENDS LaneAccess, LaneMap

CONSTANTS Lane,      \* the lane, 0..7
          Rows       \* rows of 16 vertices in the graph

\* The vertices of this lane, as the host spreads them over the channels:
\* rp_partition_set[lane * 2 + c] holds the vertices v with v mod 16 = 2 * lane + c.
MCQuery == {v \in 0..(16 * Rows - 1) : rpa_dest(v) = Lane}
MCChn   == [v \in MCQuery |-> rpa_chn(v)]
MCAddr  == [v \in MCQuery |-> rpa_addr(v)]
MCBank  == [c \in {0, 1} |-> [a \in 0..(Rows - 1) |-> 16 * a + 2 * Lane + c]]

\* Every query gets the row pointer of its own vertex.
OwnRow == \A a \in answers : a.word = a.query

\* ChannelIsBit3: a query state waits on the channel that bit 3 of its vertex
\* names ("dc_id  = vertex_id[3:3]" in the comment on the row pointer bus).
ChannelIsBit3 ==
  \A c \in {0, 1} : \A i \in DOMAIN vds[c] : (vds[c][i] \div 8) % 2 = c
=============================================================================
