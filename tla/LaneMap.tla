------------------------------- MODULE LaneMap -------------------------------
(***************************************************************************)
(* How a vertex id, or the channel field of a row pointer, is split into   *)
(* lane, channel of the lane and address within the channel.  16 memory    *)
(* channels, 8 lanes of two channels each.                                 *)
(***************************************************************************)
EXTENDS Integers

\* rpa_input: dest = (v & 0xf) >> 1
rpa_dest(v) == (v % 16) \div 2

\* Variant: dc_id = vertex_id[3:3]
rpa_chn_bit3(v) == (v \div 8) % 2

\* rpa_in: ap_lv_ma_chid, bit 0, picks one of the lane's two engines
rpa_chn(v) == v % 2

\* rpa_in: ap_lv_ma_vid, bits 39..4, is the address in the channel
rpa_addr(v) == v \div 16

\* cla_input and cla_in do the same with the channel field of the row pointer
cla_dest(chn) == chn \div 2
cla_chn(chn)  == chn % 2
=============================================================================
