--------------------------- MODULE MCDynamicBurst ---------------------------
(***************************************************************************)
(* An instance of DynamicBurst with words of two entries and a list that   *)
(* starts inside a word and is long enough for a long burst.               *)
(***************************************************************************)
EXTENDS DynamicBurst

LongInside == <<1, 6>>
MCInside == {<<LongInside, <<2, 1>>, <<1, 2>> >>, <<LongInside, <<4, 0>> >>}
=============================================================================
