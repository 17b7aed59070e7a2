----------------------------- MODULE MCSorting -----------------------------
(***************************************************************************)
(* Sorting of three entries, with bytes of one bit and a width of four     *)
(* bits: radix_sort needs up to four passes and its weight wraps after the *)
(* last, slpr_sort needs up to three rounds.                               *)
(***************************************************************************)
EXTENDS Sorting
=============================================================================
