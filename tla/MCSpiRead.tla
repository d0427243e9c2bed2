----------------------------- MODULE MCSpiRead -----------------------------
(***************************************************************************)
(* SpiRead for TLC: packets of two bytes, sizes of no, one, two and three  *)
(* packets with and without a rest, timeouts of a few rounds.              *)
(***************************************************************************)
EXTENDS SpiRead
=============================================================================
