------------------------------- MODULE MCUart -------------------------------
(***************************************************************************)
(* Uart for TLC: the highest task and two others that can pass the mutex   *)
(* between them, packets of two bytes, messages of no, one and two packets *)
(* and with a rest, and a timeout of a few rounds.                         *)
(***************************************************************************)
EXTENDS Uart
=============================================================================
