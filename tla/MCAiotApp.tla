----------------------------- MODULE MCAiotApp -----------------------------
(***************************************************************************)
(* AiotApp for TLC: every kind of command, a timeout of a few rounds, and  *)
(* halts that may fail.                                                    *)
(***************************************************************************)
EXTENDS AiotApp
=============================================================================
