---------------------------- MODULE MCSpiMaster ----------------------------
(***************************************************************************)
(* SpiMaster for TLC.  The timeout of 3000 rounds is scaled to a few: the  *)
(* completion can come in any of them, after the last one, and not at all. *)
(***************************************************************************)
EXTENDS SpiMaster
=============================================================================
