----------------------------- MODULE MCSpiSlave -----------------------------
(***************************************************************************)
(* SpiSlave for TLC.  The timeout of 3000 rounds is scaled to a few: what  *)
(* matters is that the callback can come in any of them, after the last    *)
(* one, and not at all.                                                    *)
(***************************************************************************)
EXTENDS SpiSlave
=============================================================================
