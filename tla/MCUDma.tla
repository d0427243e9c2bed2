------------------------------- MODULE MCUDma -------------------------------
(***************************************************************************)
(* UDma for TLC.  Two channels, as in the default configuration, and two   *)
(* handles, as each SPI protocol has: enough for both to be in use at once *)
(* and for a channel to pass from one handle to the other.                 *)
(***************************************************************************)
EXTENDS UDma
=============================================================================
