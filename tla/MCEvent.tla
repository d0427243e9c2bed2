------------------------------ MODULE MCEvent ------------------------------
(***************************************************************************)
(* Event for TLC.  Three slots of which, without "create_all", two can be  *)
(* created: enough for one event to overtake, displace or wait for another *)
(* and for the interrupt buffer to fill up with duplicates.                *)
(***************************************************************************)
EXTENDS Event

TwoPrios == {1, 255}
=============================================================================
