------------------------------ MODULE Transfer ------------------------------
(***************************************************************************)
(* What a blocking write over SPI promises its caller, whichever side of   *)
(* the bus the chip is: one call at a time; it passes only when the other  *)
(* side has the data; and when it returns, with or without success, the    *)
(* driver reads nothing of the caller any more.                            *)
(***************************************************************************)

VARIABLES
  calling,              \* a write has been called and has not returned
  onway,                \* the driver has a transfer
  got,                  \* the other side has all data of this call
  passed                \* the last write that returned was reported a success

vars == <<calling, onway, got, passed>>

Init == calling = FALSE /\ onway = FALSE /\ got = FALSE /\ passed = FALSE

Call ==
  /\ ~calling /\ calling' = TRUE
  /\ got' = FALSE /\ passed' = FALSE
  /\ UNCHANGED onway

Start ==
  /\ calling /\ ~onway
  /\ onway' = TRUE
  /\ UNCHANGED <<calling, got, passed>>

Finish ==
  /\ calling /\ onway
  /\ onway' = FALSE /\ got' = TRUE
  /\ UNCHANGED <<calling, passed>>

GiveUp ==
  /\ calling /\ onway
  /\ onway' = FALSE
  /\ UNCHANGED <<calling, got, passed>>

Pass ==
  /\ calling /\ ~onway /\ got
  /\ calling' = FALSE /\ passed' = TRUE
  /\ UNCHANGED <<onway, got>>

Fail ==
  /\ calling /\ ~onway
  /\ calling' = FALSE
  /\ UNCHANGED <<onway, got, passed>>

Next == Call \/ Start \/ Finish \/ GiveUp \/ Pass \/ Fail

Spec == Init /\ [][Next]_vars
=============================================================================
