------------------------------ MODULE SpiSlave ------------------------------
(***************************************************************************)
(* The writes of platform/peripheral/spi_s/spi_slave_protocol.c: the chip  *)
(* is the slave, so it raises a handshake pin and waits for the host to    *)
(* clock the data out.  One context calls the write functions; the driver  *)
(* reports the end of a transfer by calling spi_s_callback_ptl_tx from an  *)
(* interrupt, between any two steps of that context.                       *)
(*                                                                         *)
(* The driver is a library without source: it has at most one transfer,    *)
(* which ends when the host has clocked it out or when it is halted.       *)
(***************************************************************************)
EXTENDS Integers

CONSTANTS
  WRITE_TIMEOUT,        \* the bound of s_cmd_count (3000)
  Usage                 \* what may happen in this instance, see UsageKinds

UsageKinds ==
  { "halt",             \* an interrupt handler calls write_halt
    "halt_fails" }      \* spi_write_halt does not return E_OK

ASSUME TimeoutAssumption == WRITE_TIMEOUT \in Nat
ASSUME UsageAssumption   == Usage \subseteq UsageKinds

\* hx_drv_spi_slv_protocol_write_simple, _cus and _ex
Kinds == {"simple", "cus", "ex"}

VARIABLES
  pc,                   \* where the write function is; "client" outside of it
  kind,                 \* which write function it is
  s_cmd_count,          \* milliseconds waited
  busy,                 \* spis_tx_ptl_busyflag
  pin,                  \* HANDSHAKE_PIN_TX is high
  xfer,                 \* the driver's transfer: of the current or an earlier call
  sent,                 \* history: the host has all data of the current call
  passed,               \* history: the last write that returned returned 0
  disturbed             \* history: a handler halted the current call, or a halt
                        \* failed and its transfer is not over

vars == <<pc, kind, s_cmd_count, busy, pin, xfer, sent, passed, disturbed>>

Init ==
  /\ pc = "client" /\ kind = "ex" /\ s_cmd_count = 0
  /\ busy = FALSE /\ pin = FALSE
  /\ xfer = "none" /\ sent = FALSE /\ passed = FALSE
  /\ disturbed = FALSE

-----------------------------------------------------------------------------
\* The test of the busy flag and its setting: nothing else sets the flag.
write_simple(k) ==
  /\ pc = "client"
  /\ ~busy
  /\ busy' = TRUE
  /\ kind' = k /\ s_cmd_count' = 0 /\ sent' = FALSE /\ passed' = FALSE
  /\ disturbed' = (disturbed /\ xfer # "none")
  /\ pc' = "raise"
  /\ UNCHANGED <<pin, xfer>>

RaisePin ==
  /\ pc = "raise"
  /\ pin' = TRUE
  /\ pc' = "start"
  /\ UNCHANGED <<kind, s_cmd_count, busy, xfer, sent, disturbed, passed>>

\* Mutant: the time is not counted.
WaitUncounted ==
  /\ pc = "wait"
  /\ pc' = IF busy THEN "wait" ELSE "done"
  /\ UNCHANGED <<kind, s_cmd_count, busy, pin, xfer, sent, disturbed, passed>>

\* spi_write_ptl: its result is not looked at.  A driver that still has an
\* earlier transfer refuses the new one or drops the old one for it.
StartTransfer ==
  /\ pc = "start"
  /\ xfer' \in IF xfer = "none" THEN {"current"} ELSE {xfer, "current"}
  /\ pc' = "wait"
  /\ UNCHANGED <<kind, s_cmd_count, busy, pin, sent, disturbed, passed>>

Wait ==
  /\ pc = "wait"
  /\ \/ ~busy /\ pc' = "done" /\ UNCHANGED <<s_cmd_count, pin>>
     \/ /\ busy
        /\ s_cmd_count' = s_cmd_count + 1
        /\ IF s_cmd_count' > WRITE_TIMEOUT THEN pc' = "halt" /\ pin' = FALSE
                                           ELSE UNCHANGED <<pc, pin>>
  /\ UNCHANGED <<kind, busy, xfer, sent, disturbed, passed>>

\* The outcomes of the driver's spi_write_halt.
spi_write_halt(ok) ==
  \/ ok /\ xfer' = "none"
  \/ ~ok /\ "halt_fails" \in Usage /\ UNCHANGED xfer

\* Mutant: the transfer goes on after the timeout.
TimeoutNoHalt ==
  /\ pc = "halt"
  /\ pc' = "clear"
  /\ UNCHANGED <<kind, s_cmd_count, busy, pin, xfer, sent, disturbed, passed>>

TimeoutHalt ==
  /\ pc = "halt"
  /\ \E ok \in BOOLEAN : /\ spi_write_halt(ok)
                         /\ disturbed' = (disturbed \/ ~ok)
  /\ pc' = "clear"
  /\ UNCHANGED <<kind, s_cmd_count, busy, pin, sent, passed>>

\* A transfer of this call that goes on is one of an earlier call from now on.
LeaveTransfer == xfer' = IF xfer = "current" THEN "earlier" ELSE xfer

\* Mutant: the flag stays set.
TimeoutReturnBusy ==
  /\ pc = "clear"
  /\ pc' = "client"
  /\ LeaveTransfer
  /\ UNCHANGED <<kind, s_cmd_count, busy, pin, sent, disturbed, passed>>

TimeoutReturn ==                       \* returns -1
  /\ pc = "clear"
  /\ busy' = FALSE
  /\ pc' = "client"
  /\ LeaveTransfer
  /\ UNCHANGED <<kind, s_cmd_count, pin, sent, disturbed, passed>>

\* Only write_simple_cus leaves the pin to the callback.
Return ==                              \* returns 0
  /\ pc = "done"
  /\ pin' = IF kind = "cus" THEN pin ELSE FALSE
  /\ pc' = "client" /\ passed' = TRUE
  /\ LeaveTransfer
  /\ UNCHANGED <<kind, s_cmd_count, busy, sent, disturbed>>

-----------------------------------------------------------------------------
(* Interrupts                                                              *)

\* Mutant: the callback leaves the pin high.
CallbackPinHigh ==
  /\ xfer # "none"
  /\ xfer' = "none"
  /\ sent' = (sent \/ xfer = "current")
  /\ busy' = FALSE
  /\ UNCHANGED <<pc, kind, s_cmd_count, pin, disturbed, passed>>

\* The host has clocked the transfer out.
spi_s_callback_ptl_tx ==
  /\ xfer # "none"
  /\ xfer' = "none"
  /\ sent' = (sent \/ xfer = "current")
  /\ pin' = FALSE
  /\ busy' = FALSE
  /\ UNCHANGED <<pc, kind, s_cmd_count, disturbed, passed>>

\* hx_drv_spi_slv_protocol_write_halt: as the write functions wait, only an
\* interrupt handler can call it while there is something to halt.
write_halt ==
  /\ pc = "client" \/ "halt" \in Usage
  /\ pin' = FALSE
  /\ \E ok \in BOOLEAN : /\ spi_write_halt(ok)
                         /\ busy' = (busy /\ ~ok)
                         /\ disturbed' = (disturbed \/ pc # "client" \/ ~ok)
  /\ UNCHANGED <<pc, kind, s_cmd_count, sent, passed>>

-----------------------------------------------------------------------------
Writer ==
  \/ RaisePin \/ StartTransfer \/ Wait \/ TimeoutHalt \/ TimeoutReturn \/ Return

Next ==
  \/ \E k \in Kinds : write_simple(k)
  \/ Writer
  \/ spi_s_callback_ptl_tx
  \/ write_halt

Spec == Init /\ [][Next]_vars

\* The processor runs; nothing is assumed of the host.
FairSpec == Spec /\ WF_vars(Writer)

-----------------------------------------------------------------------------
(***************************************************************************)
(* Properties                                                              *)
(***************************************************************************)

TypeOK ==
  /\ pc \in {"client", "raise", "start", "wait", "done", "halt", "clear"}
  /\ kind \in Kinds
  /\ s_cmd_count \in 0 .. WRITE_TIMEOUT + 1
  /\ busy \in BOOLEAN /\ pin \in BOOLEAN
  /\ sent \in BOOLEAN /\ passed \in BOOLEAN
  /\ disturbed \in BOOLEAN
  /\ xfer \in {"none", "current", "earlier"}

\* A write that returns 0 has passed its data to the host, unless a handler
\* halted it or a halt failed before (spi_slave_protocol.h:64: 0 is pass).
SuccessMeansSent == [][ Return /\ ~disturbed => sent ]_vars

\* The same of every write that returns 0 (spi_slave_protocol.h:64: 0 is pass).  With
\* a handler that halts the code does not have it.
PassMeansSent == [][ Return => sent ]_vars

\* What the caller sees of the writes is a blocking transfer: while no halt
\* disturbs them, every step is one of Transfer.
T == INSTANCE Transfer WITH
  calling <- pc # "client", onway <- xfer # "none", got <- sent

ImplementsTransfer == T!Init /\ [][ ~disturbed' => T!Next ]_T!vars

\* When a write has returned, with or without success, the driver does not
\* read its buffer any more: app_main lets the next image overwrite it.
BufferFree == pc = "client" /\ ~disturbed => xfer = "none"

\* Nor does the handshake pin then ask the host to clock.
PinLow == pc = "client" /\ ~disturbed => ~pin

\* Whatever halts come, a write that has returned never leaves the link
\* refusing every further one.
FreeAgain == pc = "client" => ~busy

\* Every write returns, even if the host never clocks.
WriteReturns == pc = "raise" ~> pc = "client"
=============================================================================
