----------------------------- MODULE SpiMaster -----------------------------
(***************************************************************************)
(* platform/peripheral/spi_m/spi_master_protocol.c: the chip is the master *)
(* and clocks its data out itself.  Two contexts use the link: the main    *)
(* loop, and the completion interrupt, whose registered callback may start *)
(* the next write at once.  That write runs to its end inside the          *)
(* interrupt, where neither the main loop nor a second completion can come *)
(* in between.  The driver is a library without source.                    *)
(***************************************************************************)
EXTENDS Integers

CONSTANTS
  TIMEOUT,              \* the bound of s_cmd_count (3000)
  Usage                 \* what may happen in this instance, see UsageKinds

UsageKinds ==
  { "chain",            \* the callback of register_tx_cb starts a write
    "handler",          \* another interrupt handler calls write or write_sp
    "handler_cus",      \* or write_cus
    "halt",             \* an interrupt handler calls write_halt during a call
    "halt_fails" }      \* spi_write_ptl_halt does not return E_OK

ASSUME TimeoutAssumption == TIMEOUT \in Nat
ASSUME UsageAssumption   == Usage \subseteq UsageKinds

Contexts == {"main", "irq"}
\* hx_drv_spi_mst_protocol_write and _write_sp differ in an argument only.
Kinds == {"plain", "cus"}

VARIABLES
  pc,                   \* where each context is; "client" outside the functions
  kind,                 \* the kind of its write
  s_cmd_count,          \* milliseconds it has waited
  tx_busy, rx_busy,     \* spi_m1_tx_ptl_busy_flag, spi_m1_rx_ptl_busy_flag
  hdr,                  \* who filled cus_spim_ptl_hdr_buf last
  xfer,                 \* whose transfer the driver has
  sent,                 \* history: the slave has all data of the context's call
  passed,               \* history: the context's last write returned 0
  disturbed             \* history: a write was halted by a handler, or a halt
                        \* failed and its transfer is not over

vars == <<pc, kind, s_cmd_count, tx_busy, rx_busy, hdr, xfer, sent, passed, disturbed>>

Init ==
  /\ pc = [c \in Contexts |-> "client"] /\ kind = [c \in Contexts |-> "plain"]
  /\ s_cmd_count = [c \in Contexts |-> 0]
  /\ tx_busy = FALSE /\ rx_busy = FALSE
  /\ hdr = "main" /\ xfer = "none"
  /\ sent = [c \in Contexts |-> FALSE] /\ passed = sent
  /\ disturbed = FALSE

\* A context goes from one place in its function to another.
Go(c, from, to) ==
  /\ pc[c] = from /\ pc' = [pc EXCEPT ![c] = to]
  /\ c = "main" => pc["irq"] = "client"

-----------------------------------------------------------------------------
(* The writes                                                              *)

\* write_cus fills the header before it looks at the flag.
Enter(c, k) ==
  /\ kind' = [kind EXCEPT ![c] = k]
  /\ s_cmd_count' = [s_cmd_count EXCEPT ![c] = 0]
  /\ sent' = [sent EXCEPT ![c] = FALSE] /\ passed' = [passed EXCEPT ![c] = FALSE]
  /\ hdr' = IF k = "cus" THEN c ELSE hdr

write(c, k) ==
  /\ c = "main" \/ (IF k = "cus" THEN "handler_cus" ELSE "handler") \in Usage
  /\ Go(c, "client", "test")
  /\ Enter(c, k)
  /\ disturbed' = (disturbed /\ (xfer # "none" \/ c = "irq"))
  /\ UNCHANGED <<tx_busy, rx_busy, xfer>>

\* The write of the registered callback.
chain(k) ==
  /\ Go("irq", "chain", "test")
  /\ Enter("irq", k)
  /\ UNCHANGED <<tx_busy, rx_busy, xfer, disturbed>>

\* Mutant: the flag is not looked at.
RefuseNever(c) ==
  /\ Go(c, "test", "start")
  /\ tx_busy
  /\ UNCHANGED <<kind, s_cmd_count, tx_busy, rx_busy, hdr, xfer, sent, passed, disturbed>>

\* What a handler does between the test and the setting of the flag ends with
\* the flag clear again, so the two are one step.
Refuse(c) ==                           \* returns -1
  /\ Go(c, "test", "client")
  /\ tx_busy
  /\ UNCHANGED <<kind, s_cmd_count, tx_busy, rx_busy, hdr, xfer, sent, passed, disturbed>>

\* Mutant: the flag is tested and not set.
SetBusyForgotten(c) ==
  /\ Go(c, "test", "start")
  /\ ~tx_busy
  /\ UNCHANGED <<kind, s_cmd_count, tx_busy, rx_busy, hdr, xfer, sent, passed, disturbed>>

SetBusy(c) ==
  /\ Go(c, "test", "start")
  /\ ~tx_busy /\ tx_busy' = TRUE
  /\ UNCHANGED <<kind, s_cmd_count, rx_busy, hdr, xfer, sent, passed, disturbed>>

\* spi_write_ptl or spi_write_ptl_cus; a driver that still has a transfer
\* refuses the new one or drops the old one for it.
StartTransfer(c) ==
  /\ Go(c, "start", "wait")
  /\ xfer' \in IF xfer = "none" THEN {c} ELSE {xfer, c}
  /\ UNCHANGED <<kind, s_cmd_count, tx_busy, rx_busy, hdr, sent, passed, disturbed>>

\* Mutant: the time is counted, and not compared.
WaitForever(c) ==
  /\ \/ ~tx_busy /\ Go(c, "wait", "done") /\ UNCHANGED s_cmd_count
     \/ tx_busy /\ Go(c, "wait", "wait")
        /\ s_cmd_count' = [s_cmd_count EXCEPT ![c] = (@ + 1) % (TIMEOUT + 1)]
  /\ UNCHANGED <<kind, tx_busy, rx_busy, hdr, xfer, sent, passed, disturbed>>

Wait(c) ==
  /\ \/ ~tx_busy /\ Go(c, "wait", "done") /\ UNCHANGED s_cmd_count
     \/ /\ tx_busy
        /\ Go(c, "wait", IF s_cmd_count[c] >= TIMEOUT THEN "halt" ELSE "wait")
        /\ s_cmd_count' = [s_cmd_count EXCEPT ![c] = @ + 1]
  /\ UNCHANGED <<kind, tx_busy, rx_busy, hdr, xfer, sent, passed, disturbed>>

\* The outcomes of the driver's spi_write_ptl_halt.
spi_write_ptl_halt(ok) ==
  \/ ok /\ xfer' = "none"
  \/ ~ok /\ "halt_fails" \in Usage /\ UNCHANGED xfer

TimeoutHalt(c) ==
  /\ Go(c, "halt", "clear")
  /\ \E ok \in BOOLEAN : /\ spi_write_ptl_halt(ok)
                         /\ disturbed' = (disturbed \/ ~ok)
  /\ UNCHANGED <<kind, s_cmd_count, tx_busy, rx_busy, hdr, sent, passed>>

\* A transfer that goes on when its call returns belongs to no call.
LeaveTransfer(c) == xfer' = IF xfer = c THEN "earlier" ELSE xfer

\* Mutant: the flag is cleared by the completion interrupt only.
TimeoutReturnBusy(c) ==
  /\ Go(c, "clear", "client")
  /\ LeaveTransfer(c)
  /\ UNCHANGED <<kind, s_cmd_count, tx_busy, rx_busy, hdr, sent, passed, disturbed>>

TimeoutReturn(c) ==                    \* returns -1
  /\ Go(c, "clear", "client")
  /\ tx_busy' = FALSE
  /\ LeaveTransfer(c)
  /\ UNCHANGED <<kind, s_cmd_count, rx_busy, hdr, sent, passed, disturbed>>

Return(c) ==                           \* returns 0
  /\ Go(c, "done", "client")
  /\ passed' = [passed EXCEPT ![c] = TRUE]
  /\ LeaveTransfer(c)
  /\ UNCHANGED <<kind, s_cmd_count, tx_busy, rx_busy, hdr, sent, disturbed>>

-----------------------------------------------------------------------------
(* The read, open and the interrupts                                       *)

read ==
  /\ Go("main", "client", "pin")
  /\ ~rx_busy /\ rx_busy' = TRUE
  /\ s_cmd_count' = [s_cmd_count EXCEPT !["main"] = 0]
  /\ UNCHANGED <<kind, tx_busy, hdr, xfer, sent, passed, disturbed>>

\* The handshake pin of the slave is high, or one more millisecond is over.
\* Nothing is read: the call of the driver is a comment.
WaitPin ==
  /\ \E high \in BOOLEAN :
       IF high THEN Go("main", "pin", "client") /\ UNCHANGED <<rx_busy, s_cmd_count>>
       ELSE /\ s_cmd_count' = [s_cmd_count EXCEPT !["main"] = @ + 1]
            /\ IF s_cmd_count["main"] >= TIMEOUT
               THEN Go("main", "pin", "client") /\ rx_busy' = FALSE
               ELSE Go("main", "pin", "pin") /\ UNCHANGED rx_busy
  /\ UNCHANGED <<kind, tx_busy, hdr, xfer, sent, passed, disturbed>>

\* hx_drv_spi_mst_open and _open_speed: the driver may drop what it had.
open ==
  /\ Go("main", "client", "client")
  /\ tx_busy' = FALSE /\ rx_busy' = FALSE
  /\ xfer' \in {xfer, "none"}
  /\ UNCHANGED <<kind, s_cmd_count, hdr, sent, passed, disturbed>>

\* The transfer is over: the flag is cleared, then the registered callback runs.
spi_m1_callback_ptl_tx ==
  /\ xfer # "none" /\ pc["irq"] = "client"
  /\ xfer' = "none" /\ tx_busy' = FALSE
  /\ sent' = [c \in Contexts |-> sent[c] \/ xfer = c]
  /\ \/ UNCHANGED pc
     \/ "chain" \in Usage /\ pc' = [pc EXCEPT !["irq"] = "chain"]
  /\ UNCHANGED <<kind, s_cmd_count, hdr, passed, rx_busy, disturbed>>

write_halt ==
  /\ \A c \in Contexts : pc[c] = "client" \/ "halt" \in Usage
  /\ \E ok \in BOOLEAN :
       /\ spi_write_ptl_halt(ok)
       /\ tx_busy' = (tx_busy /\ ~ok)
       /\ disturbed' = (disturbed \/ ~ok \/ \E c \in Contexts : pc[c] # "client")
  /\ UNCHANGED <<pc, kind, s_cmd_count, rx_busy, hdr, sent, passed>>

-----------------------------------------------------------------------------
Step(c) ==
  \/ Refuse(c) \/ SetBusy(c) \/ StartTransfer(c) \/ Wait(c)
  \/ TimeoutHalt(c) \/ TimeoutReturn(c) \/ Return(c)
  \/ c = "irq" /\ \E k \in Kinds : chain(k)

Next ==
  \/ \E c \in Contexts : Step(c) \/ \E k \in Kinds : write(c, k)
  \/ read \/ WaitPin \/ open
  \/ spi_m1_callback_ptl_tx \/ write_halt

Spec == Init /\ [][Next]_vars

\* Interrupts do not take the processor for ever, and what runs goes on.
FairSpec ==
  /\ Spec
  /\ \A c \in Contexts : SF_vars(Step(c))
  /\ SF_vars(WaitPin)

-----------------------------------------------------------------------------
(***************************************************************************)
(* Properties                                                              *)
(***************************************************************************)

Places == {"client", "chain", "pin", "test", "start", "wait", "done", "halt", "clear"}

TypeOK ==
  /\ pc \in [Contexts -> Places] /\ pc["irq"] # "pin" /\ pc["main"] # "chain"
  /\ kind \in [Contexts -> Kinds]
  /\ s_cmd_count \in [Contexts -> 0 .. TIMEOUT + 1]
  /\ tx_busy \in BOOLEAN /\ rx_busy \in BOOLEAN
  /\ hdr \in Contexts /\ xfer \in Contexts \union {"none", "earlier"}
  /\ sent \in [Contexts -> BOOLEAN] /\ passed \in [Contexts -> BOOLEAN]
  /\ disturbed \in BOOLEAN

\* What the main loop sees of its writes is a blocking transfer, whatever the
\* completion interrupt starts meanwhile, as long as no halt disturbs them.
T == INSTANCE Transfer WITH
  calling <- pc["main"] \notin {"client", "pin"}, onway <- xfer = "main",
  got <- sent["main"], passed <- passed["main"]

ImplementsTransfer == T!Init /\ [][ ~disturbed' => T!Next ]_T!vars

\* A write that runs inside an interrupt, chained from the completion callback
\* or called by another handler, never returns 0: the completion it waits for is
\* the interrupt it keeps out.
ChainedWriteFails == [][ Return("irq") => disturbed ]_vars

\* Whatever halts and chained writes come, no write leaves the link refusing
\* every further one.
FreeAgain == (\A c \in Contexts : pc[c] \in {"client", "pin"}) => ~tx_busy

\* The header buffer that all write_cus share holds the header of the transfer
\* that the driver reads it for.  The code does not keep this, and no run checks
\* it: under "handler_cus" a write_cus that is refused has already filled the
\* buffer (spi_master_protocol.c:231) of the transfer that is on its way.
HeaderOfTransfer ==
  xfer \in Contexts /\ ~disturbed /\ kind[xfer] = "cus" => hdr = xfer

\* Every call returns, chained ones too, whatever the slave does.
CallReturns == \A c \in Contexts : pc[c] # "client" ~> pc[c] = "client"
=============================================================================
