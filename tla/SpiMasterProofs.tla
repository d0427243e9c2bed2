-------------------------- MODULE SpiMasterProofs --------------------------
(***************************************************************************)
(* What is proved of SpiMaster for every timeout and every Usage, so with  *)
(* writes nested inside the completion callback and other handlers.  The   *)
(* invariant says whose transfer the driver can have at each place of the  *)
(* two contexts, and that the interrupt owns the busy flag while its own   *)
(* write is on, which then never succeeds.                                 *)
(***************************************************************************)
EXTENDS SpiMaster, TLAPS

\* What going from one place to another does to both contexts.
LEMMA GoStep ==
  ASSUME TypeOK, NEW c \in Contexts, NEW from, NEW to \in Places, Go(c, from, to)
  PROVE  /\ pc[c] = from /\ pc'[c] = to
         /\ \A d \in Contexts : d # c => pc'[d] = pc[d]
         /\ pc' \in [Contexts -> Places]
         /\ c = "main" => pc["irq"] = "client"
  BY DEF TypeOK, Go

-----------------------------------------------------------------------------
(* Types                                                                   *)

Counted == \A c \in Contexts :
  pc[c] \in {"pin", "test", "start", "wait"} => s_cmd_count[c] <= TIMEOUT

TypeInv == TypeOK /\ Counted

LEMMA Counts ==
  /\ 0 \in 0 .. TIMEOUT + 1 /\ 0 <= TIMEOUT
  /\ \A n \in 0 .. TIMEOUT + 1 : n <= TIMEOUT => n + 1 \in 0 .. TIMEOUT + 1
  /\ \A n \in 0 .. TIMEOUT + 1 : ~(n >= TIMEOUT) => n + 1 <= TIMEOUT
  BY TimeoutAssumption DEF TimeoutAssumption

\* One round of a wait: the counter stays in its range, and passes the timeout
\* only when the wait is over.
LEMMA CountStep ==
  ASSUME TypeOK, NEW c \in Contexts, s_cmd_count[c] <= TIMEOUT,
         s_cmd_count' = [s_cmd_count EXCEPT ![c] = @ + 1]
  PROVE  /\ s_cmd_count' \in [Contexts -> 0 .. TIMEOUT + 1]
         /\ \A d \in Contexts : d # c => s_cmd_count'[d] = s_cmd_count[d]
         /\ ~(s_cmd_count[c] >= TIMEOUT) => s_cmd_count'[c] <= TIMEOUT
<1>1. s_cmd_count \in [Contexts -> 0 .. TIMEOUT + 1]
  BY DEF TypeOK
<1>2. s_cmd_count'[c] = s_cmd_count[c] + 1
  BY <1>1
<1> QED
  BY <1>1, <1>2, Counts

\* What entering a write sets, and what it leaves to its caller.
LEMMA EnterStep ==
  ASSUME TypeOK, NEW c \in Contexts, NEW k \in Kinds, Enter(c, k)
  PROVE  /\ kind' \in [Contexts -> Kinds] /\ hdr' \in Contexts
         /\ s_cmd_count' \in [Contexts -> 0 .. TIMEOUT + 1] /\ s_cmd_count'[c] = 0
         /\ \A d \in Contexts : d # c => s_cmd_count'[d] = s_cmd_count[d]
         /\ sent' = [sent EXCEPT ![c] = FALSE] /\ sent' \in [Contexts -> BOOLEAN]
         /\ passed' = [passed EXCEPT ![c] = FALSE] /\ passed' \in [Contexts -> BOOLEAN]
  BY Counts DEF Enter, TypeOK

\* The flags that a halt by a handler leaves are Boolean.
LEMMA HaltFlags ==
  ASSUME TypeOK, write_halt
  PROVE  /\ tx_busy' \in BOOLEAN /\ disturbed' \in BOOLEAN
         /\ (tx_busy' => tx_busy) /\ (disturbed => disturbed')
         /\ xfer' \in {xfer, "none"}
         /\ ~disturbed' => /\ ~tx_busy' /\ xfer' = "none"
                           /\ \A c \in Contexts : pc[c] = "client"
<1>1. PICK ok \in BOOLEAN :
         /\ spi_write_ptl_halt(ok)
         /\ tx_busy' = (tx_busy /\ ~ok)
         /\ disturbed' = (disturbed \/ ~ok \/ \E c \in Contexts : pc[c] # "client")
  BY Zenon DEF write_halt
<1>2. tx_busy' \in BOOLEAN /\ disturbed' \in BOOLEAN
  BY <1>1, Zenon
<1>3. (tx_busy' => tx_busy) /\ (disturbed => disturbed')
  BY <1>1, Zenon
<1>4. xfer' \in {xfer, "none"}
  BY <1>1 DEF spi_write_ptl_halt
<1>5. ~disturbed' => ok /\ \A c \in Contexts : pc[c] = "client"
  BY <1>1, Zenon
<1>6. ok => ~tx_busy' /\ xfer' = "none"
  BY <1>1, Zenon DEF spi_write_ptl_halt
<1> QED
  BY <1>2, <1>3, <1>4, <1>5, <1>6

\* The same of the halt after a timeout.
LEMMA TimeoutFlags ==
  ASSUME TypeOK, NEW c \in Contexts, TimeoutHalt(c)
  PROVE  /\ disturbed' \in BOOLEAN /\ (disturbed => disturbed')
         /\ xfer' \in {xfer, "none"}
         /\ ~disturbed' => xfer' = "none"
<1>1. PICK ok \in BOOLEAN : spi_write_ptl_halt(ok) /\ disturbed' = (disturbed \/ ~ok)
  BY Zenon DEF TimeoutHalt
<1>2. disturbed' \in BOOLEAN /\ (disturbed => disturbed') /\ (~disturbed' => ok)
  BY <1>1, Zenon
<1>3. xfer' \in {xfer, "none"} /\ (ok => xfer' = "none")
  BY <1>1 DEF spi_write_ptl_halt
<1> QED
  BY <1>2, <1>3

\* A new write is undisturbed if the one before was or nothing of it is left.
LEMMA WriteFlag ==
  ASSUME TypeOK, NEW c \in Contexts, NEW k \in Kinds, write(c, k)
  PROVE  disturbed' \in BOOLEAN
         /\ (~disturbed' => ~disturbed \/ (c = "main" /\ xfer = "none"))
<1>1. disturbed' = (disturbed /\ (xfer # "none" \/ c = "irq"))
  BY DEF write
<1>2. disturbed' \in BOOLEAN
  BY <1>1, Zenon
<1>3. ~disturbed' => ~disturbed \/ ~(xfer # "none" \/ c = "irq")
  BY <1>1, Zenon
<1>4. CASE disturbed' \/ ~disturbed
  BY <1>2, <1>4, Zenon
<1>5. CASE ~disturbed' /\ disturbed
  <2>1. ~(xfer # "none" \/ c = "irq")
    BY <1>3, <1>5, Zenon
  <2>2. c = "main" /\ xfer = "none"
    BY <2>1 DEF Contexts
  <2> QED
    BY <1>2, <2>2, Zenon
<1> QED
  BY <1>4, <1>5, Zenon

\* Every variable keeps its type; both contexts count one past the timeout at
\* most (the waits of spi_master_protocol.c:209, 251, 287 and 333).
THEOREM TypeCorrect == Spec => []TypeOK
<1>1. Init => TypeInv
  <2> SUFFICES ASSUME Init PROVE TypeOK /\ Counted
    BY DEF TypeInv
  <2> USE DEF Init
  <2>1. /\ pc \in [Contexts -> Places] /\ kind \in [Contexts -> Kinds]
        /\ pc["irq"] # "pin" /\ pc["main"] # "chain"
    BY DEF Contexts, Kinds, Places
  <2>2. s_cmd_count \in [Contexts -> 0 .. TIMEOUT + 1] /\ Counted
    BY Counts DEF Counted
  <2>3. sent \in [Contexts -> BOOLEAN] /\ passed \in [Contexts -> BOOLEAN]
    OBVIOUS
  <2> QED
    BY <2>1, <2>2, <2>3 DEF TypeOK, Contexts
<1>2. TypeInv /\ [Next]_vars => TypeInv'
  <2> SUFFICES ASSUME TypeOK, Counted, [Next]_vars PROVE TypeInv'
    BY DEF TypeInv
  <2> USE DEF TypeInv, TypeOK, Counted, Contexts, Places
  <2>1. ASSUME NEW c \in Contexts, NEW k \in Kinds, write(c, k) PROVE TypeInv'
    BY <2>1, EnterStep, GoStep, WriteFlag, Counts DEF write
  <2>2. ASSUME NEW c \in Contexts, Refuse(c) PROVE TypeInv'
    BY <2>2, GoStep DEF Refuse
  <2>3. ASSUME NEW c \in Contexts, SetBusy(c) PROVE TypeInv'
    BY <2>3, GoStep DEF SetBusy
  <2>4. ASSUME NEW c \in Contexts, StartTransfer(c) PROVE TypeInv'
    BY <2>4, GoStep DEF StartTransfer
  <2>5. ASSUME NEW c \in Contexts, Wait(c) PROVE TypeInv'
    <3>0. s_cmd_count[c] <= TIMEOUT
      BY <2>5, GoStep DEF Wait
    <3>4. UNCHANGED <<kind, tx_busy, rx_busy, hdr, xfer, sent, passed, disturbed>>
      BY <2>5 DEF Wait
    <3>1. CASE ~tx_busy
      BY <2>5, <3>1, GoStep DEF Wait
    <3>2. CASE tx_busy /\ s_cmd_count[c] >= TIMEOUT
      <4>1. Go(c, "wait", "halt") /\ s_cmd_count' = [s_cmd_count EXCEPT ![c] = @ + 1]
        BY <2>5, <3>2 DEF Wait
      <4>2. /\ pc'[c] = "halt" /\ \A d \in Contexts : d # c => pc'[d] = pc[d]
            /\ pc' \in [Contexts -> Places]
        BY <4>1, GoStep
      <4>3. /\ s_cmd_count' \in [Contexts -> 0 .. TIMEOUT + 1]
            /\ \A d \in Contexts : d # c => s_cmd_count'[d] = s_cmd_count[d]
            /\ ~(s_cmd_count[c] >= TIMEOUT) => s_cmd_count'[c] <= TIMEOUT
        BY <3>0, <4>1, CountStep
      <4> QED
        BY <3>0, <3>4, <4>2, <4>3
    <3>3. CASE tx_busy /\ ~(s_cmd_count[c] >= TIMEOUT)
      <4>1. Go(c, "wait", "wait") /\ s_cmd_count' = [s_cmd_count EXCEPT ![c] = @ + 1]
        BY <2>5, <3>3 DEF Wait
      <4>2. /\ pc'[c] = "wait" /\ \A d \in Contexts : d # c => pc'[d] = pc[d]
            /\ pc' \in [Contexts -> Places]
        BY <4>1, GoStep
      <4>3. /\ s_cmd_count' \in [Contexts -> 0 .. TIMEOUT + 1]
            /\ \A d \in Contexts : d # c => s_cmd_count'[d] = s_cmd_count[d]
            /\ ~(s_cmd_count[c] >= TIMEOUT) => s_cmd_count'[c] <= TIMEOUT
        BY <3>0, <4>1, CountStep
      <4> QED
        BY <3>0, <3>3, <3>4, <4>2, <4>3
    <3> QED
      BY <3>1, <3>2, <3>3
  <2>6. ASSUME NEW c \in Contexts, TimeoutHalt(c) PROVE TypeInv'
    BY <2>6, GoStep, TimeoutFlags DEF TimeoutHalt
  <2>7. ASSUME NEW c \in Contexts, TimeoutReturn(c) PROVE TypeInv'
    BY <2>7, GoStep DEF TimeoutReturn, LeaveTransfer
  <2>8. ASSUME NEW c \in Contexts, Return(c) PROVE TypeInv'
    BY <2>8, GoStep DEF Return, LeaveTransfer
  <2>9. ASSUME NEW k \in Kinds, chain(k) PROVE TypeInv'
    BY <2>9, EnterStep, GoStep, Counts DEF chain
  <2>10. CASE read
    BY <2>10, GoStep, Counts DEF read
  <2>11. CASE WaitPin
    <3>1. CASE Go("main", "pin", "client") /\ UNCHANGED <<rx_busy, s_cmd_count>>
      BY <2>11, <3>1, GoStep DEF WaitPin
    <3>2. CASE /\ s_cmd_count' = [s_cmd_count EXCEPT !["main"] = @ + 1]
               /\ s_cmd_count["main"] >= TIMEOUT
               /\ Go("main", "pin", "client") /\ rx_busy' = FALSE
      BY <2>11, <3>2, GoStep, CountStep DEF WaitPin
    <3>3. CASE /\ s_cmd_count' = [s_cmd_count EXCEPT !["main"] = @ + 1]
               /\ ~(s_cmd_count["main"] >= TIMEOUT)
               /\ Go("main", "pin", "pin") /\ UNCHANGED rx_busy
      BY <2>11, <3>3, GoStep, CountStep DEF WaitPin
    <3> QED
      BY <2>11, <3>1, <3>2, <3>3 DEF WaitPin
  <2>12. CASE open
    BY <2>12, GoStep DEF open
  <2>13. CASE spi_m1_callback_ptl_tx
    BY <2>13 DEF spi_m1_callback_ptl_tx
  <2>14. CASE write_halt
    BY <2>14, HaltFlags DEF write_halt
  <2>15. CASE UNCHANGED vars
    BY <2>15 DEF vars
  <2> QED
    BY <2>1, <2>2, <2>3, <2>4, <2>5, <2>6, <2>7, <2>8, <2>9, <2>10, <2>11, <2>12,
       <2>13, <2>14, <2>15 DEF Next, Step
<1>3. TypeInv => TypeOK
  BY DEF TypeInv
<1> QED
  BY <1>1, <1>2, <1>3, PTL DEF Spec

-----------------------------------------------------------------------------
(* The busy flag                                                           *)

\* The flag is set only while a context is between setting it and clearing it.
Flagged == tx_busy =>
  \E c \in Contexts : pc[c] \in {"start", "wait", "halt", "clear"}

\* Every step of either context keeps that, disturbed or not.
LEMMA FlagHolds == Spec => []Flagged
<1>1. Init => Flagged
  BY DEF Init, Flagged
<1>2. TypeOK /\ Flagged /\ [Next]_vars => Flagged'
  <2> SUFFICES ASSUME TypeOK, Flagged, [Next]_vars PROVE Flagged'
    OBVIOUS
  <2> USE DEF Flagged, Places
  <2>1. ASSUME NEW c \in Contexts, NEW k \in Kinds, write(c, k) PROVE Flagged'
    BY <2>1, GoStep DEF write
  <2>2. ASSUME NEW c \in Contexts, Refuse(c) PROVE Flagged'
    BY <2>2, GoStep DEF Refuse
  <2>3. ASSUME NEW c \in Contexts, SetBusy(c) PROVE Flagged'
    BY <2>3, GoStep DEF SetBusy
  <2>4. ASSUME NEW c \in Contexts, StartTransfer(c) PROVE Flagged'
    BY <2>4, GoStep DEF StartTransfer
  <2>5. ASSUME NEW c \in Contexts, Wait(c) PROVE Flagged'
    <3>0. UNCHANGED tx_busy
      BY <2>5 DEF Wait
    <3>1. CASE ~tx_busy
      BY <3>0, <3>1
    <3>2. CASE tx_busy
      <4>1. PICK to \in {"halt", "wait"} : Go(c, "wait", to)
        BY <2>5, <3>2 DEF Wait
      <4> QED
        BY <4>1, GoStep
    <3> QED
      BY <3>1, <3>2
  <2>6. ASSUME NEW c \in Contexts, TimeoutHalt(c) PROVE Flagged'
    BY <2>6, GoStep DEF TimeoutHalt
  <2>7. ASSUME NEW c \in Contexts, TimeoutReturn(c) PROVE Flagged'
    BY <2>7 DEF TimeoutReturn
  <2>8. ASSUME NEW c \in Contexts, Return(c) PROVE Flagged'
    BY <2>8, GoStep DEF Return
  <2>9. ASSUME NEW k \in Kinds, chain(k) PROVE Flagged'
    BY <2>9, GoStep DEF chain, Contexts
  <2>10. CASE read
    BY <2>10, GoStep DEF read, Contexts
  <2>11. CASE WaitPin
    <3>1. PICK to \in {"client", "pin"} : Go("main", "pin", to)
      BY <2>11 DEF WaitPin
    <3> QED
      BY <2>11, <3>1, GoStep DEF WaitPin, Contexts
  <2>12. CASE open
    BY <2>12 DEF open
  <2>13. CASE spi_m1_callback_ptl_tx
    BY <2>13 DEF spi_m1_callback_ptl_tx
  <2>14. CASE write_halt
    BY <2>14, HaltFlags DEF write_halt
  <2>15. CASE UNCHANGED vars
    BY <2>15 DEF vars
  <2> QED
    BY <2>1, <2>2, <2>3, <2>4, <2>5, <2>6, <2>7, <2>8, <2>9, <2>10, <2>11, <2>12,
       <2>13, <2>14, <2>15 DEF Next, Step
<1> QED
  BY <1>1, <1>2, TypeCorrect, PTL DEF Spec

\* Whatever halts, nested writes and reopenings come, no write leaves the link
\* refusing every further one (spi_master_protocol.c:217, 259 and 295).
THEOREM AlwaysFreeAgain == Spec => []FreeAgain
<1>1. Flagged => FreeAgain
  BY DEF Flagged, FreeAgain
<1> QED
  BY <1>1, FlagHolds, PTL

-----------------------------------------------------------------------------
(* While no halt disturbs a call                                           *)

\* The interrupt's own write has set the flag.
IrqOwns == pc["irq"] \in {"start", "wait", "halt", "clear"}

\* The driver has a transfer only for a context that waits for it or halts it.
Transfers ==
  /\ ~tx_busy => xfer = "none"
  /\ xfer # "earlier"
  /\ xfer = "main" => pc["main"] \in {"wait", "halt"} /\ ~IrqOwns
  /\ xfer = "irq" => pc["irq"] \in {"wait", "halt"}

MainLoop ==
  /\ pc["main"] \in {"client", "pin", "test", "done"} /\ tx_busy => IrqOwns
  /\ pc["main"] = "start" => tx_busy /\ xfer = "none" /\ ~IrqOwns
  /\ pc["main"] = "wait" => sent["main"] \/ xfer = "main"
  /\ pc["main"] = "done" => sent["main"]

Interrupt ==
  /\ IrqOwns => tx_busy
  /\ pc["irq"] # "done"
  /\ pc["irq"] \in {"start", "clear"} => xfer = "none"
  /\ pc["main"] = "wait" /\ IrqOwns => sent["main"]

Undisturbed == Transfers /\ MainLoop /\ Interrupt

Inv == ~disturbed => Undisturbed

\* Undisturbed calls of both contexts keep the flag, the driver's transfer and
\* what the slave has in step: the inductive invariant.
THEOREM InvHolds == Spec => []Inv
<1>1. Init => Inv
  BY DEF Init, Inv, Undisturbed, Transfers, MainLoop, Interrupt, IrqOwns, Contexts
<1>2. TypeOK /\ Flagged /\ Inv /\ [Next]_vars => Inv'
  <2> SUFFICES ASSUME TypeOK, Flagged, Inv, [Next]_vars, ~disturbed' PROVE Undisturbed'
    BY DEF Inv
  <2> USE DEF Inv, Undisturbed, Transfers, MainLoop, Interrupt, IrqOwns, Contexts, Places
  <2>1. ASSUME NEW c \in Contexts, NEW k \in Kinds, write(c, k) PROVE Undisturbed'
    <3>0. /\ UNCHANGED <<tx_busy, xfer>> /\ Go(c, "client", "test")
          /\ sent' = [sent EXCEPT ![c] = FALSE]
      BY <2>1, EnterStep DEF write
    <3>1. CASE c = "main"
      <4>1. pc["main"] = "client" /\ pc["irq"] = "client" /\ pc'["irq"] = "client"
            /\ pc'["main"] = "test"
        BY <3>0, <3>1, GoStep
      <4>2. ~tx_busy
        BY <4>1 DEF Flagged
      <4>3. xfer = "none"
        BY <2>1, <4>2, WriteFlag
      <4> QED
        BY <3>0, <4>1, <4>2, <4>3
    <3>2. CASE c = "irq"
      <4>1. pc'["irq"] = "test" /\ pc["irq"] = "client" /\ pc'["main"] = pc["main"]
        BY <3>0, <3>2, GoStep
      <4>2. sent'["main"] = sent["main"] /\ ~disturbed
        BY <2>1, <3>0, <3>2, WriteFlag DEF TypeOK
      <4> QED
        BY <3>0, <4>1, <4>2
    <3> QED
      BY <3>1, <3>2
  <2>2. ASSUME NEW c \in Contexts, Refuse(c) PROVE Undisturbed'
    BY <2>2, GoStep DEF Refuse
  <2>3. ASSUME NEW c \in Contexts, SetBusy(c) PROVE Undisturbed'
    BY <2>3, GoStep DEF SetBusy
  <2>4. ASSUME NEW c \in Contexts, StartTransfer(c) PROVE Undisturbed'
    BY <2>4, GoStep DEF StartTransfer
  <2>5. ASSUME NEW c \in Contexts, Wait(c) PROVE Undisturbed'
    <3>0. UNCHANGED <<tx_busy, xfer, sent, disturbed>>
      BY <2>5 DEF Wait
    <3>1. PICK to \in {"done", "halt", "wait"} :
             Go(c, "wait", to) /\ (to = "done" <=> ~tx_busy)
      BY <2>5 DEF Wait, TypeOK
    <3> QED
      BY <3>0, <3>1, GoStep
  <2>6. ASSUME NEW c \in Contexts, TimeoutHalt(c) PROVE Undisturbed'
    BY <2>6, GoStep, TimeoutFlags DEF TimeoutHalt
  <2>7. ASSUME NEW c \in Contexts, TimeoutReturn(c) PROVE Undisturbed'
    <3>0. /\ Go(c, "clear", "client") /\ tx_busy' = FALSE
          /\ UNCHANGED <<sent, disturbed>>
          /\ xfer = "none" => xfer' = "none"
      BY <2>7 DEF TimeoutReturn, LeaveTransfer
    <3>1. xfer = "none"
      BY <3>0, GoStep DEF TypeOK
    <3> QED
      BY <3>0, <3>1, GoStep
  <2>8. ASSUME NEW c \in Contexts, Return(c) PROVE Undisturbed'
    BY <2>8, GoStep DEF Return, LeaveTransfer
  <2>9. ASSUME NEW k \in Kinds, chain(k) PROVE Undisturbed'
    BY <2>9, EnterStep, GoStep DEF chain
  <2>10. CASE read
    BY <2>10, GoStep DEF read
  <2>11. CASE WaitPin
    <3>1. PICK to \in {"client", "pin"} : Go("main", "pin", to)
      BY <2>11 DEF WaitPin
    <3> QED
      BY <2>11, <3>1, GoStep DEF WaitPin
  <2>12. CASE open
    BY <2>12, GoStep DEF open
  <2>13. CASE spi_m1_callback_ptl_tx
    BY <2>13 DEF spi_m1_callback_ptl_tx, TypeOK
  <2>14. CASE write_halt
    BY <2>14, HaltFlags DEF write_halt
  <2>15. CASE UNCHANGED vars
    BY <2>15 DEF vars
  <2> QED
    BY <2>1, <2>2, <2>3, <2>4, <2>5, <2>6, <2>7, <2>8, <2>9, <2>10, <2>11, <2>12,
       <2>13, <2>14, <2>15 DEF Next, Step
<1>3. Spec => []TypeOK
  BY TypeCorrect
<1> QED
  BY <1>1, <1>2, <1>3, FlagHolds, PTL DEF Spec

\* A write chained from the completion callback waits for the interrupt it runs
\* in, so it never returns 0 unless a halt disturbs it
\* (spi_master_protocol.c:81).
THEOREM NestedWritesFail == Spec => ChainedWriteFails
<1>1. TypeOK /\ Inv /\ [Next]_vars => [Return("irq") => disturbed]_vars
  <2> SUFFICES ASSUME TypeOK, Inv, Return("irq") PROVE disturbed
    BY Zenon
  <2>1. pc["irq"] = "done"
    BY DEF Return, Go
  <2> QED
    BY <2>1 DEF Inv, Undisturbed, Interrupt
<1> QED
  BY <1>1, TypeCorrect, InvHolds, PTL DEF Spec, ChainedWriteFails

\* What the main loop sees of its undisturbed writes is a blocking transfer,
\* whatever the interrupt writes meanwhile: each step of the master is a step
\* of Transfer or changes nothing that Transfer knows (the write functions,
\* spi_master_protocol.c:190-301).
THEOREM MasterIsTransfer == Spec => ImplementsTransfer
<1> USE DEF T!vars
<1>1. Init => T!Init
  BY DEF Init, T!Init, Contexts
<1>2. TypeOK /\ Flagged /\ Inv /\ [Next]_vars => [ ~disturbed' => T!Next ]_(T!vars)
  <2> SUFFICES ASSUME TypeOK, Flagged, Inv, [Next]_vars, ~disturbed', T!vars' # T!vars
               PROVE  T!Next
    BY Zenon
  <2> USE DEF T!Next, Undisturbed, Transfers, MainLoop, Interrupt, IrqOwns, Contexts, Places
  <2>t. ~disturbed => Undisturbed
    BY DEF Inv
  <2>1. ASSUME NEW c \in Contexts, NEW k \in Kinds, write(c, k) PROVE T!Next
    <3>0. /\ xfer' = xfer /\ Go(c, "client", "test")
          /\ sent' = [sent EXCEPT ![c] = FALSE]
          /\ passed' = [passed EXCEPT ![c] = FALSE]
      BY <2>1, EnterStep DEF write
    <3>1. CASE c = "main"
      BY <3>0, <3>1, GoStep DEF T!Call, TypeOK
    <3>2. CASE c = "irq"
      <4>1. pc'["main"] = pc["main"] /\ sent'["main"] = sent["main"]
            /\ passed'["main"] = passed["main"]
        BY <3>0, <3>2, GoStep DEF TypeOK
      <4> QED
        BY <3>0, <4>1
    <3> QED
      BY <3>1, <3>2
  <2>2. ASSUME NEW c \in Contexts, Refuse(c) PROVE T!Next
    BY <2>t, <2>2, GoStep DEF Refuse, T!Fail
  <2>3. ASSUME NEW c \in Contexts, SetBusy(c) PROVE T!Next
    BY <2>3, GoStep DEF SetBusy
  <2>4. ASSUME NEW c \in Contexts, StartTransfer(c) PROVE T!Next
    <3>0. Go(c, "start", "wait") /\ UNCHANGED <<sent, passed, disturbed>>
      BY <2>4 DEF StartTransfer
    <3>1. xfer = "none" /\ xfer' = c
      BY <2>t, <2>4, <3>0, GoStep DEF StartTransfer
    <3> QED
      BY <3>0, <3>1, GoStep DEF T!Start
  <2>5. ASSUME NEW c \in Contexts, Wait(c) PROVE T!Next
    <3>0. UNCHANGED <<tx_busy, xfer, sent, passed>>
      BY <2>5 DEF Wait
    <3>1. PICK to \in {"done", "halt", "wait"} : Go(c, "wait", to)
      BY <2>5 DEF Wait
    <3> QED
      BY <3>0, <3>1, GoStep
  <2>6. ASSUME NEW c \in Contexts, TimeoutHalt(c) PROVE T!Next
    <3>1. xfer' = "none" /\ ~disturbed
      BY <2>6, TimeoutFlags
    <3> QED
      BY <2>t, <2>6, <3>1, GoStep DEF TimeoutHalt, T!GiveUp
  <2>7. ASSUME NEW c \in Contexts, TimeoutReturn(c) PROVE T!Next
    <3>0. /\ Go(c, "clear", "client") /\ UNCHANGED <<sent, passed, disturbed>>
          /\ xfer = "none" => xfer' = "none"
      BY <2>7 DEF TimeoutReturn, LeaveTransfer
    <3>1. xfer = "none"
      BY <2>t, <3>0, GoStep DEF TypeOK
    <3> QED
      BY <3>0, <3>1, GoStep DEF T!Fail
  <2>8. ASSUME NEW c \in Contexts, Return(c) PROVE T!Next
    <3>0. /\ Go(c, "done", "client") /\ UNCHANGED <<sent, disturbed>>
          /\ passed' = [passed EXCEPT ![c] = TRUE]
          /\ xfer # "main" /\ xfer' # "main"
      BY <2>t, <2>8, GoStep DEF Return, LeaveTransfer
    <3>1. c = "main"
      BY <2>t, <3>0, GoStep
    <3> QED
      BY <2>t, <3>0, <3>1, GoStep DEF T!Pass, TypeOK
  <2>9. ASSUME NEW k \in Kinds, chain(k) PROVE T!Next
    <3>0. /\ xfer' = xfer /\ Go("irq", "chain", "test")
          /\ sent' = [sent EXCEPT !["irq"] = FALSE]
          /\ passed' = [passed EXCEPT !["irq"] = FALSE]
      BY <2>9, EnterStep DEF chain
    <3> QED
      BY <3>0, GoStep DEF TypeOK
  <2>10. CASE read
    BY <2>10, GoStep DEF read
  <2>11. CASE WaitPin
    <3>1. PICK to \in {"client", "pin"} : Go("main", "pin", to)
      BY <2>11 DEF WaitPin
    <3> QED
      BY <2>11, <3>1, GoStep DEF WaitPin
  <2>12. CASE open
    BY <2>t, <2>12, GoStep DEF open
  <2>13. CASE spi_m1_callback_ptl_tx
    <3>1. /\ xfer' = "none" /\ pc'["main"] = pc["main"] /\ ~disturbed
          /\ passed' = passed /\ sent'["main"] = (sent["main"] \/ xfer = "main")
      BY <2>13 DEF spi_m1_callback_ptl_tx, TypeOK
    <3>2. CASE xfer = "main"
      <4>1. sent'["main"] = TRUE
        BY <3>1, <3>2
      <4> QED
        BY <2>t, <3>1, <3>2, <4>1 DEF T!Finish
    <3>3. CASE xfer # "main"
      <4>1. sent'["main"] = sent["main"]
        BY <3>1, <3>3 DEF TypeOK
      <4> QED
        BY <3>1, <3>3, <4>1
    <3> QED
      BY <3>2, <3>3
  <2>14. CASE write_halt
    <3>1. /\ \A c \in Contexts : pc[c] = "client"
          /\ xfer' = "none" /\ ~disturbed
      BY <2>14, HaltFlags
    <3> QED
      BY <2>t, <2>14, <3>1 DEF write_halt
  <2>15. CASE UNCHANGED vars
    BY <2>15 DEF vars
  <2> QED
    BY <2>1, <2>2, <2>3, <2>4, <2>5, <2>6, <2>7, <2>8, <2>9, <2>10, <2>11, <2>12,
       <2>13, <2>14, <2>15 DEF Next, Step
<1>3. Spec => []TypeOK
  BY TypeCorrect
<1> QED
  BY <1>1, <1>2, <1>3, FlagHolds, InvHolds, PTL DEF Spec, ImplementsTransfer
=============================================================================
