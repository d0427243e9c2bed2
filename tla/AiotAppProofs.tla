--------------------------- MODULE AiotAppProofs ---------------------------
(***************************************************************************)
(* What is proved of the application and of the two components inside its  *)
(* round: the writes of the SPI slave, for every timeout and every Usage,  *)
(* and the rescaling of the image, for every size and scale.               *)
(*                                                                         *)
(* For the writes an invariant says at each place in the write function    *)
(* what the flag, the handshake pin and the transfer are while nothing has *)
(* disturbed the call.  The application keeps it, as the loop is inside a  *)
(* write whenever one is running, and its own invariant says what the host *)
(* has at each place of the loop.                                          *)
(***************************************************************************)
EXTENDS AiotApp, Rescale, TLAPS

-----------------------------------------------------------------------------
(* The writes of the SPI slave                                             *)

\* The flag when no write function is running, or one is about to return 0.
Idle == pc \in {"client", "done"} => ~busy

\* Nothing but the start of a write sets the flag, and no write returns 0
\* before it is clear.
LEMMA IdleStep == Idle /\ [Next]_vars => Idle'
<1> SUFFICES ASSUME Idle, [Next]_vars PROVE Idle'
  OBVIOUS
<1> USE DEF Idle
<1>1. ASSUME NEW k \in Kinds, write_simple(k) PROVE Idle'
  BY <1>1 DEF write_simple
<1>2. CASE RaisePin
  BY <1>2 DEF RaisePin
<1>3. CASE StartTransfer
  BY <1>3 DEF StartTransfer
<1>4. CASE Wait
  BY <1>4 DEF Wait
<1>5. CASE TimeoutHalt
  BY <1>5 DEF TimeoutHalt
<1>6. CASE TimeoutReturn
  BY <1>6 DEF TimeoutReturn
<1>7. CASE Return
  BY <1>7 DEF Return
<1>8. CASE spi_s_callback_ptl_tx
  BY <1>8 DEF spi_s_callback_ptl_tx
<1>9. CASE write_halt
  <2>1. PICK ok \in BOOLEAN : busy' = (busy /\ ~ok)
    BY <1>9 DEF write_halt
  <2>2. busy' => busy
    BY <2>1, Zenon
  <2> QED
    BY <1>9, <2>2 DEF write_halt
<1>10. CASE UNCHANGED vars
  BY <1>10 DEF vars
<1> QED
  BY <1>1, <1>2, <1>3, <1>4, <1>5, <1>6, <1>7, <1>8, <1>9, <1>10 DEF Next, Writer

LEMMA IdleHolds == Spec => []Idle
<1>1. Init => Idle
  BY DEF Init, Idle
<1> QED
  BY <1>1, IdleStep, PTL DEF Spec

\* Whatever halts come, no write that has returned leaves the link refusing
\* every further one (the early returns of spi_slave_protocol.c:289, 333, 369).
THEOREM AlwaysFreeAgain == Spec => []FreeAgain
<1>1. Idle => FreeAgain
  BY DEF Idle, FreeAgain
<1> QED
  BY <1>1, IdleHolds, PTL

-----------------------------------------------------------------------------
(* While no halt disturbs the call                                         *)

Outside  == pc = "client" => ~pin /\ xfer = "none"
Raising  == pc = "raise" => busy /\ xfer = "none" /\ ~sent
Starting == pc = "start" => busy /\ pin /\ xfer = "none" /\ ~sent
Waiting  == pc = "wait" =>
  \/ busy /\ pin /\ xfer = "current" /\ ~sent
  \/ ~busy /\ ~pin /\ xfer = "none" /\ sent
Finished == pc = "done" => ~pin /\ xfer = "none" /\ sent
Halting  == pc = "halt" => ~pin /\ xfer \in {"none", "current"}
Halted   == pc = "clear" => ~pin /\ xfer = "none"

Undisturbed ==
  Outside /\ Raising /\ Starting /\ Waiting /\ Finished /\ Halting /\ Halted

Typed ==
  /\ pc \in {"client", "raise", "start", "wait", "done", "halt", "clear"}
  /\ busy \in BOOLEAN /\ pin \in BOOLEAN /\ sent \in BOOLEAN
  /\ disturbed \in BOOLEAN

Inv == Typed /\ (~disturbed => Undisturbed)

\* The halt after the timeout ends the transfer or disturbs the call.
LEMMA HaltStep ==
  ASSUME Typed, TimeoutHalt
  PROVE  /\ pc = "halt" /\ pc' = "clear"
         /\ busy' = busy /\ pin' = pin /\ sent' = sent
         /\ disturbed' \in BOOLEAN
         /\ ~disturbed' => ~disturbed /\ xfer' = "none"
<1>1. pc = "halt" /\ pc' = "clear" /\ busy' = busy /\ pin' = pin /\ sent' = sent
  BY DEF TimeoutHalt
<1>2. PICK ok \in BOOLEAN : spi_write_halt(ok) /\ disturbed' = (disturbed \/ ~ok)
  BY Zenon DEF TimeoutHalt
<1>3. disturbed' \in BOOLEAN
  BY <1>2, Zenon
<1>4. ~disturbed' => ~disturbed /\ ok
  BY <1>2, Zenon
<1>5. ok => xfer' = "none"
  BY <1>2 DEF spi_write_halt
<1> QED
  BY <1>1, <1>3, <1>4, <1>5

\* write_halt outside a write ends the transfer or disturbs the next call.
LEMMA WriteHaltStep ==
  ASSUME Typed, Idle, write_halt
  PROVE  /\ pc' = pc /\ pin' = FALSE /\ sent' = sent
         /\ busy' \in BOOLEAN /\ disturbed' \in BOOLEAN
         /\ ~disturbed' => ~disturbed /\ pc = "client" /\ xfer' = "none"
<1>1. pc' = pc /\ pin' = FALSE /\ sent' = sent
  BY DEF write_halt
<1>2. PICK ok \in BOOLEAN : /\ spi_write_halt(ok)
                           /\ busy' = (busy /\ ~ok)
                           /\ disturbed' = (disturbed \/ pc # "client" \/ ~ok)
  BY Zenon DEF write_halt
<1>3. busy' \in BOOLEAN /\ disturbed' \in BOOLEAN
  BY <1>2, Zenon
<1>4. ~disturbed' => ~disturbed /\ pc = "client" /\ ok
  BY <1>2, Zenon
<1>5. ok => xfer' = "none"
  BY <1>2 DEF spi_write_halt
<1> QED
  BY <1>1, <1>3, <1>4, <1>5

\* A call is undisturbed if the one before was or nothing of it is left.
LEMMA CallStep ==
  ASSUME Typed, NEW k \in Kinds, write_simple(k)
  PROVE  /\ pc = "client" /\ pc' = "raise"
         /\ busy' = TRUE /\ pin' = pin /\ sent' = FALSE /\ xfer' = xfer
         /\ disturbed' \in BOOLEAN
         /\ ~disturbed' => ~disturbed \/ xfer = "none"
<1>1. /\ pc = "client" /\ pc' = "raise"
      /\ busy' = TRUE /\ pin' = pin /\ sent' = FALSE /\ xfer' = xfer
  BY DEF write_simple
<1>2. disturbed' = (disturbed /\ xfer # "none")
  BY DEF write_simple
<1>3. disturbed' \in BOOLEAN
  BY <1>2, Zenon
<1>4. ~disturbed' => ~disturbed \/ xfer = "none"
  BY <1>2, Zenon
<1> QED
  BY <1>1, <1>3, <1>4

\* The steps keep it.
LEMMA InvStep == Inv /\ Idle /\ [Next]_vars => Inv'
<1> USE DEF Inv, Typed, Undisturbed, Outside, Raising, Starting, Waiting, Finished,
            Halting, Halted
<1> SUFFICES ASSUME Inv, Idle, [Next]_vars PROVE Inv'
  OBVIOUS
<1>1. ASSUME NEW k \in Kinds, write_simple(k) PROVE Inv'
  <2>1. ~disturbed' => xfer = "none"
    BY <1>1, CallStep
  <2> QED
    BY <1>1, <2>1, CallStep
<1>2. CASE RaisePin
  BY <1>2 DEF RaisePin
<1>3. CASE StartTransfer
  BY <1>3 DEF StartTransfer
<1>4. CASE Wait
  <2>1. /\ pc = "wait" /\ busy' = busy /\ xfer' = xfer /\ sent' = sent
        /\ disturbed' = disturbed
    BY <1>4 DEF Wait
  <2>2. CASE ~busy
    <3>1. pc' = "done" /\ pin' = pin
      BY <1>4, <2>2 DEF Wait
    <3> QED
      BY <2>1, <2>2, <3>1
  <2>3. CASE busy
    <3>1. \/ pc' = "wait" /\ pin' = pin
          \/ pc' = "halt" /\ pin' = FALSE
      BY <1>4, <2>1, <2>3 DEF Wait
    <3> QED
      BY <2>1, <2>3, <3>1
  <2> QED
    BY <2>2, <2>3
<1>5. CASE TimeoutHalt
  BY <1>5, HaltStep
<1>6. CASE TimeoutReturn
  BY <1>6 DEF TimeoutReturn, LeaveTransfer
<1>7. CASE Return
  <2>1. /\ pc = "done" /\ pc' = "client" /\ busy' = busy /\ sent' = sent
        /\ disturbed' = disturbed
    BY <1>7 DEF Return
  <2>2. pin' \in BOOLEAN /\ (~pin => ~pin')
    <3>1. CASE kind = "cus"
      BY <1>7, <3>1 DEF Return
    <3>2. CASE kind # "cus"
      BY <1>7, <3>2 DEF Return
    <3> QED
      BY <3>1, <3>2
  <2>3. xfer = "none" => xfer' = "none"
    BY <1>7 DEF Return, LeaveTransfer
  <2> QED
    BY <2>1, <2>2, <2>3
<1>8. CASE spi_s_callback_ptl_tx
  <2>1. /\ pc' = pc /\ pin' = FALSE /\ busy' = FALSE /\ xfer' = "none"
        /\ disturbed' = disturbed /\ xfer # "none"
    BY <1>8 DEF spi_s_callback_ptl_tx
  <2>2. sent' \in BOOLEAN
    BY <1>8 DEF spi_s_callback_ptl_tx
  <2>3. xfer = "current" => sent'
    BY <1>8 DEF spi_s_callback_ptl_tx
  <2> QED
    BY <2>1, <2>2, <2>3
<1>9. CASE write_halt
  BY <1>9, WriteHaltStep
<1>10. CASE UNCHANGED vars
  BY <1>10 DEF vars
<1> QED
  BY <1>1, <1>2, <1>3, <1>4, <1>5, <1>6, <1>7, <1>8, <1>9, <1>10 DEF Next, Writer

LEMMA InvInit == Init => Inv
BY DEF Init, Inv, Typed, Undisturbed, Outside, Raising, Starting, Waiting, Finished,
       Halting, Halted

\* Every undisturbed call keeps flag, pin and transfer in step with each other
\* and with what the host has: the inductive invariant.
THEOREM InvHolds == Spec => []Inv
BY InvInit, InvStep, IdleHolds, PTL DEF Spec

\* When an undisturbed write has returned, with or without success, the driver
\* has no transfer that reads the caller's buffer (spi_slave_protocol.c:389).
THEOREM BufferIsFree == Spec => []BufferFree
<1>1. Inv => BufferFree
  BY DEF Inv, Undisturbed, Outside, BufferFree
<1> QED
  BY <1>1, InvHolds, PTL

\* When an undisturbed write has returned, the pin does not ask the host to
\* clock; with write_simple_cus that rests on the callback alone
\* (spi_slave_protocol.c:97).
THEOREM PinIsLow == Spec => []PinLow
<1>1. Inv => PinLow
  BY DEF Inv, Undisturbed, Outside, PinLow
<1> QED
  BY <1>1, InvHolds, PTL

\* An undisturbed write that returns 0 has passed its data to the host
\* (spi_slave_protocol.c:381).
THEOREM SuccessIsSent == Spec => SuccessMeansSent
<1>1. Inv /\ [Next]_vars => [Return /\ ~disturbed => sent]_vars
  BY DEF Inv, Undisturbed, Finished, Return
<1> QED
  BY <1>1, InvHolds, PTL DEF Spec, SuccessMeansSent

-----------------------------------------------------------------------------
(* Types                                                                   *)

\* The only bound on a counter: s_cmd_count passes the timeout in the round
\* that leaves the wait, and a new call sets it back.
Counted == pc \in {"raise", "start", "wait"} => s_cmd_count <= WRITE_TIMEOUT

TypeInv == TypeOK /\ Counted

LEMMA TypedIfTypeOK == TypeOK => Typed
  BY DEF TypeOK, Typed

\* What the halting steps do to the transfer, besides HaltStep and
\* WriteHaltStep.
LEMMA HaltKeepsTypes ==
  ASSUME NEW ok, spi_write_halt(ok), xfer \in {"none", "current", "earlier"}
  PROVE  xfer' \in {"none", "current", "earlier"}
  BY DEF spi_write_halt

LEMMA TypeInvStep == TypeInv /\ Idle /\ [Next]_vars => TypeInv'
<1> USE TimeoutAssumption DEF TimeoutAssumption, TypeInv, TypeOK, Counted
<1>0. /\ 0 \in 0 .. WRITE_TIMEOUT + 1 /\ 0 <= WRITE_TIMEOUT
      /\ \A n \in 0 .. WRITE_TIMEOUT : n + 1 \in 0 .. WRITE_TIMEOUT + 1
  OBVIOUS
<1> SUFFICES ASSUME TypeInv, Idle, [Next]_vars PROVE TypeInv'
  OBVIOUS
<1>t. Typed
  BY TypedIfTypeOK
<1>1. ASSUME NEW k \in Kinds, write_simple(k) PROVE TypeInv'
  <2>1. kind' = k /\ s_cmd_count' = 0 /\ passed' = FALSE
    BY <1>1 DEF write_simple
  <2>2. /\ pc' = "raise" /\ busy' = TRUE /\ pin' = pin /\ sent' = FALSE
        /\ xfer' = xfer /\ disturbed' \in BOOLEAN
    BY <1>t, <1>1, CallStep
  <2> QED
    BY <1>0, <2>1, <2>2
<1>2. CASE RaisePin
  BY <1>2 DEF RaisePin
<1>3. CASE StartTransfer
  BY <1>3 DEF StartTransfer
<1>4. CASE Wait
  <2>1. /\ pc = "wait" /\ busy' = busy /\ xfer' = xfer /\ sent' = sent
        /\ kind' = kind /\ disturbed' = disturbed /\ passed' = passed
    BY <1>4 DEF Wait
  <2>2. CASE ~busy
    BY <1>4, <2>1, <2>2 DEF Wait
  <2>3. CASE busy
    <3>1. s_cmd_count' = s_cmd_count + 1
      BY <1>4, <2>3 DEF Wait
    <3>2. \/ pc' = "halt" /\ pin' = FALSE
          \/ s_cmd_count' <= WRITE_TIMEOUT /\ pc' = "wait" /\ pin' = pin
      BY <1>4, <2>1, <2>3, <3>1 DEF Wait
    <3>3. s_cmd_count' \in 0 .. WRITE_TIMEOUT + 1
      BY <1>0, <2>1, <3>1
    <3> QED
      BY <2>1, <3>2, <3>3
  <2> QED
    BY <2>2, <2>3
<1>5. CASE TimeoutHalt
  <2>1. kind' = kind /\ s_cmd_count' = s_cmd_count /\ passed' = passed
    BY <1>5 DEF TimeoutHalt
  <2>2. PICK ok \in BOOLEAN : spi_write_halt(ok)
    BY <1>5, Zenon DEF TimeoutHalt
  <2>3. xfer' \in {"none", "current", "earlier"}
    BY <2>2, HaltKeepsTypes
  <2> QED
    BY <1>t, <1>5, <2>1, <2>3, HaltStep
<1>6. CASE TimeoutReturn
  BY <1>6 DEF TimeoutReturn, LeaveTransfer
<1>7. CASE Return
  BY <1>7 DEF Return, LeaveTransfer
<1>8. CASE spi_s_callback_ptl_tx
  BY <1>8 DEF spi_s_callback_ptl_tx
<1>9. CASE write_halt
  <2>1. kind' = kind /\ s_cmd_count' = s_cmd_count /\ passed' = passed
    BY <1>9 DEF write_halt
  <2>2. PICK ok \in BOOLEAN : spi_write_halt(ok)
    BY <1>9, Zenon DEF write_halt
  <2>3. xfer' \in {"none", "current", "earlier"}
    BY <2>2, HaltKeepsTypes
  <2> QED
    BY <1>t, <1>9, <2>1, <2>3, WriteHaltStep
<1>10. CASE UNCHANGED vars
  BY <1>10 DEF vars
<1> QED
  BY <1>1, <1>2, <1>3, <1>4, <1>5, <1>6, <1>7, <1>8, <1>9, <1>10 DEF Next, Writer

LEMMA TypeInvInit == Init => TypeInv
<1>1. 0 \in 0 .. WRITE_TIMEOUT + 1 /\ 0 <= WRITE_TIMEOUT
  BY TimeoutAssumption
<1> QED
  BY <1>1 DEF Init, TypeInv, TypeOK, Counted, Kinds

\* Every variable keeps its type; s_cmd_count counts one past the timeout at
\* most (the wait of spi_slave_protocol.c:381).
THEOREM SlaveTypeCorrect == Spec => []TypeOK
<1>1. TypeInv => TypeOK
  BY DEF TypeInv
<1> QED
  BY <1>1, TypeInvInit, TypeInvStep, IdleHolds, PTL DEF Spec
-----------------------------------------------------------------------------
(* The blocking transfer                                                   *)

\* What the caller sees of an undisturbed write is a blocking transfer: each
\* step of the slave is a step of Transfer or changes nothing that Transfer
\* knows (the write functions, spi_slave_protocol.c:284-399).
THEOREM SlaveIsTransfer == Spec => ImplementsTransfer
<1> USE DEF T!vars
<1>1. Init => T!Init
  BY DEF Init, T!Init
<1>2. Inv /\ Idle /\ [Next]_vars => [ ~disturbed' => T!Next ]_(T!vars)
  <2> SUFFICES ASSUME Inv, Idle, [Next]_vars, ~disturbed', T!vars' # T!vars
               PROVE  T!Next
    BY Zenon
  <2> USE DEF T!Next
  <2>t. Typed /\ (~disturbed => Undisturbed)
    BY DEF Inv
  <2>1. ASSUME NEW k \in Kinds, write_simple(k) PROVE T!Next
    BY <2>1 DEF write_simple, T!Call
  <2>2. CASE RaisePin
    BY <2>2 DEF RaisePin
  <2>3. CASE StartTransfer
    <3>1. xfer = "none" /\ pc = "start" /\ pc' = "wait"
      BY <2>t, <2>3 DEF StartTransfer, Undisturbed, Starting
    <3> QED
      BY <2>3, <3>1 DEF StartTransfer, T!Start
  <2>4. CASE Wait
    <3>1. pc' \in {"wait", "done", "halt"}
      BY <2>4 DEF Wait
    <3> QED
      BY <2>4, <3>1 DEF Wait
  <2>5. CASE TimeoutHalt
    <3>1. /\ pc = "halt" /\ pc' = "clear" /\ sent' = sent /\ passed' = passed
          /\ xfer' = "none"
      BY <2>t, <2>5, HaltStep DEF TimeoutHalt
    <3> QED
      BY <3>1 DEF T!GiveUp
  <2>6. CASE TimeoutReturn
    <3>1. /\ xfer = "none" /\ xfer' = "none" /\ pc = "clear" /\ pc' = "client"
          /\ sent' = sent /\ passed' = passed
      BY <2>t, <2>6 DEF TimeoutReturn, LeaveTransfer, Undisturbed, Halted
    <3> QED
      BY <3>1 DEF T!Fail
  <2>7. CASE Return
    <3>1. /\ xfer = "none" /\ xfer' = "none" /\ pc = "done" /\ pc' = "client"
          /\ sent /\ sent' = sent /\ passed' = TRUE
      BY <2>t, <2>7 DEF Return, LeaveTransfer, Undisturbed, Finished
    <3> QED
      BY <3>1 DEF T!Pass
  <2>8. CASE spi_s_callback_ptl_tx
    <3>1. /\ xfer # "none" /\ xfer' = "none" /\ pc' = pc /\ passed' = passed
          /\ ~disturbed
      BY <2>8 DEF spi_s_callback_ptl_tx
    <3>2. pc # "client"
      BY <2>t, <3>1 DEF Undisturbed, Outside
    <3>3. sent' = (sent \/ xfer = "current")
      BY <2>8 DEF spi_s_callback_ptl_tx
    <3>4. CASE xfer = "current"
      <4>1. sent' = TRUE
        BY <3>3, <3>4
      <4> QED
        BY <3>1, <3>2, <4>1 DEF T!Finish
    <3>5. CASE xfer # "current"
      <4>1. sent' = sent
        BY <2>t, <3>3, <3>5 DEF Typed
      <4> QED
        BY <3>1, <3>2, <4>1 DEF T!GiveUp
    <3> QED
      BY <3>4, <3>5
  <2>9. CASE write_halt
    <3>1. pc' = pc /\ sent' = sent /\ passed' = passed
      BY <2>9 DEF write_halt
    <3>2. ~disturbed /\ pc = "client" /\ xfer' = "none"
      BY <2>t, <2>9, WriteHaltStep
    <3> QED
      BY <2>t, <3>1, <3>2 DEF Undisturbed, Outside
  <2>10. CASE UNCHANGED vars
    BY <2>10 DEF vars
  <2> QED
    BY <2>1, <2>2, <2>3, <2>4, <2>5, <2>6, <2>7, <2>8, <2>9, <2>10 DEF Next, Writer
<1> QED
  BY <1>1, <1>2, InvHolds, IdleHolds, PTL DEF Spec, ImplementsTransfer

-----------------------------------------------------------------------------
(* The application on top of them                                          *)

\* Only while the loop waits for a write is one running.
Waits == pc # "client" => place \in {"jpg_wait", "meta_wait"}

Link == Idle /\ Inv /\ Waits

ThisImage == [jpg |-> image, meta |-> None]

\* The result is that of the image in the memory, from the algorithm on.
OfImage ==
  place \in {"jpg", "jpg_wait", "meta", "meta_wait"} => algo_result \in {image, None}

\* While the image is written the round counts as missed; the host gets the image
\* with the end of the transfer, and a write that passes undisturbed has seen it.
GivingImage == place = "jpg_wait" =>
  /\ missed
  /\ sent => host = ThisImage
  /\ ~disturbed /\ passed => sent

ImageGiven == place = "meta" /\ ~missed => host = ThisImage

GivingResult ==
  place = "meta_wait" /\ ~missed => host.jpg = image /\ host.meta \in {None, algo_result}

Paired == ~missed => host.meta \in {None, host.jpg}

Pairing == OfImage /\ GivingImage /\ ImageGiven /\ GivingResult /\ Paired

\* What the steps of the application are for SpiSlave: its own steps, or the two that
\* follow a command for the upgrade, outside of a write.
LEMMA LinkStep ==
  ASSUME Waits, [AppNext]_app_vars
  PROVE  \/ [Next]_vars
         \/ dmac_deinit /\ pc = "client"
         \/ hx_lib_pm_cpu_rst
<1> USE DEF spi
<1>1. CASE Setup \/ app_i2c_cmd_polling \/ Dispatch \/ ClearReady \/ hx_lib_i2ccomm_enable_read
           \/ Capture \/ app_algo_run \/ SendWifi \/ i2ccomm_callback_fun_rx
  BY <1>1 DEF Setup, app_i2c_cmd_polling, Dispatch, ClearReady, hx_lib_i2ccomm_enable_read,
              Capture, app_algo_run, SendWifi, i2ccomm_callback_fun_rx
<1>2. CASE dmac_deinit
  BY <1>2 DEF dmac_deinit, Go, Waits
<1>3. CASE WriteImage \/ WriteResult
  <2>1. UNCHANGED vars \/ write_simple("ex")
    BY <1>3 DEF WriteImage, WriteResult, app_spi_write, SpiReturned
  <2> QED BY <2>1 DEF Next, Kinds
<1>4. CASE SpiWriter \/ HostClocks
  BY <1>4 DEF SpiWriter, HostClocks, Next
<1>5. CASE UNCHANGED app_vars
  BY <1>5 DEF app_vars
<1> QED
  BY <1>1, <1>2, <1>3, <1>4, <1>5 DEF AppNext, Loop

LEMMA WaitsStep == Waits /\ [AppNext]_app_vars => Waits'
<1> SUFFICES ASSUME Waits, [AppNext]_app_vars PROVE Waits' OBVIOUS
<1> USE DEF Waits, Go, spi, vars
<1>1. CASE Setup \/ app_i2c_cmd_polling \/ Dispatch \/ ClearReady \/ hx_lib_i2ccomm_enable_read
           \/ Capture \/ app_algo_run \/ SendWifi
  BY <1>1 DEF Setup, app_i2c_cmd_polling, Dispatch, ClearReady, hx_lib_i2ccomm_enable_read,
              Capture, app_algo_run, SendWifi
<1>2. CASE dmac_deinit \/ hx_lib_pm_cpu_rst
  BY <1>2 DEF dmac_deinit, hx_lib_pm_cpu_rst
<1>3. CASE WriteImage
  BY <1>3 DEF WriteImage, app_spi_write, SpiReturned
<1>4. CASE WriteResult
  BY <1>4 DEF WriteResult, app_spi_write, SpiReturned
<1>5. CASE SpiWriter
  <2>1. pc # "client" /\ place' = place
    BY <1>5 DEF SpiWriter, Writer, RaisePin, StartTransfer, Wait, TimeoutHalt, TimeoutReturn, Return
  <2> QED BY <2>1
<1>6. CASE i2ccomm_callback_fun_rx \/ HostClocks \/ UNCHANGED app_vars
  BY <1>6 DEF i2ccomm_callback_fun_rx, HostClocks, spi_s_callback_ptl_tx, app_vars
<1> QED
  BY <1>1, <1>2, <1>3, <1>4, <1>5, <1>6 DEF AppNext, Loop

\* The chip starts anew.
LEMMA ResetLink == hx_lib_pm_cpu_rst => Idle' /\ Inv'
BY DEF hx_lib_pm_cpu_rst, Idle, Inv, Typed, Undisturbed, Outside, Raising, Starting, Waiting,
       Finished, Halting, Halted

LEMMA DmacLink ==
  ASSUME Idle, Inv, dmac_deinit, pc = "client"
  PROVE  Idle' /\ Inv'
<1>1. /\ pc' = pc /\ busy' = busy /\ pin' = pin /\ sent' = sent /\ disturbed' = disturbed
      /\ xfer' \in {xfer, "none"}
  BY DEF dmac_deinit
<1>2. Typed' BY <1>1 DEF Inv, Typed
<1>3. ~disturbed' => Undisturbed'
  BY <1>1 DEF Inv, Undisturbed, Outside, Raising, Starting, Waiting, Finished, Halting, Halted
<1> QED BY <1>1, <1>2, <1>3 DEF Idle, Inv

LEMMA LinkHolds == AppSpec => []Link
<1>1. AppInit => Link
  <2>1. AppInit => Init /\ Waits BY DEF AppInit, Init, Waits
  <2>2. Init => Idle BY DEF Init, Idle
  <2> QED BY <2>1, <2>2, InvInit DEF Link
<1>2. Link /\ [AppNext]_app_vars => Link'
  <2> SUFFICES ASSUME Idle, Inv, Waits, [AppNext]_app_vars PROVE Link' BY DEF Link
  <2>1. Waits' BY WaitsStep
  <2>2. Idle' /\ Inv' BY LinkStep, IdleStep, InvStep, DmacLink, ResetLink
  <2> QED BY <2>1, <2>2 DEF Link
<1> QED BY <1>1, <1>2, PTL DEF AppSpec

\* The properties of the writes hold in the application, where the loop is the only
\* caller and an upgrade may reset the chip between two writes.
THEOREM AppLinkIsFree == AppSpec => [](FreeAgain /\ BufferFree /\ PinLow)
<1>1. Link => FreeAgain /\ BufferFree /\ PinLow
  BY DEF Link, Idle, Inv, Undisturbed, Outside, FreeAgain, BufferFree, PinLow
<1> QED BY <1>1, LinkHolds, PTL

\* The upgrade resets the chip between two transfers (ota_update.c:25): the loop
\* polls for commands outside of the writes only (app_main.c:49).
THEOREM ResetIsQuiet == AppSpec => []QuietReset
<1>1. Link => QuietReset
  BY DEF Link, Waits, Inv, Undisturbed, Outside, QuietReset
<1> QED BY <1>1, LinkHolds, PTL

\* Image and result stay in memory until the SPI driver has done with them, which is
\* when the writes have returned (app_main.c:59-60, app_api.c:89).
THEOREM DataIsKept == AppSpec => DataKept
<1> DEFINE kept == (image' # image \/ algo_result' # algo_result) /\ place # "reset"
                     => disturbed \/ xfer = "none"
<1>1. Link /\ [AppNext]_app_vars => [kept]_app_vars
  <2> SUFFICES ASSUME Link, AppNext PROVE kept OBVIOUS
  <2>1. CASE Capture \/ app_algo_run
    <3>1. pc = "client" BY <2>1 DEF Link, Waits, Capture, app_algo_run, Go
    <3> QED BY <3>1 DEF Link, Inv, Undisturbed, Outside
  <2>2. CASE Setup \/ app_i2c_cmd_polling \/ Dispatch \/ ClearReady \/ hx_lib_i2ccomm_enable_read
             \/ dmac_deinit \/ WriteImage \/ WriteResult \/ SendWifi \/ SpiWriter
             \/ i2ccomm_callback_fun_rx \/ HostClocks
    <3>1. image' = image /\ algo_result' = algo_result
      BY <2>2 DEF Setup, app_i2c_cmd_polling, Dispatch, ClearReady, hx_lib_i2ccomm_enable_read,
                  dmac_deinit, WriteImage, WriteResult, SendWifi, SpiWriter,
                  i2ccomm_callback_fun_rx, HostClocks, data
    <3> QED BY <3>1
  <2>3. CASE hx_lib_pm_cpu_rst BY <2>3 DEF hx_lib_pm_cpu_rst
  <2> QED BY <2>1, <2>2, <2>3 DEF AppNext, Loop
<1>2. AppSpec => [][kept]_app_vars BY <1>1, LinkHolds, PTL DEF AppSpec
<1> QED BY <1>2 DEF DataKept

-----------------------------------------------------------------------------
(* Image and result                                                        *)

AppTypeInv == AppTypeOK /\ Counted

LEMMA ResetTypes == hx_lib_pm_cpu_rst => AppTypeInv'
<1>1. 0 \in 0 .. WRITE_TIMEOUT + 1 /\ 0 <= WRITE_TIMEOUT
  BY TimeoutAssumption
<1> SUFFICES ASSUME hx_lib_pm_cpu_rst PROVE AppTypeInv' OBVIOUS
<1>2. TypeOK' /\ Counted'
  BY <1>1 DEF hx_lib_pm_cpu_rst, TypeOK, Counted, Kinds
<1>3. host' \in [jpg : Captures, meta : Captures]
  BY DEF hx_lib_pm_cpu_rst, Captures, None
<1> QED
  BY <1>2, <1>3 DEF hx_lib_pm_cpu_rst, AppTypeInv, AppTypeOK, Places, Captures, None

\* What the host has changes with its clocking only.
LEMMA HostTypes ==
  ASSUME AppTypeOK, HostClocks
  PROVE  host' \in [jpg : Captures, meta : Captures]
<1>1. /\ host \in [jpg : Captures, meta : Captures]
      /\ image \in Captures /\ algo_result \in Captures /\ None \in Captures
  BY DEF AppTypeOK, Captures
<1>2. host' \in {[jpg |-> image, meta |-> None], [host EXCEPT !.meta = algo_result], host}
  BY DEF HostClocks
<1> QED BY <1>1, <1>2

LEMMA AppTypeStep ==
  ASSUME AppTypeInv, Link, [AppNext]_app_vars
  PROVE  AppTypeInv'
<1>0. AppTypeOK /\ Counted /\ Waits /\ Idle BY DEF AppTypeInv, Link
<1>1. CASE hx_lib_pm_cpu_rst BY <1>1, ResetTypes
<1>2. CASE ~hx_lib_pm_cpu_rst
  <2>1. TypeOK' /\ Counted'
    <3>1. CASE [Next]_vars
      BY <1>0, <3>1, TypeInvStep DEF TypeInv, AppTypeOK
    <3>2. CASE dmac_deinit
      BY <1>0, <3>2 DEF dmac_deinit, AppTypeOK, TypeOK, Counted
    <3> QED BY <1>0, <1>2, <3>1, <3>2, LinkStep
  <2>2. /\ place' \in Places /\ tcp_connected' \in BOOLEAN
        /\ i2c_rx_ready' \in BOOLEAN /\ reading' \in BOOLEAN
        /\ gRead_buf' \in Commands \union {"none"} /\ owed' \in Commands \union {"none"}
    BY <1>0, <1>2 DEF AppTypeOK, Places, AppNext, Loop, Setup, app_i2c_cmd_polling, Dispatch,
              ClearReady, hx_lib_i2ccomm_enable_read, dmac_deinit, Capture, app_algo_run,
              WriteImage, WriteResult, app_spi_write, SpiReturned, SendWifi, SpiWriter,
              i2ccomm_callback_fun_rx, HostClocks, Go, i2c, app_vars
  <2>3. image' \in {0, 1} /\ algo_result' \in Captures
    BY <1>0, <1>2 DEF AppTypeOK, AppNext, Loop, Setup, app_i2c_cmd_polling, Dispatch,
              ClearReady, hx_lib_i2ccomm_enable_read, dmac_deinit, Capture, app_algo_run,
              WriteImage, WriteResult, SendWifi, SpiWriter, Captures, None,
              i2ccomm_callback_fun_rx, HostClocks, data, app_vars
  <2>4. host' \in [jpg : Captures, meta : Captures]
    <3>1. CASE HostClocks BY <1>0, <3>1, HostTypes
    <3>2. CASE host' = host BY <1>0, <3>2 DEF AppTypeOK
    <3> QED
      BY <1>2, <3>1, <3>2 DEF AppNext, Loop, Setup, app_i2c_cmd_polling, Dispatch,
              ClearReady, hx_lib_i2ccomm_enable_read, dmac_deinit, Capture, app_algo_run,
              WriteImage, WriteResult, SendWifi, SpiWriter,
              i2ccomm_callback_fun_rx, data, app_vars
  <2>5. missed' \in BOOLEAN
    <3>1. CASE WriteImage
      <4>1. missed' = (disturbed \/ ~passed') BY <3>1 DEF WriteImage
      <4> QED BY <4>1, Zenon
    <3>2. CASE missed' = missed BY <1>0, <3>2 DEF AppTypeOK
    <3> QED
      BY <1>2, <3>1, <3>2 DEF AppNext, Loop, Setup, app_i2c_cmd_polling, Dispatch,
              ClearReady, hx_lib_i2ccomm_enable_read, dmac_deinit, Capture, app_algo_run,
              WriteResult, SendWifi, SpiWriter, HostClocks,
              i2ccomm_callback_fun_rx, data, app_vars
  <2> QED BY <2>1, <2>2, <2>3, <2>4, <2>5 DEF AppTypeInv, AppTypeOK
<1> QED BY <1>1, <1>2

LEMMA AppTypesHold == AppSpec => []AppTypeInv
<1>1. AppInit => AppTypeInv
  <2> SUFFICES ASSUME AppInit PROVE AppTypeInv OBVIOUS
  <2>1. TypeOK /\ Counted BY TypeInvInit DEF AppInit, TypeInv
  <2>2. host \in [jpg : Captures, meta : Captures] BY DEF AppInit, Captures, None
  <2> QED BY <2>1, <2>2 DEF AppInit, AppTypeInv, AppTypeOK, Places, Captures, None
<1>2. AppTypeInv /\ Link /\ [AppNext]_app_vars => AppTypeInv' BY AppTypeStep
<1> QED BY <1>1, <1>2, LinkHolds, PTL DEF AppSpec

\* Every variable of the loop keeps its type (app_main.c:44-72, app_i2c.c:20-22).
THEOREM AppTypeCorrect == AppSpec => []AppTypeOK
<1>1. AppTypeInv => AppTypeOK BY DEF AppTypeInv
<1> QED BY <1>1, AppTypesHold, PTL

\* The loop starts to write the image, which the round has missed so far.
LEMMA ImageStarts ==
  ASSUME Pairing, Link, write_simple("ex"), place = "jpg", place' = "jpg_wait",
         missed' = (disturbed \/ ~passed'), UNCHANGED <<image, algo_result, host>>
  PROVE  Pairing'
<1>1. passed' = FALSE /\ sent' = FALSE BY DEF write_simple
<1>2. missed' BY <1>1
<1>3. OfImage' BY DEF Pairing, OfImage
<1> QED
  BY <1>1, <1>2, <1>3 DEF Pairing, GivingImage, ImageGiven, GivingResult, Paired

\* The write of the image has returned: it is missed, or the host has it.
LEMMA ImageReturns ==
  ASSUME Pairing, place = "jpg_wait", place' = "meta", UNCHANGED vars,
         missed' = (disturbed \/ ~passed'), UNCHANGED <<image, algo_result, host>>
  PROVE  Pairing'
<1>1. passed' = passed BY DEF vars
<1>2. ~missed' => ~disturbed /\ passed BY <1>1, Zenon
<1>3. ~missed' => host = ThisImage BY <1>2 DEF Pairing, GivingImage
<1>4. OfImage' BY DEF Pairing, OfImage
<1>5. ImageGiven' BY <1>3 DEF ImageGiven, ThisImage
<1>6. Paired' BY <1>3 DEF Paired, ThisImage
<1> QED BY <1>4, <1>5, <1>6 DEF Pairing, GivingImage, GivingResult

\* The host has clocked a transfer out.
LEMMA HostGets ==
  ASSUME Pairing, AppTypeOK, HostClocks
  PROVE  Pairing'
<1>0. /\ UNCHANGED <<place, image, algo_result, missed, passed, disturbed>>
      /\ sent' = (sent \/ xfer = "current")
      /\ sent \in BOOLEAN /\ host \in [jpg : Captures, meta : Captures]
  BY DEF HostClocks, spi_s_callback_ptl_tx, AppTypeOK, TypeOK
<1> USE DEF Pairing, OfImage, GivingImage, ImageGiven, GivingResult, Paired, ThisImage
<1>1. CASE xfer = "current" /\ place = "jpg_wait"
  <2>1. host' = [jpg |-> image, meta |-> None] BY <1>1 DEF HostClocks
  <2>2. sent' = TRUE BY <1>0, <1>1
  <2> QED BY <1>0, <1>1, <2>1, <2>2
<1>2. CASE xfer = "current" /\ place = "meta_wait"
  <2>1. host' = [host EXCEPT !.meta = algo_result] BY <1>2 DEF HostClocks
  <2>2. host'.jpg = host.jpg /\ host'.meta = algo_result BY <1>0, <2>1
  <2> QED BY <1>0, <1>2, <2>2
<1>3. CASE ~(xfer = "current" /\ place \in {"jpg_wait", "meta_wait"})
  <2>1. host' = host BY <1>3 DEF HostClocks
  <2>2. place = "jpg_wait" => sent' = sent BY <1>0, <1>3
  <2> QED BY <1>0, <2>1, <2>2
<1> QED BY <1>1, <1>2, <1>3

\* A step inside a write: none passes undisturbed before the host has its data.
LEMMA WriterGives ==
  ASSUME Pairing, Link, SpiWriter
  PROVE  Pairing'
<1>0. UNCHANGED <<place, data>> BY DEF SpiWriter
<1>1. sent' = sent
  BY DEF SpiWriter, Writer, RaisePin, StartTransfer, Wait, TimeoutHalt, TimeoutReturn, Return
<1>2. place = "jpg_wait" /\ ~disturbed' /\ passed' => sent'
  <2> SUFFICES ASSUME place = "jpg_wait", ~disturbed', passed' PROVE sent BY <1>1, Zenon
  <2>1. CASE Return
    BY <2>1 DEF Return, Link, Inv, Undisturbed, Finished
  <2>2. CASE TimeoutHalt
    <3>1. passed' = passed BY <2>2 DEF TimeoutHalt
    <3>2. ~disturbed BY <2>2, HaltStep DEF Link, Inv
    <3> QED BY <3>1, <3>2 DEF Pairing, GivingImage
  <2>3. CASE RaisePin \/ StartTransfer \/ Wait \/ TimeoutReturn
    <3>1. passed' = passed /\ disturbed' = disturbed
      BY <2>3 DEF RaisePin, StartTransfer, Wait, TimeoutReturn
    <3> QED BY <3>1 DEF Pairing, GivingImage
  <2> QED BY <2>1, <2>2, <2>3 DEF SpiWriter, Writer
<1>3. GivingImage' BY <1>0, <1>1, <1>2 DEF Pairing, GivingImage, data, ThisImage
<1> QED
  BY <1>0, <1>3 DEF Pairing, OfImage, ImageGiven, GivingResult, Paired, ThisImage, data

LEMMA PairingStep ==
  ASSUME Pairing, AppTypeOK, Link, [AppNext]_app_vars
  PROVE  Pairing'
<1> USE DEF Go
<1>1. CASE Setup \/ app_i2c_cmd_polling \/ Dispatch \/ ClearReady \/ hx_lib_i2ccomm_enable_read
           \/ dmac_deinit \/ SendWifi
  <2>1. UNCHANGED data /\ place' \notin {"jpg", "jpg_wait", "meta", "meta_wait"}
    BY <1>1 DEF Setup, app_i2c_cmd_polling, Dispatch, ClearReady, hx_lib_i2ccomm_enable_read,
                dmac_deinit, SendWifi
  <2> QED
    BY <2>1 DEF Pairing, OfImage, GivingImage, ImageGiven, GivingResult, Paired, data
<1>2. CASE hx_lib_pm_cpu_rst
  BY <1>2 DEF hx_lib_pm_cpu_rst, Pairing, OfImage, GivingImage, ImageGiven, GivingResult, Paired
<1>3. CASE Capture
  BY <1>3 DEF Capture, Pairing, OfImage, GivingImage, ImageGiven, GivingResult, Paired
<1>4. CASE app_algo_run
  BY <1>4 DEF app_algo_run, Pairing, OfImage, GivingImage, ImageGiven, GivingResult, Paired
<1>5. CASE WriteImage
  <2>1. /\ missed' = (disturbed \/ ~passed') /\ UNCHANGED <<image, algo_result, host>>
        /\ app_spi_write("jpg", "jpg_wait", "meta") \/ SpiReturned("jpg_wait", "meta")
    BY <1>5 DEF WriteImage
  <2>2. CASE SpiReturned("jpg_wait", "meta")
    <3>1. place = "jpg_wait" /\ place' = "meta" /\ UNCHANGED vars
      BY <2>2 DEF SpiReturned, spi
    <3> QED BY <2>1, <3>1, ImageReturns
  <2>3. CASE app_spi_write("jpg", "jpg_wait", "meta")
    <3>1. place = "jpg" BY <2>3 DEF app_spi_write
    <3>2. ~busy BY <3>1 DEF Link, Waits, Idle
    <3>3. place' = "jpg_wait" /\ write_simple("ex") BY <2>3, <3>2, Zenon DEF app_spi_write
    <3> QED BY <2>1, <3>1, <3>3, ImageStarts
  <2> QED BY <2>1, <2>2, <2>3
<1>6. CASE WriteResult
  <2>1. /\ UNCHANGED data
        /\ \/ place = "meta" /\ place' \in {"meta_wait", "wifi"}
           \/ place = "meta_wait" /\ place' = "wifi"
    BY <1>6 DEF WriteResult, app_spi_write, SpiReturned
  <2> QED
    BY <2>1 DEF Pairing, OfImage, GivingImage, ImageGiven, GivingResult, Paired, ThisImage, data
<1>7. CASE SpiWriter
  BY <1>7, WriterGives
<1>8. CASE HostClocks
  BY <1>8, HostGets
<1>9. CASE i2ccomm_callback_fun_rx \/ UNCHANGED app_vars
  BY <1>9 DEF i2ccomm_callback_fun_rx, app_vars, spi, vars, data,
              Pairing, OfImage, GivingImage, ImageGiven, GivingResult, Paired, ThisImage
<1> QED
  BY <1>1, <1>2, <1>3, <1>4, <1>5, <1>6, <1>7, <1>8, <1>9 DEF AppNext, Loop

\* A result the host gets describes the image it has got just before, unless the
\* write of the image failed or was disturbed (app_main.c:59-60).
THEOREM ResultIsOfImage == AppSpec => []ResultOfImage
<1>1. AppInit => Pairing
  BY DEF AppInit, Init, Pairing, OfImage, GivingImage, ImageGiven, GivingResult, Paired
<1>2. Pairing /\ AppTypeInv /\ Link /\ [AppNext]_app_vars => Pairing'
  BY PairingStep DEF AppTypeInv
<1>3. Pairing => ResultOfImage
  BY DEF Pairing, Paired, ResultOfImage
<1> QED BY <1>1, <1>2, <1>3, LinkHolds, AppTypesHold, PTL DEF AppSpec


-----------------------------------------------------------------------------
(* fd_rescale: products and quotients                                      *)

\* What \div returns.
LEMMA Quotient ==
  ASSUME NEW a \in Nat, NEW b \in Nat \ {0}
  PROVE  a \div b \in Nat /\ b * (a \div b) <= a /\ a < b * (a \div b) + b
BY SMTT(30)

\* A bound on the product is one on the quotient.
LEMMA QuotientBelow ==
  ASSUME NEW a \in Nat, NEW b \in Nat \ {0}, NEW q \in Nat, a < q * b
  PROVE  a \div b < q
BY SMTT(30)

LEMMA QuotientAbove ==
  ASSUME NEW a \in Nat, NEW b \in Nat \ {0}, NEW q \in Nat, b * q <= a
  PROVE  q <= a \div b
BY Quotient, SMTT(30)

LEMMA ProductLeq ==
  ASSUME NEW a \in Int, NEW b \in Int, NEW c \in Nat, a <= b
  PROVE  a * c \in Int /\ b * c \in Int /\ a * c <= b * c /\ a * c = c * a /\ b * c = c * b
BY SMTT(30)

\* The first pixel is one of the image.
LEMMA FirstPlace ==
  ASSUME NEW w \in Nat \ {0}, NEW h \in Nat \ {0}
  PROVE  0 \in 0 .. w * h - 1
BY SMTT(30)

\* A common factor is cancelled.
LEMMA Cancel ==
  ASSUME NEW a \in Int, NEW b \in Int, NEW c \in Nat \ {0}, c * a <= c * b
  PROVE  a <= b
BY SMTT(30)

\* A quotient of natural numbers is one.
LEMMA FactorNat ==
  ASSUME NEW w \in Nat, NEW n \in Nat \ {0}
  PROVE  Factor(w, n) \in Nat /\ n * Factor(w, n) <= w * SCALE
                              /\ w * SCALE < n * Factor(w, n) + n
<1>1. w * SCALE \in Nat BY ScaleAssumption, SMT
<1> QED BY <1>1, Quotient DEF Factor

LEMMA FloorNat ==
  ASSUME NEW i \in Nat, NEW f \in Nat
  PROVE  /\ i * f \in Nat /\ floor(i, f) \in Nat
         /\ SCALE * floor(i, f) <= i * f /\ i * f < SCALE * floor(i, f) + SCALE
<1>1. i * f \in Nat BY SMT
<1> QED BY <1>1, Quotient, ScaleAssumption DEF floor

-----------------------------------------------------------------------------
(* The window                                                              *)

\* The left column of a window is one of the image.
LEMMA FloorInImage ==
  ASSUME NEW w \in Nat \ {0}, NEW n \in Nat \ {0}, NEW i \in 0 .. n - 1
  PROVE  floor(i, Factor(w, n)) \in 0 .. w - 1
<1> DEFINE f == Factor(w, n)
<1>1. f \in Nat /\ n * f <= w * SCALE BY FactorNat
<1> HIDE DEF f
<1>2. i * f < w * SCALE
  <2>1. CASE f = 0
    <3>1. w * SCALE > 0 BY ScaleAssumption, SMT
    <3>2. i * f = 0 BY <2>1, SMT
    <3> QED BY <3>1, <3>2, SMT
  <2>2. CASE f # 0
    <3>1. i * f <= (n - 1) * f BY <1>1, ProductLeq, SMT
    <3>2. (n - 1) * f < n * f BY <1>1, <2>2, SMT
    <3>3. w * SCALE \in Int /\ n * f \in Int /\ i * f \in Int /\ (n - 1) * f \in Int
      BY <1>1, ScaleAssumption, SMT
    <3> QED BY <1>1, <3>1, <3>2, <3>3, SMT
  <2> QED BY <2>1, <2>2
<1>3. floor(i, f) \in Nat /\ i * f \in Nat
  <2>1. i \in Nat OBVIOUS
  <2> QED BY <1>1, <2>1, FloorNat
<1>4. floor(i, f) < w BY <1>2, <1>3, QuotientBelow, ScaleAssumption DEF floor
<1> QED BY <1>3, <1>4 DEF f

\* Nor does the right one leave it.
LEMMA CeilInImage ==
  ASSUME NEW w \in Nat \ {0}, NEW n \in Nat \ {0}, NEW i \in 0 .. n - 1
  PROVE  ceil(i, Factor(w, n), w) \in 0 .. w - 1
<1> DEFINE q == floor(i, Factor(w, n))
<1>1. q \in 0 .. w - 1 BY FloorInImage
<1>2. ceil(i, Factor(w, n), w) = IF q + 1 >= w THEN q ELSE q + 1 BY DEF ceil
<1> HIDE DEF q
<1> QED BY <1>1, <1>2, SMT

\* Row and column of the image make a place in it.
LEMMA PlaceInImage ==
  ASSUME NEW w \in Nat \ {0}, NEW h \in Nat \ {0}, NEW r \in 0 .. h - 1, NEW c \in 0 .. w - 1
  PROVE  r * w + c \in 0 .. w * h - 1
<1>1. r * w <= (h - 1) * w BY ProductLeq, SMT
<1>2. (h - 1) * w = w * h - w BY SMT
<1>3. r * w \in Nat /\ w * h \in Nat BY SMT
<1> QED BY <1>1, <1>2, <1>3, SMT

LEMMA WindowInImage ==
  ASSUME width \in Nat \ {0}, height \in Nat \ {0}, x \in 0 .. NWIDTH - 1, y \in 0 .. NHEIGHT - 1,
         NEW i \in 1 .. 4
  PROVE  Window(Factor(width, NWIDTH), Factor(height, NHEIGHT))[i] \in 0 .. width * height - 1
<1> DEFINE fx == Factor(width, NWIDTH)
           fy == Factor(height, NHEIGHT)
           r == IF i <= 2 THEN floor(y, fy) ELSE ceil(y, fy, height)
           c == IF i \in {1, 3} THEN floor(x, fx) ELSE ceil(x, fx, width)
<1>1. NWIDTH \in Nat \ {0} /\ NHEIGHT \in Nat \ {0} BY InputAssumption, ScaleAssumption, SMT
<1>2. r \in 0 .. height - 1 BY <1>1, FloorInImage, CeilInImage
<1>3. c \in 0 .. width - 1 BY <1>1, FloorInImage, CeilInImage
<1>4. Window(fx, fy)[i] = r * width + c BY DEF Window
<1> HIDE DEF r, c, fx, fy
<1>5. r * width + c \in 0 .. width * height - 1 BY <1>2, <1>3, PlaceInImage
<1> QED BY <1>4, <1>5 DEF fx, fy

-----------------------------------------------------------------------------
(* The pixel                                                               *)

LEMMA FractionInScale ==
  ASSUME NEW i \in Nat, NEW f \in Nat
  PROVE  fraction(i, f) \in 0 .. SCALE
<1> DEFINE q == floor(i, f)
<1>1. /\ i * f \in Nat /\ q \in Nat /\ SCALE * q <= i * f /\ i * f < SCALE * q + SCALE BY FloorNat
<1>2. fraction(i, f) = i * f - q * SCALE BY DEF fraction
<1> HIDE DEF q
<1>3. q * SCALE = SCALE * q /\ q * SCALE \in Nat BY <1>1, ScaleAssumption, SMT
<1> QED BY <1>1, <1>2, <1>3, ScaleAssumption, SMT

\* A weighted sum of two values is between them, SCALE times as large.
LEMMA BlendBetween ==
  ASSUME NEW f \in 0 .. SCALE, NEW lo \in Nat, NEW hi \in Nat, NEW a \in lo .. hi, NEW b \in lo .. hi
  PROVE  Blend(f, a, b) \in SCALE * lo .. SCALE * hi
<1>1. SCALE - f \in Nat /\ f \in Nat BY ScaleAssumption, SMT
<1>2. lo * (SCALE - f) <= a * (SCALE - f) /\ a * (SCALE - f) <= hi * (SCALE - f)
  BY <1>1, ProductLeq
<1>3. lo * f <= b * f /\ b * f <= hi * f BY <1>1, ProductLeq
<1>4. lo * (SCALE - f) + lo * f = SCALE * lo /\ hi * (SCALE - f) + hi * f = SCALE * hi
  BY ScaleAssumption, SMTT(30)
<1>5. Blend(f, a, b) = a * (SCALE - f) + b * f BY ScaleAssumption, SMTT(30) DEF Blend
<1>6. /\ lo * (SCALE - f) \in Int /\ a * (SCALE - f) \in Int /\ hi * (SCALE - f) \in Int
      /\ lo * f \in Int /\ b * f \in Int /\ hi * f \in Int
      /\ SCALE * lo \in Int /\ SCALE * hi \in Int
  BY <1>1, ScaleAssumption, SMT
<1> QED BY <1>2, <1>3, <1>4, <1>5, <1>6, SMT

LEMMA InterpolatedBetween ==
  ASSUME NEW f \in 0 .. SCALE, NEW g \in 0 .. SCALE, NEW lo \in Nat, NEW hi \in Nat,
         NEW p, \A i \in 1 .. 4 : p[i] \in lo .. hi
  PROVE  Interpolated(f, g, p) \in lo .. hi
<1> DEFINE a == Blend(f, p[1], p[2])
           b == Blend(f, p[3], p[4])
           c == Blend(g, a, b)
           s == SCALE * SCALE
<1>1. a \in SCALE * lo .. SCALE * hi BY BlendBetween
<1>2. b \in SCALE * lo .. SCALE * hi BY BlendBetween
<1>3. SCALE * lo \in Nat /\ SCALE * hi \in Nat BY ScaleAssumption, SMT
<1> HIDE DEF a, b
<1>4. c \in SCALE * (SCALE * lo) .. SCALE * (SCALE * hi) BY <1>1, <1>2, <1>3, BlendBetween
<1>5. Interpolated(f, g, p) = c \div s BY DEF Interpolated, a, b
<1>6. /\ s \in Nat \ {0} /\ s * lo \in Nat /\ s * hi \in Nat
      /\ SCALE * (SCALE * lo) = s * lo /\ SCALE * (SCALE * hi) = s * hi
  BY ScaleAssumption, SMTT(30)
<1> HIDE DEF c, s
<1>7. c \in Nat /\ s * lo <= c /\ c <= s * hi BY <1>4, <1>6, SMT
<1>8. lo <= c \div s BY <1>6, <1>7, QuotientAbove
<1>9. c \div s <= hi
  <2>1. s * (c \div s) <= c /\ c \div s \in Nat BY <1>6, <1>7, Quotient
  <2>2. s * (c \div s) \in Int BY <1>6, <2>1, SMT
  <2>3. s * (c \div s) <= s * hi BY <1>6, <1>7, <2>1, <2>2, SMT
  <2> QED BY <1>6, <2>1, <2>3, Cancel
<1>10. c \div s \in Nat BY <1>6, <1>7, Quotient
<1> QED BY <1>5, <1>8, <1>9, <1>10, SMT

-----------------------------------------------------------------------------
(* The place                                                               *)

\* The rounded step, multiplied and rounded again, is at most one pixel short.
LEMMA FloorNearExact ==
  ASSUME NEW w \in Nat \ {0}, NEW n \in 1 .. SCALE, NEW i \in 0 .. n - 1
  PROVE  LET e == (i * w) \div n IN floor(i, Factor(w, n)) \in {e, e - 1}
<1> DEFINE f == Factor(w, n)
           q == floor(i, f)
           e == (i * w) \div n
<1>1. n \in Nat \ {0} /\ i \in Nat /\ i * w \in Nat BY ScaleAssumption, SMT
<1>2. f \in Nat /\ n * f <= w * SCALE /\ w * SCALE < n * f + n BY <1>1, FactorNat
<1>3. q \in Nat /\ SCALE * q <= i * f /\ i * f < SCALE * q + SCALE BY <1>1, <1>2, FloorNat
<1>4. e \in Nat /\ n * e <= i * w /\ i * w < n * e + n BY <1>1, Quotient
<1> HIDE DEF f, q, e
<1>5. i * f \in Nat /\ w * SCALE \in Nat /\ n * f \in Nat /\ SCALE * q \in Nat /\ n * e \in Nat
  BY <1>1, <1>2, <1>3, <1>4, ScaleAssumption, SMT
<1>6. q <= e
  <2>1. (SCALE * q) * n <= (i * f) * n BY <1>1, <1>3, <1>5, ProductLeq
  <2>2. (n * f) * i <= (w * SCALE) * i BY <1>1, <1>2, <1>5, ProductLeq
  <2>3. (i * f) * n = (n * f) * i BY <1>1, <1>2, SMTT(30)
  <2>4. (SCALE * q) * n = SCALE * (n * q) BY <1>1, <1>3, ScaleAssumption, SMTT(30)
  <2>5. (w * SCALE) * i = SCALE * (i * w) BY <1>1, ScaleAssumption, SMTT(30)
  <2>6. n * q \in Nat /\ SCALE * (n * q) \in Nat /\ SCALE * (i * w) \in Nat /\ (i * f) * n \in Nat
    BY <1>1, <1>3, <1>5, ScaleAssumption, SMT
  <2>7. SCALE * (n * q) <= SCALE * (i * w) BY <2>1, <2>2, <2>3, <2>4, <2>5, <2>6, SMT
  <2>8. n * q <= i * w BY <1>1, <2>6, <2>7, Cancel, ScaleAssumption
  <2> QED BY <1>1, <1>3, <2>8, QuotientAbove DEF e
<1>7. e <= q + 1
  <2>1. (n * e) * SCALE <= (i * w) * SCALE BY <1>1, <1>4, <1>5, ProductLeq, ScaleAssumption
  <2>2. (w * SCALE) * i <= (n * f + n) * i BY <1>1, <1>2, <1>5, ProductLeq
  <2>3. i * f + i <= SCALE * q + 2 * SCALE - 2 BY <1>1, <1>3, <1>5, ScaleAssumption, SMT
  <2>4. (i * f + i) * n <= (SCALE * q + 2 * SCALE - 2) * n
    BY <1>1, <1>5, <2>3, ProductLeq, ScaleAssumption, SMT
  <2>5. (n * f + n) * i = (i * f + i) * n BY <1>1, <1>2, SMTT(30)
  <2>6. (i * w) * SCALE = (w * SCALE) * i BY <1>1, ScaleAssumption, SMTT(30)
  <2>7. (n * e) * SCALE = n * (e * SCALE) BY <1>1, <1>4, ScaleAssumption, SMTT(30)
  <2>8. (SCALE * q + 2 * SCALE - 2) * n = n * (SCALE * q + 2 * SCALE - 2)
    BY <1>1, <1>5, ScaleAssumption, SMT
  <2>9. /\ e * SCALE \in Int /\ SCALE * q + 2 * SCALE - 2 \in Int
        /\ n * (e * SCALE) \in Int /\ n * (SCALE * q + 2 * SCALE - 2) \in Int
        /\ (i * w) * SCALE \in Int /\ (i * f + i) * n \in Int
    BY <1>1, <1>4, <1>5, ScaleAssumption, SMT
  <2>10. n * (e * SCALE) <= n * (SCALE * q + 2 * SCALE - 2)
    BY <2>1, <2>2, <2>4, <2>5, <2>6, <2>7, <2>8, <2>9, SMT
  <2>11. e * SCALE <= SCALE * q + 2 * SCALE - 2 BY <1>1, <2>9, <2>10, Cancel
  <2>12. e * SCALE < (q + 2) * SCALE
    <3>1. (q + 2) * SCALE = SCALE * q + 2 * SCALE BY <1>3, ScaleAssumption, SMT
    <3> QED BY <1>5, <2>9, <2>11, <3>1, ScaleAssumption, SMT
  <2>13. e < q + 2
    <3>1. SUFFICES ASSUME q + 2 <= e PROVE FALSE BY <1>3, <1>4, SMT
    <3>2. (q + 2) * SCALE <= e * SCALE BY <1>3, <1>4, <3>1, ProductLeq, ScaleAssumption, SMT
    <3> QED BY <1>3, <2>9, <2>12, <3>2, ScaleAssumption, SMT
  <2> QED BY <1>3, <1>4, <2>13, SMT
<1>8. q \in {e, e - 1} BY <1>3, <1>4, <1>6, <1>7, SMT
<1> QED BY <1>8 DEF f, q, e

-----------------------------------------------------------------------------
(* The specification                                                       *)

\* Where Pixel is taken, the image has a size and the next pixel is one of the input.
LEMMA PixelTypes ==
  ASSUME RescaleTypeOK, Pixel
  PROVE  /\ width \in Nat \ {0} /\ height \in Nat \ {0}
         /\ x \in 0 .. NWIDTH - 1 /\ y \in 0 .. NHEIGHT - 1
         /\ NWIDTH \in Nat \ {0} /\ NHEIGHT \in Nat \ {0}
BY ImageAssumption, InputAssumption, ScaleAssumption, SMT DEF RescaleTypeOK, Pixel

RescaleInv == RescaleTypeOK /\ StaysInImage /\ BetweenNeighbours

LEMMA PixelReadsInImage ==
  ASSUME RescaleTypeOK, Pixel
  PROVE  \A i \in 1 .. 4 : at'[i] \in 0 .. width * height - 1
<1> TAKE i \in 1 .. 4
<1>1. at' = Window(Factor(width, NWIDTH), Factor(height, NHEIGHT)) BY DEF Pixel
<1> QED BY <1>1, PixelTypes, WindowInImage

LEMMA PixelBlends ==
  ASSUME RescaleTypeOK, Pixel, NEW lo \in Nat, NEW hi \in Nat, \A i \in 1 .. 4 : pix'[i] \in lo .. hi
  PROVE  out_image' \in lo .. hi
<1> DEFINE fx == Factor(width, NWIDTH)
           fy == Factor(height, NHEIGHT)
<1>1. fx \in Nat /\ fy \in Nat BY PixelTypes, FactorNat
<1>2. x \in Nat /\ y \in Nat BY PixelTypes, SMT
<1>3. out_image' = Interpolated(fraction(x, fx), fraction(y, fy), pix') BY DEF Pixel
<1> HIDE DEF fx, fy
<1>4. fraction(x, fx) \in 0 .. SCALE /\ fraction(y, fy) \in 0 .. SCALE BY <1>1, <1>2, FractionInScale
<1> QED BY <1>3, <1>4, InterpolatedBetween

LEMMA RescaleInvInit == RescaleInit => RescaleInv
<1> SUFFICES ASSUME RescaleInit PROVE RescaleInv OBVIOUS
<1>1. width \in Nat \ {0} /\ height \in Nat \ {0} BY ImageAssumption DEF RescaleInit
<1>2. RescaleTypeOK BY InputAssumption, ScaleAssumption, ByteAssumption, SMT DEF RescaleInit, RescaleTypeOK
<1>3. StaysInImage
  <2>1. 0 \in 0 .. width * height - 1 BY <1>1, FirstPlace
  <2> QED BY <2>1 DEF RescaleInit, StaysInImage
<1>4. BetweenNeighbours BY DEF RescaleInit, BetweenNeighbours, Between
<1> QED BY <1>2, <1>3, <1>4 DEF RescaleInv

LEMMA RescaleInvStep == RescaleInv /\ [RescaleNext]_rescale_vars => RescaleInv'
<1> SUFFICES ASSUME RescaleInv, [RescaleNext]_rescale_vars PROVE RescaleInv' OBVIOUS
<1> USE DEF RescaleInv
<1>1. CASE Pixel
  <2>1. RescaleTypeOK'
    <3>1. /\ width' = width /\ height' = height
          /\ x' \in 0 .. NWIDTH - 1 /\ y' \in 0 .. NHEIGHT
      BY <1>1, PixelTypes, SMT DEF Pixel
    <3>2. at' \in [1 .. 4 -> Int]
      <4>1. \A i \in 1 .. 4 : at'[i] \in Int BY <1>1, PixelReadsInImage
      <4>2. at' = [i \in 1 .. 4 |-> at'[i]] BY <1>1 DEF Pixel, Window
      <4> QED BY <4>1, <4>2
    <3>3. pix' \in [1 .. 4 -> Bytes] BY <1>1 DEF Pixel
    <3>4. out_image' \in Int
      <4>1. \A i \in 1 .. 4 : pix'[i] \in 0 .. 255 BY <3>3, ByteAssumption
      <4>2. 0 \in Nat /\ 255 \in Nat OBVIOUS
      <4>3. out_image' \in 0 .. 255 BY <1>1, <4>1, <4>2, PixelBlends
      <4> QED BY <4>3
    <3> QED BY <3>1, <3>2, <3>3, <3>4 DEF RescaleTypeOK
  <2>2. StaysInImage' BY <1>1, PixelReadsInImage DEF StaysInImage, Pixel
  <2>3. BetweenNeighbours'
    <3> SUFFICES ASSUME NEW lo \in Bytes, NEW hi \in Bytes, \A i \in 1 .. 4 : pix'[i] \in lo .. hi
                 PROVE  out_image' \in lo .. hi
      BY DEF BetweenNeighbours, Between
    <3>1. lo \in Nat /\ hi \in Nat BY ByteAssumption
    <3> QED BY <1>1, <3>1, PixelBlends
  <2> QED BY <2>1, <2>2, <2>3
<1>2. CASE tflitemicro_algo_run
  <2>1. width' \in Nat \ {0} /\ height' \in Nat \ {0} BY <1>2, ImageAssumption DEF tflitemicro_algo_run
  <2>2. RescaleTypeOK'
    BY <1>2, InputAssumption, ScaleAssumption, ByteAssumption, SMT DEF tflitemicro_algo_run, RescaleTypeOK
  <2>3. StaysInImage'
    <3>1. 0 \in 0 .. width' * height' - 1 BY <2>1, FirstPlace
    <3> QED BY <1>2, <3>1 DEF tflitemicro_algo_run, StaysInImage
  <2>4. BetweenNeighbours' BY <1>2 DEF tflitemicro_algo_run, BetweenNeighbours, Between
  <2> QED BY <2>2, <2>3, <2>4
<1>3. CASE UNCHANGED rescale_vars
  BY <1>3 DEF rescale_vars, RescaleTypeOK, StaysInImage, BetweenNeighbours, Between
<1> QED BY <1>1, <1>2, <1>3 DEF RescaleNext

LEMMA RescaleInvHolds == RescaleSpec => []RescaleInv
BY RescaleInvInit, RescaleInvStep, PTL DEF RescaleSpec

\* Types (lines 64 to 78).
THEOREM RescaleTypeCorrect == RescaleSpec => []RescaleTypeOK
BY RescaleInvHolds, PTL DEF RescaleInv

\* No read of fd_rescale leaves the image (lines 82 to 100).
THEOREM ReadsInImage == RescaleSpec => []StaysInImage
BY RescaleInvHolds, PTL DEF RescaleInv

\* Every pixel computed is between those of its window (lines 102 to 105).
THEOREM BlendsNeighbours == RescaleSpec => []BetweenNeighbours
BY RescaleInvHolds, PTL DEF RescaleInv

\* The window is at the exact place or one pixel before it (lines 63 and 82).
THEOREM WindowIsExact == RescaleSpec => NearExact
<1> DEFINE col == (x * width) \div NWIDTH
           row == (y * height) \div NHEIGHT
           near == \E c \in {col, col - 1}, r \in {row, row - 1} :
                     c >= 0 /\ r >= 0 /\ at'[1] = r * width + c
<1>1. RescaleTypeOK /\ Pixel => near
  <2> SUFFICES ASSUME RescaleTypeOK, Pixel PROVE near OBVIOUS
  <2> DEFINE c == floor(x, Factor(width, NWIDTH))
             r == floor(y, Factor(height, NHEIGHT))
  <2>1. c \in {col, col - 1} BY PixelTypes, FloorNearExact, InputAssumption
  <2>2. r \in {row, row - 1} BY PixelTypes, FloorNearExact, InputAssumption
  <2>3. c \in 0 .. width - 1 /\ r \in 0 .. height - 1 BY PixelTypes, FloorInImage
  <2>4. at'[1] = r * width + c BY DEF Pixel, Window
  <2>5. c >= 0 /\ r >= 0 BY <2>3, PixelTypes, SMT
  <2> HIDE DEF c, r, col, row
  <2> QED BY <2>1, <2>2, <2>4, <2>5
<1>2. RescaleTypeOK /\ [RescaleNext]_rescale_vars => [Pixel => near]_rescale_vars BY <1>1
<1>3. RescaleSpec => [][Pixel => near]_rescale_vars BY <1>2, RescaleTypeCorrect, PTL DEF RescaleSpec
<1> QED BY <1>3 DEF NearExact
=============================================================================
