-------------------------------- MODULE Uart --------------------------------
(***************************************************************************)
(* platform/peripheral/uart/uart_protocol.c: app_uart_send sends a header  *)
(* and then the data in packets, each of which ends with an interrupt that *)
(* sets a flag.  Several tasks send; mutex_uart, taken for as long as it   *)
(* takes (module Mutex) and released under FreeRTOS only, keeps a message  *)
(* in one piece.  The driver is a library without source.                  *)
(***************************************************************************)
EXTENDS Integers

CONSTANTS
  Task, NoTask,
  Top,                  \* the task that outranks all others
  UART_PACKET_SIZE,     \* 5 * 1024 bytes
  TIMEOUT,              \* 50000 milliseconds for each packet
  Sizes,                \* the sizes of messages, in bytes
  OS                    \* the macro the code is compiled with: "FREERTOS" or "TX"

ASSUME NoTaskAssumption == NoTask \notin Task
ASSUME TopAssumption == Top \in Task
ASSUME UartAssumption == /\ UART_PACKET_SIZE \in Nat \ {0} /\ TIMEOUT \in Nat
                         /\ Sizes \subseteq Nat /\ OS \in {"FREERTOS", "TX"}

\* A transfer of the driver: whose it is, the offset of its first byte from
\* SRAM_addr, its length, and whether the call that has posted it is not over.
\* The header comes right before the data.
HEADER == 7
Chunk(t, at, n) == [by |-> t, at |-> at, len |-> n, live |-> TRUE]
None == [by |-> NoTask, at |-> 0, len |-> 0, live |-> FALSE]

VARIABLES
  pc,                   \* where each task is in app_uart_send
  mutex_uart,           \* its owner
  size,                 \* img_size of the call that owns it, and its locals:
  uart_imgsize, uart_cur_pos, s_cmd_count,
  uart_cb_tx_flag,
  tx,                   \* the driver's transfer
  result,               \* of each task's last call
  out,                  \* history: the offset up to which the call's bytes are out
  disturbed             \* history: a transfer left by an earlier call was not
                        \* over when this one began

locals == <<size, uart_imgsize, uart_cur_pos>>
vars == <<pc, mutex_uart, locals, s_cmd_count, uart_cb_tx_flag, tx, result, out, disturbed>>

Init ==
  /\ pc = [t \in Task |-> "client"] /\ mutex_uart = NoTask
  /\ size = 0 /\ uart_imgsize = 0 /\ uart_cur_pos = 0 /\ s_cmd_count = 0
  /\ uart_cb_tx_flag = FALSE /\ tx = None
  /\ result = [t \in Task |-> 0] /\ out = 0 /\ disturbed = FALSE

Go(t, from, to) == pc[t] = from /\ pc' = [pc EXCEPT ![t] = to]

-----------------------------------------------------------------------------
app_uart_send(t) ==
  /\ Go(t, "client", "lock")
  /\ UNCHANGED <<mutex_uart, locals, s_cmd_count, uart_cb_tx_flag, tx, result, out, disturbed>>

\* A ThreadX mutex lets its owner take it again.  The size is the caller's, and
\* chosen here since nothing reads it before.
Take(t) ==
  /\ Go(t, "lock", "unflag")
  /\ mutex_uart \in IF OS = "TX" THEN {NoTask, t} ELSE {NoTask}
  /\ mutex_uart' = t
  /\ size' \in Sizes /\ uart_imgsize' = size' /\ uart_cur_pos' = 0 /\ s_cmd_count' = 0
  /\ out' = -HEADER /\ disturbed' = (tx # None)
  /\ UNCHANGED <<uart_cb_tx_flag, tx, result>>

ClearFlag(t) ==
  /\ Go(t, "unflag", "header")
  /\ uart_cb_tx_flag' = FALSE
  /\ UNCHANGED <<mutex_uart, locals, s_cmd_count, tx, result, out, disturbed>>

Exit(t, r) ==
  /\ pc' = [pc EXCEPT ![t] = "exit"]
  /\ result' = [result EXCEPT ![t] = r]

\* A driver that has a transfer drops it for another one, or refuses that one;
\* it may refuse one when it has none, too.
uart_write(t, new) == tx' = new /\ pc' = [pc EXCEPT ![t] = "wait"] /\ UNCHANGED result
Refused(t) == Exit(t, -1) /\ UNCHANGED <<tx, uart_imgsize, uart_cur_pos>>

SendHeader(t) ==
  /\ pc[t] = "header"
  /\ \/ uart_write(t, Chunk(t, -HEADER, HEADER)) /\ UNCHANGED <<uart_imgsize, uart_cur_pos>>
     \/ Refused(t)
  /\ UNCHANGED <<mutex_uart, size, s_cmd_count, uart_cb_tx_flag, out, disturbed>>

\* The flag is set: the next packet, or the end.
Sent(t) ==
  /\ pc[t] = "wait" /\ uart_cb_tx_flag
  /\ IF uart_imgsize > 0 THEN pc' = [pc EXCEPT ![t] = "next"] /\ UNCHANGED result
                         ELSE Exit(t, 0)
  /\ UNCHANGED <<mutex_uart, locals, s_cmd_count, uart_cb_tx_flag, tx, out, disturbed>>

NextPacket(t) ==
  /\ Go(t, "next", "packet")
  /\ uart_cb_tx_flag' = FALSE /\ s_cmd_count' = 0
  /\ UNCHANGED <<mutex_uart, locals, tx, result, out, disturbed>>

\* Mutant: a rest shorter than a packet is forgotten.
SendPacketNoRest(t) ==
  /\ pc[t] = "packet"
  /\ \/ /\ uart_imgsize > UART_PACKET_SIZE
        /\ uart_write(t, Chunk(t, uart_cur_pos, UART_PACKET_SIZE))
        /\ uart_cur_pos' = uart_cur_pos + UART_PACKET_SIZE
        /\ uart_imgsize' = IF uart_imgsize >= 2 * UART_PACKET_SIZE THEN uart_imgsize - UART_PACKET_SIZE ELSE 0
     \/ /\ uart_imgsize <= UART_PACKET_SIZE
        /\ uart_write(t, Chunk(t, uart_cur_pos, uart_imgsize))
        /\ uart_imgsize' = 0 /\ UNCHANGED uart_cur_pos
     \/ Refused(t)
  /\ UNCHANGED <<mutex_uart, size, s_cmd_count, uart_cb_tx_flag, out, disturbed>>

\* Mutant: the position is not moved on.
SendPacketStay(t) ==
  /\ pc[t] = "packet"
  /\ \/ /\ uart_imgsize > UART_PACKET_SIZE
        /\ uart_write(t, Chunk(t, uart_cur_pos, UART_PACKET_SIZE))
        /\ uart_cur_pos' = uart_cur_pos
        /\ uart_imgsize' = uart_imgsize - UART_PACKET_SIZE
     \/ /\ uart_imgsize <= UART_PACKET_SIZE
        /\ uart_write(t, Chunk(t, uart_cur_pos, uart_imgsize))
        /\ uart_imgsize' = 0 /\ UNCHANGED uart_cur_pos
     \/ Refused(t)
  /\ UNCHANGED <<mutex_uart, size, s_cmd_count, uart_cb_tx_flag, out, disturbed>>

SendPacket(t) ==
  /\ pc[t] = "packet"
  /\ \/ /\ uart_imgsize > UART_PACKET_SIZE
        /\ uart_write(t, Chunk(t, uart_cur_pos, UART_PACKET_SIZE))
        /\ uart_cur_pos' = uart_cur_pos + UART_PACKET_SIZE
        /\ uart_imgsize' = uart_imgsize - UART_PACKET_SIZE
     \/ /\ uart_imgsize <= UART_PACKET_SIZE
        /\ uart_write(t, Chunk(t, uart_cur_pos, uart_imgsize))
        /\ uart_imgsize' = 0 /\ UNCHANGED uart_cur_pos
     \/ Refused(t)
  /\ UNCHANGED <<mutex_uart, size, s_cmd_count, uart_cb_tx_flag, out, disturbed>>

\* Mutant: the count goes on, and is never compared.
TickForever(t) ==
  /\ pc[t] = "wait" /\ ~uart_cb_tx_flag
  /\ s_cmd_count' = (s_cmd_count + 1) % (TIMEOUT + 1) /\ UNCHANGED <<pc, result>>
  /\ UNCHANGED <<mutex_uart, locals, uart_cb_tx_flag, tx, out, disturbed>>

\* Another millisecond without the flag.
Tick(t) ==
  /\ pc[t] = "wait" /\ ~uart_cb_tx_flag
  /\ s_cmd_count' = s_cmd_count + 1
  /\ IF s_cmd_count' > TIMEOUT THEN Exit(t, -1) ELSE UNCHANGED <<pc, result>>
  /\ UNCHANGED <<mutex_uart, locals, uart_cb_tx_flag, tx, out, disturbed>>

\* The transfer of a call that has timed out stays with the driver.
Give(t) ==
  /\ Go(t, "exit", "client")
  /\ mutex_uart' = IF OS = "FREERTOS" THEN NoTask ELSE mutex_uart
  /\ tx' = [tx EXCEPT !.live = FALSE]
  /\ UNCHANGED <<locals, s_cmd_count, uart_cb_tx_flag, result, out, disturbed>>

\* The driver's transfer is over.
uart_callback_fun_tx ==
  /\ tx # None /\ tx' = None
  /\ uart_cb_tx_flag' = TRUE
  /\ out' = IF tx.live THEN tx.at + tx.len ELSE out
  /\ UNCHANGED <<pc, mutex_uart, locals, s_cmd_count, result, disturbed>>

-----------------------------------------------------------------------------
\* The part of a call that needs neither the mutex nor the driver.
Step(t) ==
  \/ ClearFlag(t) \/ SendHeader(t) \/ Sent(t) \/ NextPacket(t)
  \/ SendPacket(t) \/ Tick(t) \/ Give(t)

Next ==
  \/ \E t \in Task : app_uart_send(t) \/ Take(t) \/ Step(t)
  \/ uart_callback_fun_tx

Spec == Init /\ [][Next]_vars

\* Nothing is assumed of the driver, and of a task below Top only that it goes on
\* while it has Top wait for its mutex: it runs at Top's priority then (module
\* Mutex, HolderOutranks), else it may be kept from the processor for ever.  That
\* Top gets the mutex if it is free again and again is TopGetsMutex there; for any
\* other task the kernel promises nothing of the kind, since another one may take
\* the mutex before a waiter that has been woken for it runs.
FairSpec ==
  /\ Spec
  /\ WF_vars(Step(Top)) /\ SF_vars(Take(Top))
  /\ \A t \in Task : WF_vars(pc[Top] = "lock" /\ Step(t))

-----------------------------------------------------------------------------
(***************************************************************************)
(* Properties                                                              *)
(***************************************************************************)

Inside == {t \in Task : pc[t] \notin {"client", "lock"}}

TypeOK ==
  /\ pc \in [Task -> {"client", "lock", "unflag", "header", "wait", "next", "packet", "exit"}]
  /\ mutex_uart \in Task \union {NoTask}
  /\ size \in Sizes \union {0} /\ uart_imgsize \in 0 .. size /\ uart_cur_pos \in 0 .. size
  /\ s_cmd_count \in 0 .. TIMEOUT + 1 /\ uart_cb_tx_flag \in BOOLEAN
  /\ tx = None \/ (tx.by \in Task /\ tx.at \in Int /\ tx.len \in Nat /\ tx.live \in BOOLEAN)
  /\ result \in [Task -> {0, -1}] /\ out \in -HEADER .. size /\ disturbed \in BOOLEAN

\* Messages stay in one piece: what the driver sends is of the call that owns the
\* mutex, and follows what is out of it, without a gap or a repetition, unless an
\* earlier call that timed out has left it.
InOnePiece == tx # None /\ tx.live =>
  mutex_uart = tx.by /\ (disturbed \/ (tx.at = out /\ tx.at + tx.len <= size))

\* A send that returns 0 has sent all of its message.
SuccessMeansSent == \A t \in Task :
  pc[t] = "exit" /\ result[t] = 0 /\ ~disturbed => out = size

\* Under FreeRTOS the mutex is free when no task is inside of the function,
\* whichever way the last one has left it.
FreeWhenOutside == OS = "FREERTOS" /\ Inside = {} => mutex_uart = NoTask

\* Every send of the highest task returns, whatever the driver does and however
\* often the others send.
SendReturns == OS = "FREERTOS" => (pc[Top] = "lock" ~> pc[Top] = "client")
=============================================================================
