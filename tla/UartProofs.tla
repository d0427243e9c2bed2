----------------------------- MODULE UartProofs -----------------------------
(***************************************************************************)
(* Uart keeps every message in one piece, for any number of tasks, every   *)
(* packet size, timeout and size of messages, and both operating systems.  *)
(***************************************************************************)
EXTENDS Uart, TLAPS

-----------------------------------------------------------------------------
(* The inductive invariant                                                 *)

Transfers == [by : Task \cup {NoTask}, at : Int, len : Nat, live : BOOLEAN]

\* TypeOK, but for the bounds that the next parts add.
Types ==
  /\ pc \in [Task -> {"client", "lock", "unflag", "header", "wait", "next", "packet", "exit"}]
  /\ mutex_uart \in Task \cup {NoTask}
  /\ size \in Sizes \cup {0} /\ size \in Nat
  /\ uart_imgsize \in 0 .. size /\ uart_cur_pos \in 0 .. size
  /\ s_cmd_count \in 0 .. TIMEOUT + 1 /\ uart_cb_tx_flag \in BOOLEAN
  /\ tx \in Transfers /\ (tx.by = NoTask => tx = None)
  /\ result \in [Task -> {0, -1}] /\ out \in Int /\ disturbed \in BOOLEAN

\* Only the owner of the mutex is inside.
Exclusive ==
  /\ \A t \in Inside : mutex_uart = t
  /\ FreeWhenOutside

\* What is out and what has been posted of the message, for the call that is inside.
Bounds ==
  /\ uart_imgsize > 0 => uart_cur_pos + uart_imgsize = size
  /\ out \in -HEADER .. size
  /\ tx.live => /\ tx.by = mutex_uart /\ mutex_uart \in Inside
                /\ tx.at \in -HEADER .. size /\ tx.at + tx.len \in 0 .. size

\* The driver has the last piece that has been posted, and nothing is missing before.
Sending == tx.live /\ tx.at = out /\ tx.at + tx.len = size - uart_imgsize
Idle    == tx = None /\ out = size - uart_imgsize

Place(t) ==
  /\ pc[t] # "exit" => s_cmd_count <= TIMEOUT
  /\ pc[t] \in {"unflag", "header"} => 
       uart_imgsize = size /\ uart_cur_pos = 0 /\ out = -HEADER /\ ~tx.live
  /\ pc[t] \in {"next", "packet"} => uart_imgsize > 0
  /\ ~disturbed =>
       /\ pc[t] \in {"unflag", "header"} => tx = None
       /\ pc[t] \in {"header", "packet"} => ~uart_cb_tx_flag
       /\ pc[t] = "wait" => IF uart_cb_tx_flag THEN Idle ELSE Sending
       /\ pc[t] \in {"next", "packet"} => Idle
       /\ pc[t] = "exit" /\ result[t] = 0 => Idle /\ uart_imgsize = 0
       /\ pc[t] = "exit" /\ result[t] = -1 => tx = None \/ Sending

IInv == Types /\ Exclusive /\ Bounds /\ \A t \in Inside : Place(t)

-----------------------------------------------------------------------------
LEMMA Initially == Init => IInv
<1> SUFFICES ASSUME Init PROVE IInv OBVIOUS
<1>1. Inside = {} BY DEF Init, Inside
<1>2. tx \in Transfers /\ tx = None /\ ~tx.live BY DEF Init, Transfers, None
<1>3. Types
  <2>1. pc \in [Task -> {"client", "lock", "unflag", "header", "wait", "next", "packet", "exit"}]
    BY DEF Init
  <2>2. result \in [Task -> {0, -1}] BY DEF Init
  <2>3. /\ size \in Nat /\ uart_imgsize \in 0 .. size /\ uart_cur_pos \in 0 .. size
        /\ s_cmd_count \in 0 .. TIMEOUT + 1 /\ out \in Int
    BY UartAssumption, SMT DEF Init
  <2> QED BY <1>2, <2>1, <2>2, <2>3 DEF Init, Types
<1>4. Exclusive BY <1>1 DEF Init, Exclusive, FreeWhenOutside
<1>5. Bounds BY <1>2, SMT DEF Init, Bounds, HEADER
<1> QED BY <1>1, <1>3, <1>4, <1>5 DEF IInv

LEMMA ThreeProperties == IInv => TypeOK /\ InOnePiece /\ SuccessMeansSent /\ FreeWhenOutside
<1> SUFFICES ASSUME IInv PROVE TypeOK /\ InOnePiece /\ SuccessMeansSent /\ FreeWhenOutside OBVIOUS
<1>1. TypeOK BY SMT DEF IInv, Types, Transfers, Bounds, TypeOK, None
<1>2. InOnePiece
  <2> SUFFICES ASSUME tx.live, tx # None
               PROVE  mutex_uart = tx.by /\ (disturbed \/ (tx.at = out /\ tx.at + tx.len <= size))
    BY DEF InOnePiece
  <2>1. mutex_uart = tx.by /\ mutex_uart \in Inside /\ tx.at + tx.len \in 0 .. size
    BY DEF IInv, Bounds
  <2>2. CASE disturbed BY <2>1, <2>2
  <2>3. CASE ~disturbed
    <3>1. Place(mutex_uart) BY <2>1 DEF IInv
    <3>2. pc[mutex_uart] \in {"unflag", "header", "wait", "next", "packet", "exit"}
          /\ result[mutex_uart] \in {0, -1}
      BY <2>1 DEF IInv, Types, Inside
    <3>3. tx.at = out BY <2>3, <3>1, <3>2 DEF Place, Sending, Idle
    <3> QED BY <2>1, <3>3, UartAssumption, SMT DEF IInv, Types
  <2> QED BY <2>2, <2>3
<1>3. SuccessMeansSent
  <2> SUFFICES ASSUME NEW t \in Task, pc[t] = "exit", result[t] = 0, ~disturbed PROVE out = size
    BY DEF SuccessMeansSent
  <2>1. Place(t) BY DEF IInv, Inside
  <2> QED BY <2>1, SMT DEF IInv, Types, Place, Idle
<1>4. FreeWhenOutside BY DEF IInv, Exclusive
<1> QED BY <1>1, <1>2, <1>3, <1>4

\* Who moves inside is the only one there, before and after.
LEMMA Alone ==
  ASSUME IInv, NEW t \in Task, NEW p, pc' = [pc EXCEPT ![t] = p],
         mutex_uart' = t \/ (mutex_uart' = mutex_uart /\ t \in Inside),
         mutex_uart \in {t, NoTask}
  PROVE  \A u \in Inside' : u = t
BY NoTaskAssumption DEF IInv, Types, Exclusive, Inside

\* A move inside keeps the mutex and needs to show only what the mover's new place says.
LEMMA MoveInside ==
  ASSUME IInv, NEW t \in Inside, t \in Inside', NEW p, pc' = [pc EXCEPT ![t] = p],
         mutex_uart' = mutex_uart, Types', Bounds', Place(t)'
  PROVE  IInv'
<1>1. t \in Task /\ mutex_uart = t BY DEF Inside, IInv, Exclusive
<1>2. \A u \in Inside' : u = t BY <1>1, Alone
<1>3. Exclusive' BY <1>1, <1>2 DEF Exclusive, FreeWhenOutside
<1> QED BY <1>2, <1>3 DEF IInv

LEMMA CallKeeps == ASSUME IInv, NEW t \in Task, app_uart_send(t) PROVE IInv'
<1>1. Inside' = Inside BY DEF app_uart_send, Go, Inside, IInv, Types
<1>2. \A u \in Inside : pc'[u] = pc[u] BY DEF app_uart_send, Go, Inside, IInv, Types
<1>3. Types' BY DEF app_uart_send, Go, locals, IInv, Types
<1>4. Exclusive' /\ Bounds'
  BY <1>1 DEF app_uart_send, locals, IInv, Exclusive, FreeWhenOutside, Bounds
<1>5. \A u \in Inside' : Place(u)'
  BY <1>1, <1>2 DEF app_uart_send, locals, IInv, Place, Sending, Idle
<1> QED BY <1>3, <1>4, <1>5 DEF IInv

LEMMA TakeKeeps == ASSUME IInv, NEW t \in Task, Take(t) PROVE IInv'
<1>1. mutex_uart \in {t, NoTask} /\ mutex_uart' = t /\ pc' = [pc EXCEPT ![t] = "unflag"] /\ pc[t] = "lock"
  BY DEF Take, Go
<1>2. \A u \in Inside' : u = t BY <1>1, Alone
<1>3. t \in Inside' BY <1>1 DEF Inside, IInv, Types
<1>4. ~tx.live BY <1>1, NoTaskAssumption DEF IInv, Bounds, Types, Transfers, Inside
<1>5. Types'
  <2>1. size' \in Sizes /\ size' \in Nat /\ uart_imgsize' = size' /\ uart_cur_pos' = 0
    BY UartAssumption DEF Take
  <2>2. pc' \in [Task -> {"client", "lock", "unflag", "header", "wait", "next", "packet", "exit"}]
    BY <1>1 DEF IInv, Types
  <2>3. s_cmd_count' \in 0 .. TIMEOUT + 1 /\ out' \in Int BY UartAssumption, SMT DEF Take, HEADER
  <2>4. disturbed' \in BOOLEAN BY DEF Take
  <2>5. uart_imgsize' \in 0 .. size' /\ uart_cur_pos' \in 0 .. size' BY <2>1, SMT
  <2> QED BY <1>1, <2>1, <2>2, <2>3, <2>4, <2>5 DEF Take, IInv, Types
<1>6. Exclusive' BY <1>1, <1>2, <1>3 DEF Exclusive, FreeWhenOutside
<1>7. Bounds'
  <2>1. ~tx'.live BY <1>4 DEF Take
  <2>2. size' \in Nat /\ uart_imgsize' = size' /\ uart_cur_pos' = 0 /\ out' = -7
    BY UartAssumption DEF Take, HEADER
  <2>3. \A s \in Nat : 0 + s = s /\ -7 \in -7 .. s BY SMT
  <2>4. uart_cur_pos' + uart_imgsize' = size' /\ out' \in -7 .. size' BY ONLY <2>2, <2>3, Zenon
  <2> QED BY <2>1, <2>4 DEF Bounds, HEADER
<1>8. Place(t)'
  <2>1. pc'[t] = "unflag" BY <1>1 DEF IInv, Types
  <2>2. ~disturbed' => tx' = None BY DEF Take
  <2>3. s_cmd_count' <= TIMEOUT BY UartAssumption, SMT DEF Take
  <2> QED BY <1>4, <2>1, <2>2, <2>3 DEF Take, Place
<1> QED BY <1>2, <1>5, <1>6, <1>7, <1>8 DEF IInv

LEMMA ClearFlagKeeps == ASSUME IInv, NEW t \in Task, ClearFlag(t) PROVE IInv'
<1>1. pc[t] = "unflag" /\ pc' = [pc EXCEPT ![t] = "header"] /\ mutex_uart' = mutex_uart
  BY DEF ClearFlag, Go
<1>2. t \in Inside /\ t \in Inside' /\ pc'[t] = "header" BY <1>1 DEF Inside, IInv, Types
<1>3. Types' BY <1>1 DEF ClearFlag, locals, IInv, Types
<1>4. mutex_uart = t BY <1>2 DEF IInv, Exclusive
<1>5. Bounds' BY <1>2, <1>4 DEF ClearFlag, locals, IInv, Bounds
<1>6. Place(t)' BY <1>1, <1>2 DEF ClearFlag, locals, IInv, Place
<1> QED BY <1>1, <1>2, <1>3, <1>5, <1>6, MoveInside

LEMMA SendHeaderKeeps == ASSUME IInv, NEW t \in Task, SendHeader(t) PROVE IInv'
<1>1. pc[t] = "header" /\ mutex_uart' = mutex_uart BY DEF SendHeader
<1>2. t \in Inside /\ mutex_uart = t BY <1>1 DEF Inside, IInv, Exclusive
<1>3. Place(t) BY <1>2 DEF IInv
<1>4. CASE uart_write(t, Chunk(t, -HEADER, HEADER)) /\ UNCHANGED <<uart_imgsize, uart_cur_pos>>
  <2>1. pc' = [pc EXCEPT ![t] = "wait"] BY <1>4 DEF uart_write
  <2>2. t \in Inside' /\ pc'[t] = "wait" BY <2>1 DEF Inside, IInv, Types
  <2>3. tx' = [by |-> t, at |-> -7, len |-> 7, live |-> TRUE] BY <1>4 DEF uart_write, Chunk, HEADER
  <2>4. Types'
    <3>1. tx' \in Transfers /\ tx'.by # NoTask BY <2>3, NoTaskAssumption DEF Transfers
    <3>2. pc' \in [Task -> {"client", "lock", "unflag", "header", "wait", "next", "packet", "exit"}]
      BY <2>1 DEF IInv, Types
    <3> QED BY <1>4, <3>1, <3>2 DEF SendHeader, uart_write, IInv, Types
  <2>5. Bounds' BY <1>2, <1>4, <2>2, <2>3, SMT DEF SendHeader, IInv, Types, Bounds, HEADER
  <2>6. Place(t)'
    <3>1. uart_imgsize = size /\ out = -7 /\ s_cmd_count <= TIMEOUT BY <1>1, <1>3 DEF Place, HEADER
    <3>2. uart_imgsize' = size' /\ out' = -7 /\ s_cmd_count' <= TIMEOUT
      BY <1>4, <3>1 DEF SendHeader
    <3>3. ~disturbed' => ~uart_cb_tx_flag' BY <1>1, <1>3 DEF SendHeader, Place
    <3>4. Sending'
      <4>1. tx'.live /\ tx'.at = -7 /\ tx'.len = 7 BY <2>3
      <4>2. size' \in Nat BY <2>4 DEF Types
      <4>3. -7 + 7 = 0 /\ \A s \in Nat : s - s = 0 BY SMT
      <4>4. tx'.at + tx'.len = size' - uart_imgsize' BY ONLY <3>2, <4>1, <4>2, <4>3, Zenon
      <4> QED BY <3>2, <4>1, <4>4 DEF Sending
    <3> QED BY <2>2, <3>2, <3>3, <3>4 DEF Place
  <2> QED BY <1>1, <1>2, <2>1, <2>2, <2>4, <2>5, <2>6, MoveInside
<1>5. CASE Refused(t)
  <2>1. pc' = [pc EXCEPT ![t] = "exit"] BY <1>5 DEF Refused, Exit
  <2>2. t \in Inside' /\ pc'[t] = "exit" BY <2>1 DEF Inside, IInv, Types
  <2>3. Types' /\ result'[t] = -1 BY <1>5, <2>1 DEF SendHeader, Refused, Exit, IInv, Types
  <2>4. Bounds' BY <1>2, <1>5, <2>2 DEF SendHeader, Refused, IInv, Bounds
  <2>5. Place(t)' BY <1>1, <1>3, <1>5, <2>2, <2>3 DEF SendHeader, Refused, Place
  <2> QED BY <1>1, <1>2, <2>1, <2>2, <2>3, <2>4, <2>5, MoveInside
<1> QED BY <1>4, <1>5 DEF SendHeader

LEMMA SentKeeps == ASSUME IInv, NEW t \in Task, Sent(t) PROVE IInv'
<1>1. pc[t] = "wait" /\ uart_cb_tx_flag /\ mutex_uart' = mutex_uart BY DEF Sent
<1>2. t \in Inside /\ mutex_uart = t BY <1>1 DEF Inside, IInv, Exclusive
<1>3. Place(t) BY <1>2 DEF IInv
<1>4. CASE uart_imgsize > 0
  <2>1. pc' = [pc EXCEPT ![t] = "next"] /\ result' = result BY <1>4 DEF Sent
  <2>2. t \in Inside' /\ pc'[t] = "next" BY <2>1 DEF Inside, IInv, Types
  <2>3. Types' BY <2>1 DEF Sent, locals, IInv, Types
  <2>4. Bounds' BY <1>2, <2>2 DEF Sent, locals, IInv, Bounds
  <2>5. Place(t)' BY <1>1, <1>3, <1>4, <2>2 DEF Sent, locals, Place, Idle
  <2> QED BY <1>1, <1>2, <2>1, <2>2, <2>3, <2>4, <2>5, MoveInside
<1>5. CASE ~(uart_imgsize > 0)
  <2>1. pc' = [pc EXCEPT ![t] = "exit"] /\ result' = [result EXCEPT ![t] = 0]
    BY <1>5 DEF Sent, Exit
  <2>2. t \in Inside' /\ pc'[t] = "exit" BY <2>1 DEF Inside, IInv, Types
  <2>3. Types' BY <2>1 DEF Sent, locals, IInv, Types
  <2>4. Bounds' BY <1>2, <2>2 DEF Sent, locals, IInv, Bounds
  <2>5. uart_imgsize = 0 BY <1>5, SMT DEF IInv, Types
  <2>6. result'[t] = 0 BY <2>1 DEF IInv, Types
  <2>7. Place(t)' BY <1>1, <1>3, <2>2, <2>5, <2>6 DEF Sent, locals, Place, Idle
  <2> QED BY <1>1, <1>2, <2>1, <2>2, <2>3, <2>4, <2>7, MoveInside
<1> QED BY <1>4, <1>5

LEMMA NextPacketKeeps == ASSUME IInv, NEW t \in Task, NextPacket(t) PROVE IInv'
<1>1. pc[t] = "next" /\ pc' = [pc EXCEPT ![t] = "packet"] /\ mutex_uart' = mutex_uart
  BY DEF NextPacket, Go
<1>2. t \in Inside /\ mutex_uart = t BY <1>1 DEF Inside, IInv, Exclusive
<1>3. t \in Inside' /\ pc'[t] = "packet" BY <1>1, <1>2 DEF Inside, IInv, Types
<1>4. s_cmd_count' \in 0 .. TIMEOUT + 1 /\ s_cmd_count' <= TIMEOUT BY UartAssumption, SMT DEF NextPacket
<1>5. Types' BY <1>1, <1>4 DEF NextPacket, locals, IInv, Types
<1>6. Bounds' BY <1>2, <1>3 DEF NextPacket, locals, IInv, Bounds
<1>7. Place(t)
  BY <1>2 DEF IInv
<1>8. Place(t)' BY <1>1, <1>3, <1>4, <1>7 DEF NextPacket, locals, Place, Idle
<1> QED BY <1>1, <1>2, <1>3, <1>5, <1>6, <1>8, MoveInside

\* A packet of n bytes is posted, and r bytes are left.
LEMMA PostPacket ==
  ASSUME IInv, NEW t \in Task, SendPacket(t), NEW n \in Nat, NEW r \in Nat,
         uart_write(t, Chunk(t, uart_cur_pos, n)), uart_imgsize' = r, uart_imgsize = n + r,
         r > 0 => uart_cur_pos' = uart_cur_pos + n, uart_cur_pos' \in 0 .. size
  PROVE  IInv'
<1>1. pc[t] = "packet" /\ mutex_uart' = mutex_uart /\ pc' = [pc EXCEPT ![t] = "wait"]
  BY DEF SendPacket, uart_write
<1>2. t \in Inside /\ mutex_uart = t BY <1>1 DEF Inside, IInv, Exclusive
<1>3. t \in Inside' /\ pc'[t] = "wait" BY <1>1, <1>2 DEF Inside, IInv, Types
<1>4. Place(t) BY <1>2 DEF IInv
<1>5. /\ size \in Nat /\ size' = size /\ out' = out /\ uart_cur_pos \in 0 .. size
      /\ uart_cur_pos + uart_imgsize = size /\ disturbed' = disturbed
      /\ uart_cb_tx_flag' = uart_cb_tx_flag /\ s_cmd_count' = s_cmd_count
  BY <1>1, <1>4 DEF SendPacket, IInv, Types, Bounds, Place
<1>6. tx'.by = t /\ tx'.at = uart_cur_pos /\ tx'.len = n /\ tx'.live BY DEF uart_write, Chunk
<1>7. tx'.at \in 0 .. size' /\ tx'.at + tx'.len \in 0 .. size' /\ tx'.at \in -7 .. size'
      /\ tx'.at + tx'.len = size' - uart_imgsize'
      /\ (uart_imgsize' > 0 => uart_cur_pos' + uart_imgsize' = size') /\ uart_imgsize' \in 0 .. size'
  <2>1. n \in Nat /\ r \in Nat /\ uart_cur_pos + (n + r) = size /\ uart_imgsize' = r BY <1>5
  <2>2. \A s, p \in Nat : p + (n + r) = s =>
          /\ p \in 0 .. s /\ p + n \in 0 .. s /\ p \in -7 .. s /\ p + n = s - r
          /\ (p + n) + r = s /\ r \in 0 .. s
    BY SMT
  <2>3. uart_cur_pos \in Nat BY <1>5, SMT
  <2>4. /\ uart_cur_pos \in 0 .. size /\ uart_cur_pos + n \in 0 .. size /\ uart_cur_pos \in -7 .. size
        /\ uart_cur_pos + n = size - r /\ (uart_cur_pos + n) + r = size /\ r \in 0 .. size
    BY <1>5, <2>1, <2>2, <2>3
  <2> QED BY ONLY <1>5, <1>6, <2>1, <2>4, r > 0 => uart_cur_pos' = uart_cur_pos + n, Zenon
<1>8. Types'
  <2>1. pc' \in [Task -> {"client", "lock", "unflag", "header", "wait", "next", "packet", "exit"}]
    BY <1>1 DEF IInv, Types
  <2>2. tx' \in Transfers
    <3>1. tx' = [by |-> t, at |-> uart_cur_pos, len |-> n, live |-> TRUE] BY DEF uart_write, Chunk
    <3>2. uart_cur_pos \in Int BY <1>5
    <3> QED BY <3>1, <3>2 DEF Transfers
  <2>3. tx'.by # NoTask BY <1>6, NoTaskAssumption
  <2> QED BY <1>1, <1>5, <1>7, <2>1, <2>2, <2>3 DEF uart_write, IInv, Types
<1>9. Bounds' BY <1>1, <1>2, <1>3, <1>5, <1>6, <1>7 DEF IInv, Bounds, HEADER
<1>10. Place(t)'
  <2>1. s_cmd_count' <= TIMEOUT BY <1>1, <1>4, <1>5 DEF Place
  <2>2. ~disturbed' => ~uart_cb_tx_flag' /\ out' = size - (n + r)
    BY <1>1, <1>4, <1>5 DEF Place, Idle
  <2>3. size - (n + r) = uart_cur_pos BY <1>5, SMT
  <2>4. ~disturbed' => ~uart_cb_tx_flag' /\ Sending' BY <1>6, <1>7, <2>2, <2>3 DEF Sending
  <2> QED BY <1>3, <2>1, <2>4 DEF Place
<1> QED BY <1>1, <1>2, <1>3, <1>8, <1>9, <1>10, MoveInside

LEMMA SendPacketKeeps == ASSUME IInv, NEW t \in Task, SendPacket(t) PROVE IInv'
<1>1. pc[t] = "packet" /\ mutex_uart' = mutex_uart BY DEF SendPacket
<1>2. t \in Inside /\ mutex_uart = t BY <1>1 DEF Inside, IInv, Exclusive
<1>3. Place(t) BY <1>2 DEF IInv
<1>4. /\ uart_imgsize \in Nat /\ size \in Nat /\ uart_cur_pos \in 0 .. size
      /\ UART_PACKET_SIZE \in Nat /\ uart_cur_pos + uart_imgsize = size
  BY <1>1, <1>3, UartAssumption, SMT DEF IInv, Types, Bounds, Place
<1>5. CASE /\ uart_imgsize > UART_PACKET_SIZE
           /\ uart_write(t, Chunk(t, uart_cur_pos, UART_PACKET_SIZE))
           /\ uart_cur_pos' = uart_cur_pos + UART_PACKET_SIZE
           /\ uart_imgsize' = uart_imgsize - UART_PACKET_SIZE
  <2> DEFINE r == uart_imgsize - UART_PACKET_SIZE
  <2>1. r \in Nat /\ uart_imgsize = UART_PACKET_SIZE + r /\ uart_cur_pos' \in 0 .. size
    BY <1>4, <1>5, SMT
  <2> QED BY <1>4, <1>5, <2>1, PostPacket
<1>6. CASE /\ uart_imgsize <= UART_PACKET_SIZE
           /\ uart_write(t, Chunk(t, uart_cur_pos, uart_imgsize))
           /\ uart_imgsize' = 0 /\ UNCHANGED uart_cur_pos
  <2>1. 0 \in Nat /\ uart_imgsize = uart_imgsize + 0 /\ ~(0 > 0) BY <1>4, SMT
  <2> QED BY <1>4, <1>6, <2>1, PostPacket
<1>7. CASE Refused(t)
  <2>1. pc' = [pc EXCEPT ![t] = "exit"] BY <1>7 DEF Refused, Exit
  <2>2. t \in Inside' /\ pc'[t] = "exit" BY <1>2, <2>1 DEF Inside, IInv, Types
  <2>3. Types' /\ result'[t] = -1 BY <1>7, <2>1 DEF SendPacket, Refused, Exit, IInv, Types
  <2>4. Bounds' BY <1>2, <1>7, <2>2 DEF SendPacket, Refused, IInv, Bounds
  <2>5. Place(t)' BY <1>1, <1>3, <1>7, <2>2, <2>3 DEF SendPacket, Refused, Place, Idle
  <2> QED BY <1>1, <1>2, <2>1, <2>2, <2>3, <2>4, <2>5, MoveInside
<1> QED BY <1>5, <1>6, <1>7 DEF SendPacket

LEMMA TickKeeps == ASSUME IInv, NEW t \in Task, Tick(t) PROVE IInv'
<1>1. pc[t] = "wait" /\ ~uart_cb_tx_flag /\ mutex_uart' = mutex_uart /\ s_cmd_count' = s_cmd_count + 1
  BY DEF Tick
<1>2. t \in Inside /\ mutex_uart = t BY <1>1 DEF Inside, IInv, Exclusive
<1>3. Place(t) BY <1>2 DEF IInv
<1>4. s_cmd_count' \in 0 .. TIMEOUT + 1
  BY <1>1, <1>3, UartAssumption, SMT DEF IInv, Types, Place
<1>5. CASE s_cmd_count' > TIMEOUT
  <2>1. pc' = [pc EXCEPT ![t] = "exit"] /\ result' = [result EXCEPT ![t] = -1] BY <1>5 DEF Tick, Exit
  <2>2. t \in Inside' /\ pc'[t] = "exit" BY <1>2, <2>1 DEF Inside, IInv, Types
  <2>3. Types' /\ result'[t] = -1 BY <1>4, <2>1 DEF Tick, locals, IInv, Types
  <2>4. Bounds' BY <1>2, <2>2 DEF Tick, locals, IInv, Bounds
  <2>5. ~disturbed' => Sending' BY <1>1, <1>3 DEF Tick, locals, Place, Sending
  <2>6. Place(t)' BY <2>2, <2>3, <2>5 DEF Place
  <2> QED BY <1>1, <1>2, <2>1, <2>2, <2>3, <2>4, <2>6, MoveInside
<1>6. CASE ~(s_cmd_count' > TIMEOUT)
  <2>1. pc' = pc /\ result' = result BY <1>6 DEF Tick
  <2>2. pc' = [pc EXCEPT ![t] = "wait"] /\ pc'[t] = "wait" /\ t \in Inside'
    BY <1>1, <1>2, <2>1 DEF Inside, IInv, Types
  <2>3. Types' BY <1>4, <2>1 DEF Tick, locals, IInv, Types
  <2>4. Bounds' BY <1>2, <2>2 DEF Tick, locals, IInv, Bounds
  <2>5. s_cmd_count' <= TIMEOUT BY <1>4, <1>6, UartAssumption, SMT
  <2>6. ~disturbed' => ~uart_cb_tx_flag' /\ Sending'
    BY <1>1, <1>3 DEF Tick, locals, Place, Sending
  <2>7. Place(t)' BY <2>2, <2>5, <2>6 DEF Place
  <2> QED BY <1>1, <1>2, <2>2, <2>3, <2>4, <2>7, MoveInside
<1> QED BY <1>5, <1>6

LEMMA GiveKeeps == ASSUME IInv, NEW t \in Task, Give(t) PROVE IInv'
<1>1. /\ pc[t] = "exit" /\ pc' = [pc EXCEPT ![t] = "client"]
      /\ mutex_uart' = IF OS = "FREERTOS" THEN NoTask ELSE mutex_uart
      /\ tx' = [tx EXCEPT !.live = FALSE]
  BY DEF Give, Go
<1>2. t \in Inside /\ mutex_uart = t BY <1>1 DEF Inside, IInv, Exclusive
<1>3. Inside' = {}
  <2>1. \A u \in Inside : u = t BY <1>2 DEF IInv, Exclusive
  <2> QED BY <1>1, <2>1 DEF Inside, IInv, Types
<1>4. tx' \in Transfers /\ ~tx'.live /\ (tx'.by = NoTask => tx' = None)
  <2>1. tx \in Transfers BY DEF IInv, Types
  <2>2. tx' \in Transfers /\ ~tx'.live /\ tx'.by = tx.by BY <1>1, <2>1 DEF Transfers
  <2>3. ASSUME tx = None PROVE tx' = None
    <3>1. tx' = [[by |-> NoTask, at |-> 0, len |-> 0, live |-> FALSE] EXCEPT !.live = FALSE]
      BY <1>1, <2>3 DEF None
    <3> QED BY <3>1 DEF None
  <2> QED BY <2>2, <2>3 DEF IInv, Types
<1>5. Types' BY <1>1, <1>2, <1>4 DEF Give, locals, IInv, Types
<1>6. Exclusive' BY <1>1, <1>3 DEF Exclusive, FreeWhenOutside
<1>7. Bounds' BY <1>4 DEF Give, locals, IInv, Bounds
<1> QED BY <1>3, <1>5, <1>6, <1>7 DEF IInv

LEMMA CallbackKeeps == ASSUME IInv, uart_callback_fun_tx PROVE IInv'
<1>1. tx # None /\ tx' = None /\ uart_cb_tx_flag' = TRUE
      /\ out' = (IF tx.live THEN tx.at + tx.len ELSE out)
  BY DEF uart_callback_fun_tx
<1>2. Inside' = Inside BY DEF uart_callback_fun_tx, Inside
<1>3. ~None.live /\ None.by = NoTask /\ None \in Transfers BY DEF None, Transfers
<1>4. out' \in -HEADER .. size /\ out' \in Int
  BY <1>1, SMT DEF IInv, Types, Bounds, HEADER
<1>5. Types' BY <1>1, <1>3, <1>4 DEF uart_callback_fun_tx, locals, IInv, Types
<1>6. Exclusive' BY <1>2 DEF uart_callback_fun_tx, IInv, Exclusive, FreeWhenOutside
<1>7. Bounds' BY <1>1, <1>3, <1>4 DEF uart_callback_fun_tx, locals, IInv, Bounds
<1>8. ASSUME NEW t \in Inside PROVE Place(t)'
  <2>1. Place(t) /\ pc' = pc /\ result' = result /\ disturbed' = disturbed
    BY DEF IInv, uart_callback_fun_tx
  <2>2. /\ uart_imgsize' = uart_imgsize /\ size' = size /\ uart_cur_pos' = uart_cur_pos
        /\ s_cmd_count' = s_cmd_count
    BY DEF uart_callback_fun_tx, locals
  <2>3. CASE disturbed
    <3>1. pc[t] \in {"unflag", "header"} => out' = out
      BY <1>1, <2>1 DEF Place
    <3>2. ~tx'.live BY <1>1, <1>3
    <3> QED BY <2>1, <2>2, <2>3, <3>1, <3>2 DEF Place
  <2>4. CASE ~disturbed
    <3>1. Sending => Idle' BY <1>1, <2>2 DEF Sending, Idle
    <3>2. ~tx'.live BY <1>1, <1>3
    <3>3. pc[t] \in {"unflag", "header", "next", "packet"} => FALSE BY <1>1, <2>1, <2>4 DEF Place, Idle
    <3> QED BY <1>1, <2>1, <2>2, <2>4, <3>1, <3>2, <3>3 DEF Place, Idle
  <2> QED BY <2>3, <2>4
<1> QED BY <1>2, <1>5, <1>6, <1>7, <1>8 DEF IInv

LEMMA Inductive == IInv /\ [Next]_vars => IInv'
<1> SUFFICES ASSUME IInv, [Next]_vars PROVE IInv' OBVIOUS
<1>1. ASSUME NEW t \in Task, app_uart_send(t) PROVE IInv' BY <1>1, CallKeeps
<1>2. ASSUME NEW t \in Task, Take(t) PROVE IInv' BY <1>2, TakeKeeps
<1>3. ASSUME NEW t \in Task, ClearFlag(t) PROVE IInv' BY <1>3, ClearFlagKeeps
<1>4. ASSUME NEW t \in Task, SendHeader(t) PROVE IInv' BY <1>4, SendHeaderKeeps
<1>5. ASSUME NEW t \in Task, Sent(t) PROVE IInv' BY <1>5, SentKeeps
<1>6. ASSUME NEW t \in Task, NextPacket(t) PROVE IInv' BY <1>6, NextPacketKeeps
<1>7. ASSUME NEW t \in Task, SendPacket(t) PROVE IInv' BY <1>7, SendPacketKeeps
<1>8. ASSUME NEW t \in Task, Tick(t) PROVE IInv' BY <1>8, TickKeeps
<1>9. ASSUME NEW t \in Task, Give(t) PROVE IInv' BY <1>9, GiveKeeps
<1>10. CASE uart_callback_fun_tx BY <1>10, CallbackKeeps
<1>11. CASE UNCHANGED vars
  BY <1>11 DEF vars, locals, IInv, Types, Exclusive, FreeWhenOutside, Inside, Bounds, Place, Sending, Idle
<1> QED
  BY <1>1, <1>2, <1>3, <1>4, <1>5, <1>6, <1>7, <1>8, <1>9, <1>10, <1>11 DEF Next, Step

LEMMA AlwaysIInv == Spec => []IInv
<1> QED BY Initially, Inductive, PTL DEF Spec

-----------------------------------------------------------------------------
\* The variables keep their types: the position and the rest of a message stay
\* within it, and the count of milliseconds does not pass the timeout by more
\* than one.
THEOREM TypeCorrect == Spec => []TypeOK
<1> QED BY AlwaysIInv, ThreeProperties, PTL

\* However the calls of app_uart_send, the interrupts of the driver and the
\* timeouts interleave, what the driver sends is the next piece of the message
\* whose call owns the mutex, unless a transfer was left behind by a timeout.
THEOREM StaysInOnePiece == Spec => []InOnePiece
<1> QED BY AlwaysIInv, ThreeProperties, PTL

\* A send that returns 0 has sent all of its message, with the same exception.
THEOREM SuccessIsSent == Spec => []SuccessMeansSent
<1> QED BY AlwaysIInv, ThreeProperties, PTL

\* No error path of app_uart_send keeps the mutex, under FreeRTOS.
THEOREM FreeOutside == Spec => []FreeWhenOutside
<1> QED BY AlwaysIInv, ThreeProperties, PTL
=============================================================================
