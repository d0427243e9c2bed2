--------------------------- MODULE SpiReadProofs ---------------------------
(***************************************************************************)
(* What is proved of SpiRead for every packet size, timeout and set of     *)
(* announced sizes.  The invariant follows a read from the header to the   *)
(* last packet: the flag is set exactly when the driver is done, what has  *)
(* been stored reaches the position, and position and rest make up the     *)
(* announced size.  It needs nothing about what earlier calls left, since  *)
(* a header can only arrive once the driver is done with that.             *)
(***************************************************************************)
EXTENDS SpiRead, TLAPS

\* A packet is part of what is left, and all of it if it is not a full one.
LEMMA PacketFits ==
  ASSUME s_imgsize \in Nat
  PROVE  /\ Packet \in Nat /\ Packet <= s_imgsize
         /\ s_imgsize - Packet \in Nat
  BY PacketAssumption DEF PacketAssumption, Packet

\* The counts are natural numbers.
LEMMA TickNat ==
  ASSUME waited \in Nat, NEW t \in Nat
  PROVE  Tick(waited, t) \in Nat
  BY DEF Tick

\* A header that is no size is one of the two bad ones.
LEMMA SizesNat == Sizes \subseteq Nat
  BY SizesAssumption DEF SizesAssumption

\* Every variable keeps its type, whatever sizes the host announces
\* (read_simple, spi_slave_protocol.c:148-260).
THEOREM TypeCorrect == Spec => []TypeOK
<1>1. Init => TypeOK
  <2> SUFFICES ASSUME Init PROVE TypeOK
    OBVIOUS
  <2>1. g_rx_buf \in Headers
    BY DEF Init, Headers
  <2>2. rd \in {None, HeaderRead} \union [what : {"data"}, to : Nat, len : Nat]
    BY DEF Init
  <2>3. waited \in Nat /\ s_imgsize \in Nat /\ s_cur_pos \in Nat /\ img_size \in Nat
    BY DEF Init
  <2>4. stored \subseteq Nat /\ raced \in BOOLEAN /\ s_cb_rx_flag \in BOOLEAN
    BY DEF Init
  <2>5. /\ pc \in {"client", "clear", "unflag", "issue", "header", "packet", "data"}
        /\ result \in {"pass", "timeout", "bad_sync", "data_timeout"}
    BY DEF Init
  <2> QED
    BY <2>1, <2>2, <2>3, <2>4, <2>5 DEF TypeOK
<1>2. TypeOK /\ [Next]_vars => TypeOK'
  <2> SUFFICES ASSUME TypeOK, [Next]_vars PROVE TypeOK'
    OBVIOUS
  <2> USE DEF TypeOK
  <2>1. CASE read_simple
    BY <2>1 DEF read_simple
  <2>2. CASE ClearHeader
    BY <2>2 DEF ClearHeader, Headers
  <2>3. CASE ClearFlag
    BY <2>3 DEF ClearFlag
  <2>4. CASE PostHeader
    BY <2>4 DEF PostHeader, spi_read
  <2>5. CASE HeaderTimeout
    <3>1. waited' \in Nat
      BY <2>5, TickNat, TimeAssumption DEF HeaderTimeout, TimeAssumption
    <3> QED
      BY <2>5, <3>1 DEF HeaderTimeout, Leave
  <2>6. CASE HeaderArrived
    <3>1. waited' \in Nat
      BY <2>6, TickNat, TimeAssumption DEF HeaderArrived, TimeAssumption
    <3> QED
      BY <2>6, <3>1, SizesNat DEF HeaderArrived, Leave
  <2>7. CASE PostPacket
    <3>1. rd' \in {rd, DataRead(s_cur_pos, Packet)}
      BY <2>7 DEF PostPacket, spi_read
    <3>2. DataRead(s_cur_pos, Packet) \in [what : {"data"}, to : Nat, len : Nat]
      BY PacketFits DEF DataRead
    <3> QED
      BY <2>7, <3>1, <3>2 DEF PostPacket
  <2>8. CASE PacketTimeout
    <3>1. waited' \in Nat
      BY <2>8, TickNat, TimeAssumption DEF PacketTimeout, TimeAssumption
    <3> QED
      BY <2>8, <3>1 DEF PacketTimeout, Leave
  <2>9. CASE PacketArrived
    BY <2>9, PacketFits DEF PacketArrived, Leave
  <2>10. CASE spi_s_callback_fun_rx
    <3>1. raced' \in BOOLEAN /\ s_cb_rx_flag' = TRUE /\ rd' = None
      BY <2>10 DEF spi_s_callback_fun_rx
    <3>2. g_rx_buf' \in Headers /\ stored' \subseteq Nat
      <4>1. CASE rd.what = "header"
        BY <2>10, <4>1 DEF spi_s_callback_fun_rx
      <4>2. CASE rd.what # "header"
        <5>1. rd \in [what : {"data"}, to : Nat, len : Nat]
          BY <2>10, <4>2 DEF spi_s_callback_fun_rx, HeaderRead
        <5>2. rd.to .. rd.to + rd.len - 1 \subseteq Nat
          BY <5>1
        <5> QED
          BY <2>10, <4>2, <5>2 DEF spi_s_callback_fun_rx
      <4> QED
        BY <4>1, <4>2
    <3> QED
      BY <2>10, <3>1, <3>2 DEF spi_s_callback_fun_rx
  <2>11. CASE UNCHANGED vars
    BY <2>11 DEF vars
  <2> QED
    BY <2>1, <2>2, <2>3, <2>4, <2>5, <2>6, <2>7, <2>8, <2>9, <2>10, <2>11 DEF Next, Reader
<1> QED
  BY <1>1, <1>2, PTL DEF Spec

-----------------------------------------------------------------------------
(* While no transfer raced                                                 *)

\* The flag has been cleared, and a transfer that ended since would have raced.
Posting == pc = "issue" => ~s_cb_rx_flag

\* The flag says that the driver is done.
Header == pc = "header" /\ s_cb_rx_flag => rd = None

Begun == pc \in {"clear", "unflag", "issue", "header"} => s_cur_pos = 0

\* What has been read and what is left make up the announced size.
Progress == pc \in {"packet", "data"} =>
  /\ s_cur_pos + s_imgsize = img_size
  /\ 0 .. s_cur_pos - 1 \subseteq stored

Between == pc = "packet" => rd = None

\* The driver is busy with the packet, or is done and has stored it.
Waiting == pc = "data" =>
  \/ ~s_cb_rx_flag /\ rd = DataRead(s_cur_pos, Packet)
  \/ /\ s_cb_rx_flag /\ rd = None
     /\ s_cur_pos .. s_cur_pos + Packet - 1 \subseteq stored

Returned == pc = "client" =>
  /\ result \in {"pass", "bad_sync"} => rd = None
  /\ result = "pass" => Image \subseteq stored

Undisturbed == Posting /\ Header /\ Progress /\ Between /\ Waiting /\ Returned

Inv == Begun /\ (~raced => Undisturbed)

\* A read follows its header and its packets in step with the driver: the
\* inductive invariant.
THEOREM InvHolds == Spec => []Inv
<1>1. Init => Inv
  BY DEF Init, Inv, Begun, Undisturbed, Posting, Header, Progress, Between, Waiting,
         Returned, Image
<1>2. TypeOK /\ Inv /\ [Next]_vars => Inv'
  <2> SUFFICES ASSUME TypeOK, Inv, [Next]_vars PROVE Begun' /\ (~raced' => Undisturbed')
    BY DEF Inv
  <2> USE DEF Begun, Undisturbed, Posting, Header, Progress, Between, Waiting, Returned
  <2>t. /\ s_imgsize \in Nat /\ s_cur_pos \in Nat /\ img_size \in Nat
        /\ s_cb_rx_flag \in BOOLEAN /\ stored \subseteq Nat
    BY DEF TypeOK
  <2>i. Begun /\ (~raced => Undisturbed)
    BY DEF Inv
  <2>1. CASE read_simple
    BY <2>1 DEF read_simple
  <2>2. CASE ClearHeader
    BY <2>i, <2>2 DEF ClearHeader
  <2>3. CASE ClearFlag
    BY <2>i, <2>3 DEF ClearFlag
  <2>4. CASE PostHeader
    BY <2>i, <2>4 DEF PostHeader
  <2>5. CASE HeaderTimeout
    BY <2>i, <2>5 DEF HeaderTimeout, Leave
  <2>6. CASE HeaderArrived
    <3>1. /\ s_cur_pos = 0 /\ s_cur_pos' = 0 /\ raced' = raced /\ rd' = rd
          /\ ~raced => rd = None
      BY <2>i, <2>6 DEF HeaderArrived
    <3>2. CASE g_rx_buf = -1 /\ pc' = "clear"
      BY <3>1, <3>2
    <3>3. CASE g_rx_buf = -2 /\ Leave("bad_sync")
      BY <3>1, <3>3 DEF Leave
    <3>4. CASE g_rx_buf \in Sizes /\ pc' = "packet" /\ s_imgsize' = g_rx_buf
               /\ img_size' = g_rx_buf
      <4>1. 0 + g_rx_buf = g_rx_buf /\ 0 .. 0 - 1 = {}
        BY <3>4, SizesNat
      <4> QED
        BY <3>1, <3>4, <4>1
    <3> QED
      BY <2>6, <3>2, <3>3, <3>4 DEF HeaderArrived
  <2>7. CASE PostPacket
    <3>1. /\ pc = "packet" /\ pc' = "data" /\ s_cb_rx_flag' = FALSE
          /\ UNCHANGED <<s_imgsize, s_cur_pos, img_size, stored, raced>>
      BY <2>7 DEF PostPacket
    <3>2. Packet' = Packet
      BY <3>1 DEF Packet
    <3>3. rd = None => rd' = DataRead(s_cur_pos, Packet)
      BY <2>7 DEF PostPacket, spi_read
    <3> QED
      BY <2>i, <3>1, <3>2, <3>3
  <2>8. CASE PacketTimeout
    <3>1. /\ pc = "data" /\ UNCHANGED <<s_cb_rx_flag, rd, s_imgsize, s_cur_pos, stored, raced>>
          /\ \/ pc' = "client" /\ result' = "data_timeout"
             \/ pc' = "data" /\ img_size' = img_size
      BY <2>8 DEF PacketTimeout, Leave
    <3>2. Packet' = Packet
      BY <3>1 DEF Packet
    <3> QED
      BY <2>i, <3>1, <3>2
  <2>9. CASE PacketArrived
    <3>1. /\ pc = "data" /\ s_cb_rx_flag
          /\ UNCHANGED <<rd, img_size, stored, raced>>
          /\ s_cur_pos' = s_cur_pos + Packet /\ s_imgsize' = s_imgsize - Packet
      BY <2>9 DEF PacketArrived
    <3>2. /\ Packet \in Nat /\ s_imgsize' \in Nat /\ s_cur_pos' \in Nat
      BY <2>t, <3>1, PacketFits
    <3>3. \/ pc' = "packet"
          \/ pc' = "client" /\ result' = "pass" /\ ~(s_imgsize' > 0)
      BY <2>9 DEF PacketArrived, Leave
    <3>4. ASSUME ~raced
          PROVE  /\ rd = None /\ s_cur_pos' + s_imgsize' = img_size'
                 /\ 0 .. s_cur_pos' - 1 \subseteq stored'
      <4>1. /\ s_cur_pos + s_imgsize = img_size /\ rd = None
            /\ 0 .. s_cur_pos - 1 \subseteq stored
            /\ s_cur_pos .. s_cur_pos + Packet - 1 \subseteq stored
        BY <2>i, <3>1, <3>4
      <4>2. 0 .. s_cur_pos + Packet - 1
              = 0 .. s_cur_pos - 1 \union s_cur_pos .. s_cur_pos + Packet - 1
        BY <2>t, <3>2
      <4> QED
        BY <2>t, <3>1, <3>2, <4>1, <4>2
    <3>5. CASE pc' = "packet"
      BY <3>1, <3>4, <3>5
    <3>6. CASE pc' = "client" /\ result' = "pass" /\ ~(s_imgsize' > 0)
      <4>1. ~raced => s_cur_pos' = img_size'
        BY <2>t, <3>1, <3>2, <3>4, <3>6
      <4> QED
        BY <3>1, <3>4, <3>6, <4>1 DEF Image
    <3> QED
      BY <3>3, <3>5, <3>6
  <2>10. CASE spi_s_callback_fun_rx
    <3>1. /\ rd # None /\ rd' = None /\ s_cb_rx_flag' = TRUE /\ stored \subseteq stored'
          /\ UNCHANGED <<pc, s_imgsize, s_cur_pos, img_size, result>>
      BY <2>10 DEF spi_s_callback_fun_rx
    <3>2. ~raced' => ~raced /\ pc # "issue"
      <4>1. raced' = (raced \/ pc = "issue")
        BY <2>10 DEF spi_s_callback_fun_rx
      <4> QED
        BY <4>1, Zenon
    <3>3. Packet' = Packet /\ Image' = Image
      BY <3>1 DEF Packet, Image
    <3>4. rd = DataRead(s_cur_pos, Packet) =>
            s_cur_pos .. s_cur_pos + Packet - 1 \subseteq stored'
      BY <2>10 DEF spi_s_callback_fun_rx, DataRead
    <3> QED
      BY <2>i, <3>1, <3>2, <3>3, <3>4
  <2>11. CASE UNCHANGED vars
    <3>1. Packet' = Packet /\ Image' = Image
      BY <2>11 DEF vars, Packet, Image
    <3> QED
      BY <2>i, <2>11, <3>1 DEF vars
  <2> QED
    BY <2>1, <2>2, <2>3, <2>4, <2>5, <2>6, <2>7, <2>8, <2>9, <2>10, <2>11 DEF Next, Reader
<1>3. Spec => []TypeOK
  BY TypeCorrect
<1> QED
  BY <1>1, <1>2, <1>3, PTL DEF Spec

\* A read that returns 0 has stored every byte of the announced size, whatever
\* earlier calls left to the driver, unless a transfer raced
\* (spi_slave_protocol.c:256).
THEOREM PassIsStored == Spec => []PassMeansStored
<1>1. Inv => PassMeansStored
  BY DEF Inv, Undisturbed, Returned, PassMeansStored
<1> QED
  BY <1>1, InvHolds, PTL

\* Only a call that timed out leaves the driver writing into its buffer
\* (spi_slave_protocol.c:170 and 219).
THEOREM BufferIsFree == Spec => []BufferFree
<1>1. Inv => BufferFree
  BY DEF Inv, Undisturbed, Returned, BufferFree
<1> QED
  BY <1>1, InvHolds, PTL

\* Once a header has been accepted, the driver writes the packet that is waited
\* for, inside the announced size, and nothing else (spi_slave_protocol.c:199
\* and 207).
THEOREM OnlyOwn == Spec => []OnlyOwnPacket
<1>1. TypeOK /\ Inv => OnlyOwnPacket
  <2> SUFFICES ASSUME TypeOK, Inv, ~raced PROVE OnlyOwnPacket
    BY DEF OnlyOwnPacket
  <2>1. Progress /\ Between /\ Waiting
    BY DEF Inv, Undisturbed
  <2>2. s_imgsize \in Nat /\ s_cur_pos \in Nat /\ img_size \in Nat
    BY DEF TypeOK
  <2>3. ASSUME pc = "data", rd # None
        PROVE  rd = DataRead(s_cur_pos, Packet) /\ s_cur_pos + rd.len <= img_size
    <3>1. rd = DataRead(s_cur_pos, Packet) /\ s_cur_pos + s_imgsize = img_size
      BY <2>1, <2>3 DEF Waiting, Progress
    <3>2. rd.len = Packet
      BY <3>1 DEF DataRead
    <3> QED
      BY <2>2, <3>1, <3>2, PacketFits
  <2> QED
    BY <2>1, <2>3 DEF Between, OnlyOwnPacket
<1> QED
  BY <1>1, InvHolds, TypeCorrect, PTL
=============================================================================
