------------------------------ MODULE SpiRead ------------------------------
(***************************************************************************)
(* hx_drv_spi_slv_protocol_read_simple of                                  *)
(* platform/peripheral/spi_s/spi_slave_protocol.c, which shares no state   *)
(* with the writes of SpiSlave: it posts reads of a header until one       *)
(* begins with the sync byte, then reads the announced size in packets to  *)
(* SRAM_addr (the build with DIRECT_TO_SRAM).  A read that times out leaves *)
(* its transfer to the driver, and the next call begins on top of it.      *)
(* The driver is a library without source: it has at most one transfer and *)
(* refuses a second one or drops the first one for it.                     *)
(***************************************************************************)
EXTENDS Integers

CONSTANTS
  PACKET_SIZE,          \* 1000 or 6000 bytes
  HEADER_TIMEOUT,       \* 10000 milliseconds for all rounds of the header
  PACKET_TIMEOUT,       \* 3000 milliseconds for each packet
  Sizes                 \* the sizes the host announces

ASSUME PacketAssumption == PACKET_SIZE \in Nat \ {0}
ASSUME TimeAssumption   == HEADER_TIMEOUT \in Nat /\ PACKET_TIMEOUT \in Nat
ASSUME SizesAssumption  == Sizes \subseteq Nat

\* What g_rx_buf says: its first byte is 0 or no sync byte (-1), or the second
\* is not (-2), or it announces a size.
Headers == {-1, -2} \union Sizes

None == [what |-> "none", to |-> 0, len |-> 0]
HeaderRead == [what |-> "header", to |-> 0, len |-> 6]
DataRead(to, n) == [what |-> "data", to |-> to, len |-> n]

VARIABLES
  pc,                   \* where the read is; "client" outside of it
  waited,               \* s_cmd_count, then img_data_count
  s_cb_rx_flag,
  g_rx_buf,             \* one of Headers
  rd,                   \* the driver's transfer
  s_imgsize, s_cur_pos, \* still to read, and to which offset from SRAM_addr
  img_size,             \* *img_size
  result,               \* of the last call
  stored,               \* history: the offsets filled since the header was accepted
  raced                 \* history: a transfer ended between the clearing of the
                        \* flag and the posting of the next header read

vars == <<pc, waited, s_cb_rx_flag, g_rx_buf, rd, s_imgsize, s_cur_pos, img_size,
          result, stored, raced>>

Init ==
  /\ pc = "client" /\ waited = 0 /\ s_cb_rx_flag = FALSE
  /\ g_rx_buf = -1 /\ rd = None
  /\ s_imgsize = 0 /\ s_cur_pos = 0 /\ img_size = 0
  /\ result = "pass" /\ stored = {} /\ raced = FALSE

-----------------------------------------------------------------------------
read_simple ==
  /\ pc = "client" /\ pc' = "clear"
  /\ waited' = 0 /\ s_cur_pos' = 0
  /\ raced' = (raced /\ rd # None)
  /\ UNCHANGED <<s_cb_rx_flag, g_rx_buf, rd, s_imgsize, img_size, result, stored>>

ClearHeader ==
  /\ pc = "clear" /\ pc' = "unflag"
  /\ g_rx_buf' = -1
  /\ UNCHANGED <<waited, s_cb_rx_flag, rd, s_imgsize, s_cur_pos, img_size, result, stored, raced>>

ClearFlag ==
  /\ pc = "unflag" /\ pc' = "issue"
  /\ s_cb_rx_flag' = FALSE
  /\ UNCHANGED <<waited, g_rx_buf, rd, s_imgsize, s_cur_pos, img_size, result, stored, raced>>

spi_read(new) == rd' \in IF rd = None THEN {new} ELSE {rd, new}

PostHeader ==
  /\ pc = "issue" /\ pc' = "header"
  /\ spi_read(HeaderRead)
  /\ UNCHANGED <<waited, s_cb_rx_flag, g_rx_buf, s_imgsize, s_cur_pos, img_size, result, stored, raced>>

Leave(r) == pc' = "client" /\ result' = r

\* The timeout bounds the waiting, not the rounds: the count is compared only
\* while the flag is clear, so it is capped at the timeout.
Tick(n, timeout) == IF n < timeout THEN n + 1 ELSE n

\* Mutant: the count is never compared.
HeaderNoTimeout ==
  /\ pc = "header" /\ ~s_cb_rx_flag
  /\ waited' = Tick(waited, HEADER_TIMEOUT)
  /\ UNCHANGED <<pc, result, s_cb_rx_flag, g_rx_buf, rd, s_imgsize, s_cur_pos, img_size, stored, raced>>

HeaderTimeout ==
  /\ pc = "header" /\ ~s_cb_rx_flag
  /\ waited' = Tick(waited, HEADER_TIMEOUT)
  /\ IF waited' >= HEADER_TIMEOUT THEN Leave("timeout") ELSE UNCHANGED <<pc, result>>
  /\ UNCHANGED <<s_cb_rx_flag, g_rx_buf, rd, s_imgsize, s_cur_pos, img_size, stored, raced>>

HeaderArrived ==
  /\ pc = "header" /\ s_cb_rx_flag
  /\ waited' = Tick(waited, HEADER_TIMEOUT)
  /\ \/ g_rx_buf = -1 /\ pc' = "clear" /\ UNCHANGED <<s_imgsize, img_size, result, stored>>
     \/ g_rx_buf = -2 /\ Leave("bad_sync") /\ UNCHANGED <<s_imgsize, img_size, stored>>
     \/ /\ g_rx_buf \in Sizes /\ pc' = "packet"
        /\ s_imgsize' = g_rx_buf /\ img_size' = g_rx_buf
        /\ stored' = {}
        /\ UNCHANGED result
  /\ UNCHANGED <<s_cb_rx_flag, g_rx_buf, rd, s_cur_pos, raced>>

Packet == IF s_imgsize > PACKET_SIZE THEN PACKET_SIZE ELSE s_imgsize

\* Mutant: always a whole packet.
PostPacketWhole ==
  /\ pc = "packet" /\ pc' = "data"
  /\ s_cb_rx_flag' = FALSE /\ waited' = 0
  /\ spi_read(DataRead(s_cur_pos, PACKET_SIZE))
  /\ UNCHANGED <<g_rx_buf, s_imgsize, s_cur_pos, img_size, result, stored, raced>>

PostPacket ==
  /\ pc = "packet" /\ pc' = "data"
  /\ s_cb_rx_flag' = FALSE /\ waited' = 0
  /\ spi_read(DataRead(s_cur_pos, Packet))
  /\ UNCHANGED <<g_rx_buf, s_imgsize, s_cur_pos, img_size, result, stored, raced>>

PacketTimeout ==
  /\ pc = "data" /\ ~s_cb_rx_flag
  /\ waited' = Tick(waited, PACKET_TIMEOUT)
  /\ IF waited' >= PACKET_TIMEOUT THEN Leave("data_timeout") /\ img_size' = 0
                                  ELSE UNCHANGED <<pc, result, img_size>>
  /\ UNCHANGED <<s_cb_rx_flag, g_rx_buf, rd, s_imgsize, s_cur_pos, stored, raced>>

\* Mutant: the position is not moved on.
PacketArrivedStay ==
  /\ pc = "data" /\ s_cb_rx_flag
  /\ s_imgsize' = s_imgsize - Packet
  /\ IF s_imgsize' > 0 THEN pc' = "packet" /\ UNCHANGED result ELSE Leave("pass")
  /\ UNCHANGED <<waited, s_cb_rx_flag, g_rx_buf, rd, s_cur_pos, img_size, stored, raced>>

PacketArrived ==
  /\ pc = "data" /\ s_cb_rx_flag
  /\ s_cur_pos' = s_cur_pos + Packet /\ s_imgsize' = s_imgsize - Packet
  /\ IF s_imgsize' > 0 THEN pc' = "packet" /\ UNCHANGED result ELSE Leave("pass")
  /\ UNCHANGED <<waited, s_cb_rx_flag, g_rx_buf, rd, img_size, stored, raced>>

\* The host has clocked the driver's transfer in.
spi_s_callback_fun_rx ==
  /\ rd # None /\ rd' = None
  /\ s_cb_rx_flag' = TRUE
  /\ raced' = (raced \/ pc = "issue")
  /\ IF rd.what = "header" THEN g_rx_buf' \in Headers /\ UNCHANGED stored
     ELSE /\ stored' = stored \union rd.to .. rd.to + rd.len - 1
          /\ UNCHANGED g_rx_buf
  /\ UNCHANGED <<pc, waited, s_imgsize, s_cur_pos, img_size, result>>

-----------------------------------------------------------------------------
Reader ==
  \/ ClearHeader \/ ClearFlag \/ PostHeader \/ HeaderTimeout \/ HeaderArrived
  \/ PostPacket \/ PacketTimeout \/ PacketArrived

Next == read_simple \/ Reader \/ spi_s_callback_fun_rx

Spec == Init /\ [][Next]_vars

\* The processor runs; nothing is assumed of the host.
FairSpec == Spec /\ WF_vars(Reader)

-----------------------------------------------------------------------------
(***************************************************************************)
(* Properties                                                              *)
(***************************************************************************)

TypeOK ==
  /\ pc \in {"client", "clear", "unflag", "issue", "header", "packet", "data"}
  /\ waited \in Nat /\ s_cb_rx_flag \in BOOLEAN /\ g_rx_buf \in Headers
  /\ rd \in {None, HeaderRead} \union [what : {"data"}, to : Nat, len : Nat]
  /\ s_imgsize \in Nat /\ s_cur_pos \in Nat /\ img_size \in Nat
  /\ result \in {"pass", "timeout", "bad_sync", "data_timeout"}
  /\ stored \subseteq Nat /\ raced \in BOOLEAN

\* The offsets that the announced size covers.
Image == 0 .. img_size - 1

\* A read that returns 0 has stored every byte of the announced size, whatever
\* earlier calls have left to the driver, unless a transfer raced.
PassMeansStored == pc = "client" /\ result = "pass" /\ ~raced => Image \subseteq stored

\* The same without the exception (spi_slave_protocol.h:35: 0 is pass); the code does
\* not have it.
PassMeansStoredEver == pc = "client" /\ result = "pass" => Image \subseteq stored

\* Once a header has been accepted, the driver writes the packet that is waited
\* for and nothing else: nothing is left of a read that timed out before, and no
\* packet goes past the announced size.
OnlyOwnPacket ==
  /\ pc = "packet" /\ ~raced => rd = None
  /\ pc = "data" /\ ~raced /\ rd # None =>
       rd = DataRead(s_cur_pos, Packet) /\ s_cur_pos + rd.len <= img_size

\* Only a call that timed out leaves the driver writing into its buffer.
BufferFree == pc = "client" /\ result \in {"pass", "bad_sync"} /\ ~raced => rd = None

\* Every read returns, unless the host sends headers without sync byte for ever.
ReadReturns ==
  \/ pc = "clear" ~> pc = "client"
  \/ []<>(pc = "header" /\ g_rx_buf = -1 /\ s_cb_rx_flag)
=============================================================================
