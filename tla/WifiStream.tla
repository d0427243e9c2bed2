----------------------------- MODULE WifiStream -----------------------------
(***************************************************************************)
(* The results of the application on their way to the host: app_main and   *)
(* priv_wifi_send_result frame them, app_tcp_send cuts them into chunks    *)
(* for the WiFi module, and tools/tcp_server_example reads the frames back *)
(* from the byte stream of one TCP connection.                             *)
(*                                                                         *)
(* A byte carries its value, which is all the server looks at, and for the *)
(* properties the frame, its size and the position it was sent with.       *)
(***************************************************************************)
EXTENDS Integers, Sequences

CONSTANTS
  ESP8266_SEND_MAX,     \* longest chunk given to the WiFi module (2048)
  PKT_MAX,              \* longest frame the server believes in (200000)
  JpgSizes,             \* sizes of a compressed image
  META_SIZE,            \* sizeof(struct_algoResult)
  PayloadBytes,         \* values the bytes of a payload have
  WINDOW,               \* bytes the connection holds
  FrameIds,             \* frames are numbered 0 .. FrameIds - 1 and again
  WriteFails            \* calls of esp8266_tcp_multi_write that may report a
                        \* failure: "none", "one" or "any"

ASSUME ChunkAssumption == ESP8266_SEND_MAX \in Nat \ {0}
ASSUME FailAssumption  == WriteFails \in {"none", "one", "any"}
ASSUME SizeAssumption  == JpgSizes \cup {META_SIZE} \subseteq 0 .. PKT_MAX
ASSUME LimitAssumption == PKT_MAX \in Nat /\ PKT_MAX < 16777216
ASSUME ByteAssumption  == PayloadBytes \subseteq 0 .. 255
ASSUME WireAssumption  == WINDOW \in Nat
ASSUME FrameAssumption == FrameIds \in Nat \ {0}

SYNC1 == 192                           \* 0xC0
SYNC2 == 90                            \* 0x5A
DATA_TYPE_JPG == 1
DATA_TYPE_META_DATA == 19
HEADER_SIZE == 7

NoFrame == FrameIds

\* the number of the frame after frame f
After(f) == (f + 1) % FrameIds

VARIABLES
  pc,                   \* which call of app_tcp_send the application is in
  type, size,           \* data_type and data_size of the frame being sent
  pval,                 \* value of its payload bytes
  frame,                \* number of the frame being sent
  sent_bytes,           \* of the current app_tcp_send
  wire,                 \* the bytes in the connection
  srv,                  \* where the server is
  header,               \* the header bytes it has
  pkt_len, got,         \* length of the content, and how much of it is there
  genuine,              \* history: the content is that of the frame header[1] is of
  due,                  \* history: the frame the server should show next, or failed
  failed                \* history: number of the first frame a write failed for

app  == <<pc, type, size, pval, frame, sent_bytes>>
host == <<srv, header, pkt_len, got, genuine, due>>
vars == <<app, wire, host, failed>>

-----------------------------------------------------------------------------
\* byte i of a 32 bit number, from the least significant one
Byte(n, i) == (n \div 256^i) % 256

\* header[0 .. 6] of priv_wifi_send_result
HeaderValues ==
  <<SYNC1, SYNC2, type, Byte(size, 0), Byte(size, 1), Byte(size, 2), Byte(size, 3)>>

\* byte i of the current frame; which one it is matters until a write fails
Sent(v, i) ==
  IF failed = NoFrame THEN [val |-> v, frame |-> frame, pos |-> i, size |-> size]
                      ELSE [val |-> v, frame |-> NoFrame, pos |-> 0, size |-> 0]

\* what the current call of app_tcp_send sends
Data ==
  IF pc = "header" THEN [i \in 1 .. HEADER_SIZE |-> Sent(HeaderValues[i], i)]
                   ELSE [i \in 1 .. size |-> Sent(pval, HEADER_SIZE + i)]

\* Mutant: every chunk starts at the first byte.
ChunkFirst ==
  SubSeq(Data, 1, IF Len(Data) - sent_bytes < ESP8266_SEND_MAX
                    THEN Len(Data) - sent_bytes ELSE ESP8266_SEND_MAX)

\* the next chunk: send_ptr and send_len
Chunk ==
  SubSeq(Data, sent_bytes + 1,
         IF Len(Data) - sent_bytes < ESP8266_SEND_MAX
           THEN Len(Data) ELSE sent_bytes + ESP8266_SEND_MAX)

\* int.from_bytes(.., 'little'), exact below 2^24 and PKT_MAX + 1 from there on
LittleEndian(b) ==
  IF b[4].val > 0 THEN PKT_MAX + 1
                  ELSE b[1].val + 256 * b[2].val + 65536 * b[3].val

Init ==
  /\ pc = "start" /\ type = 0 /\ size = 0 /\ pval = 0
  /\ frame = FrameIds - 1 /\ sent_bytes = 0
  /\ wire = <<>>
  /\ srv = "header" /\ header = <<>> /\ pkt_len = 0 /\ got = 0
  /\ genuine = FALSE /\ due = 0
  /\ failed = NoFrame

-----------------------------------------------------------------------------
(* The application                                                         *)

\* app_wifi_connect reports success whatever happens; app_tcp_open decides.
Connect ==
  /\ pc = "start"
  /\ pc' \in {"capture", "offline"}
  /\ UNCHANGED <<type, size, pval, frame, sent_bytes, wire, host, failed>>

\* A new frame: its header is sent first.
Begin(t, n, v) ==
  /\ type' = t /\ size' = n /\ pval' = v
  /\ frame' = IF failed = NoFrame THEN After(frame) ELSE frame
  /\ sent_bytes' = 0
  /\ pc' = "header"

\* app_sensor_get_image and app_algo_run, then the image is sent
Capture ==
  /\ pc = "capture"
  /\ \E n \in JpgSizes, v \in PayloadBytes : Begin(DATA_TYPE_JPG, n, v)
  /\ UNCHANGED <<wire, host, failed>>

\* What follows a call of app_tcp_send: its result is not looked at.
NextCall ==
  \/ /\ pc = "header"
     /\ pc' = "payload" /\ sent_bytes' = 0
     /\ UNCHANGED <<type, size, pval, frame>>
  \/ /\ pc = "payload" /\ type = DATA_TYPE_JPG
     /\ \E v \in PayloadBytes : Begin(DATA_TYPE_META_DATA, META_SIZE, v)
  \/ /\ pc = "payload" /\ type = DATA_TYPE_META_DATA
     /\ pc' = "capture" /\ sent_bytes' = 0
     /\ UNCHANGED <<type, size, pval, frame>>

SendDone ==
  /\ pc \in {"header", "payload"}
  /\ sent_bytes >= Len(Data)
  /\ NextCall
  /\ UNCHANGED <<wire, host, failed>>

\* Mutant: what was sent is not counted.
SendChunkUncounted ==
  /\ pc \in {"header", "payload"}
  /\ sent_bytes < Len(Data)
  /\ Len(wire) + Len(Chunk) <= WINDOW
  /\ wire' = wire \o Chunk
  /\ UNCHANGED <<app, host, failed>>

\* esp8266_tcp_multi_write waits until the connection takes the chunk.
SendChunk ==
  /\ pc \in {"header", "payload"}
  /\ sent_bytes < Len(Data)
  /\ Len(wire) + Len(Chunk) <= WINDOW
  /\ wire' = wire \o Chunk
  /\ sent_bytes' = sent_bytes + Len(Chunk)
  /\ UNCHANGED <<pc, type, size, pval, frame, host, failed>>

\* It reports a failure: the chunk was not taken, or only its answer was lost.
\* It also does when the server has gone.
SendFails ==
  /\ \/ WriteFails = "any"
     \/ WriteFails = "one" /\ failed = NoFrame
     \/ srv = "stopped"
  /\ pc \in {"header", "payload"}
  /\ sent_bytes < Len(Data)
  /\ \/ wire' = wire
     \/ Len(wire) + Len(Chunk) <= WINDOW /\ wire' = wire \o Chunk
  /\ failed' = IF failed = NoFrame THEN frame ELSE failed
  /\ NextCall
  /\ UNCHANGED host

\* Without a connection the loop of app_main sends nothing, for ever.
Offline == pc = "offline" /\ UNCHANGED vars

-----------------------------------------------------------------------------
(* The server                                                              *)

\* conn.recv(n) returns any k <= n of the bytes that are there.
Recv(n, k) == /\ k \in 1 .. n /\ k <= Len(wire)
              /\ wire' = SubSeq(wire, k + 1, Len(wire))
Received(k) == SubSeq(wire, 1, k)

\* Mutant: each recv of the header asks for all of it.
RecvHeaderWhole ==
  /\ srv = "header" /\ Len(header) < HEADER_SIZE
  /\ \E k \in 1 .. HEADER_SIZE :
       Recv(HEADER_SIZE, k) /\ header' = header \o Received(k)
  /\ UNCHANGED <<app, srv, pkt_len, got, genuine, due, failed>>

RecvHeader ==
  /\ srv = "header" /\ Len(header) < HEADER_SIZE
  /\ \E k \in 1 .. HEADER_SIZE :
       Recv(HEADER_SIZE - Len(header), k) /\ header' = header \o Received(k)
  /\ UNCHANGED <<app, srv, pkt_len, got, genuine, due, failed>>

\* The sync bytes are not looked at, only the length is.
ParseHeader ==
  /\ srv = "header" /\ Len(header) >= HEADER_SIZE
  /\ pkt_len' = LittleEndian(SubSeq(header, 4, 7))
  /\ got' = 0
  /\ genuine' = (due # failed /\
       \A i \in 1 .. HEADER_SIZE :
         header[i].frame = header[1].frame /\ header[i].pos = i)
  /\ srv' = IF pkt_len' > PKT_MAX THEN "resync" ELSE "content"
  /\ UNCHANGED <<app, wire, header, due, failed>>

\* "sync_byte_1 == 0xC0" compares a bytes object with a number: it is False.
Resync ==
  /\ srv = "resync"
  /\ Recv(1, 1)
  /\ UNCHANGED <<app, host, failed>>

RecvContent ==
  /\ srv = "content" /\ got < pkt_len
  /\ \E k \in 1 .. PKT_MAX :
       /\ Recv(pkt_len - got, k)
       /\ got' = got + k
       /\ genuine' = (/\ genuine
                      /\ \A i \in 1 .. k :
                           /\ wire[i].frame = header[1].frame
                           /\ wire[i].pos = HEADER_SIZE + got + i)
  /\ UNCHANGED <<app, srv, header, pkt_len, due, failed>>

Complete == srv = "content" /\ got >= pkt_len

Show ==
  /\ Complete
  /\ srv' = "header" /\ header' = <<>>
  /\ due' = IF due = failed THEN due ELSE After(due)
  /\ UNCHANGED <<app, wire, pkt_len, got, genuine, failed>>

\* cv2 or parse_meta raises an exception on content that is not a frame's.
ShowRaises ==
  /\ Complete /\ ~genuine
  /\ srv' = "stopped"
  /\ UNCHANGED <<app, wire, header, pkt_len, got, genuine, due, failed>>

-----------------------------------------------------------------------------
App    == Connect \/ Capture \/ SendChunk \/ SendDone \/ SendFails \/ Offline
Server == RecvHeader \/ ParseHeader \/ Resync \/ RecvContent \/ Show \/ ShowRaises
Next   == App \/ Server

Spec == Init /\ [][Next]_vars

\* The WiFi module answers every write, and both programs keep running.
FairSpec == Spec /\ WF_vars(App) /\ WF_vars(Server)

-----------------------------------------------------------------------------
(***************************************************************************)
(* Properties                                                              *)
(***************************************************************************)

Cells == [val : Nat, frame : 0 .. NoFrame, pos : Nat, size : Nat]

TypeOK ==
  /\ pc \in {"start", "offline", "capture", "header", "payload"}
  /\ type \in {0, DATA_TYPE_JPG, DATA_TYPE_META_DATA}
  /\ size \in JpgSizes \cup {0, META_SIZE}
  /\ pval \in PayloadBytes \cup {0}
  /\ frame \in 0 .. FrameIds - 1 /\ due \in 0 .. FrameIds - 1
  /\ sent_bytes \in 0 .. HEADER_SIZE + PKT_MAX
  /\ wire \in Seq(Cells) /\ Len(wire) <= WINDOW
  /\ srv \in {"header", "resync", "content", "stopped"}
  /\ header \in Seq(Cells) /\ Len(header) <= HEADER_SIZE
  /\ pkt_len \in Nat /\ got \in 0 .. PKT_MAX
  /\ genuine \in BOOLEAN /\ failed \in 0 .. NoFrame

\* Up to the first frame a write failed for, what the server shows is the next
\* frame, whole and unmixed, however the chunks and the pieces the server
\* receives are cut.
ShowsNextFrame ==
  Complete /\ due # failed => /\ genuine /\ header[1].frame = due
                              /\ pkt_len = header[1].size

\* Once the connection is open, and unless a write fails, frame after frame
\* reaches the host whole: none is held up or left out (README.md:212).
KeepsShowing ==
  \A f \in 0 .. FrameIds - 1 :
    pc = "capture" ~> \/ Complete /\ genuine /\ header[1].frame = f
                      \/ failed # NoFrame

\* The server that lost step finds the next frame (tcp_server_example.py:48).
\* The code does not have it, even if all frames after the failed write are sent.
FindsSync == srv = "resync" ~> srv # "resync"
=============================================================================
