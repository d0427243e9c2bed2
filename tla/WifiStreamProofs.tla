-------------------------- MODULE WifiStreamProofs --------------------------
(***************************************************************************)
(* What is proved of WifiStream for every size of chunks, images, frames   *)
(* and connection, and for any number of failing writes.  The invariant    *)
(* follows the stream from the server over the bytes in the connection to  *)
(* the application: each continues where the one before it ends.           *)
(***************************************************************************)
EXTENDS WifiStream, FiniteSetTheorems, SequenceTheorems, TLAPS

-----------------------------------------------------------------------------
(* The invariant                                                           *)

\* A byte of a numbered frame has a place in it, and the length bytes the
\* size of the frame.
Sound(b) ==
  b.frame # NoFrame =>
    /\ b.frame \in 0 .. FrameIds - 1
    /\ b.size <= PKT_MAX
    /\ b.pos \in 1 .. HEADER_SIZE + b.size
    /\ b.pos \in 4 .. 7 => b.val = Byte(b.size, b.pos - 4)

SoundCells == {b \in Cells : Sound(b)}

\* The place in the stream after byte p of frame f, which has s bytes of payload:
\* that of its next byte or of the first one of the next frame, whatever its size.
Place(f, p, s) ==
  IF p = 0 THEN [frame |-> f, pos |-> 1, size |-> 0]
  ELSE IF p < HEADER_SIZE + s THEN [frame |-> f, pos |-> p + 1, size |-> s]
  ELSE [frame |-> After(f), pos |-> 1, size |-> 0]

Following(b) == Place(b.frame, b.pos, b.size)

\* Byte b is at the place q, unless it is in the frame x that failed or later.
At(b, q)      == b.frame = q.frame /\ b.pos = q.pos /\ (q.pos # 1 => b.size = q.size)
Fits(x, b, q) == q.frame = x \/ At(b, q)
Known(x, b)   == b.frame \notin {x, NoFrame}

\* The bytes of w follow each other.
Chain(x, w) ==
  \A i \in 1 .. Len(w) - 1 : Known(x, w[i]) => Fits(x, w[i + 1], Following(w[i]))

\* the place the server reads next
Taken     == IF srv = "content" THEN HEADER_SIZE + got ELSE Len(header)
HostPlace == Place(due, Taken, header[1].size)

\* the place the application sends next: byte i of what the current call sends is
\* byte Before + i of its frame
Before == IF pc = "header" THEN 0 ELSE HEADER_SIZE
Given  == IF pc \in {"header", "payload"} THEN Before + sent_bytes ELSE HEADER_SIZE + size
AppPlace == Place(frame, Given, size)

\* where the connection ends, and whether that is known
End      == IF wire = <<>> THEN HostPlace ELSE Following(wire[Len(wire)])
EndKnown == IF wire = <<>> THEN due # failed ELSE Known(failed, wire[Len(wire)])

\* What the server has is the frame due, as far as it has it.
HasDue ==
  /\ srv \in {"header", "content"}
  /\ \A i \in 1 .. Len(header) :
       header[i].frame = due /\ header[i].pos = i /\ header[i].size = header[1].size
  /\ srv = "content" => genuine /\ pkt_len = header[1].size

Stream ==
  /\ Chain(failed, wire)
  \* The connection continues what the server has.
  /\ due # failed => HasDue /\ (wire # <<>> => Fits(failed, wire[1], HostPlace))
  \* Before a failure, the application continues the connection.
  /\ failed = NoFrame => AppPlace = End
  \* After it, the connection ends in the frame that failed or just before it.
  /\ failed # NoFrame /\ EndKnown => End.frame = failed

\* how many bytes the current call of app_tcp_send has to send
Total == IF pc = "header" THEN HEADER_SIZE ELSE size

AppTypes ==
  /\ pc \in {"start", "offline", "capture", "header", "payload"}
  /\ type \in {0, DATA_TYPE_JPG, DATA_TYPE_META_DATA}
  /\ size \in JpgSizes \cup {0, META_SIZE}
  /\ pval \in PayloadBytes \cup {0}
  /\ frame \in 0 .. FrameIds - 1
  /\ sent_bytes \in 0 .. Total
  /\ failed \in 0 .. NoFrame

WireTypes ==
  wire \in Seq(SoundCells) /\ Len(wire) <= WINDOW

HostTypes ==
  /\ srv \in {"header", "resync", "content", "stopped"}
  /\ header \in Seq(SoundCells) /\ Len(header) <= HEADER_SIZE
  /\ due \in 0 .. FrameIds - 1 /\ genuine \in BOOLEAN
  /\ pkt_len \in Nat /\ got \in 0 .. PKT_MAX
  /\ srv = "content" => /\ Len(header) = HEADER_SIZE
                        /\ got <= pkt_len /\ pkt_len <= PKT_MAX

Types == AppTypes /\ WireTypes /\ HostTypes

IInv == Types /\ Stream

-----------------------------------------------------------------------------
(* Numbers                                                                 *)

\* Induction up to k, of a set in the place of a predicate: a member outside of T
\* that follows one in T would be met by the step down from every other one.
LEMMA Steps ==
  ASSUME NEW T, NEW k \in Nat, 1 \in T, \A n \in 1 .. k - 1 : n \in T => n + 1 \in T
  PROVE  1 .. k \subseteq T
<1> SUFFICES ASSUME NEW n \in 1 .. k, n \notin T PROVE FALSE OBVIOUS
<1> DEFINE U == {m \in 1 .. n : m \notin T}
           down == [m \in U |-> m - 1]
<1>1. n \in U OBVIOUS
<1>2. IsFiniteSet(U)
  <2>1. IsFiniteSet(1 .. n) BY FS_Interval
  <2>2. U \subseteq 1 .. n OBVIOUS
  <2> QED BY <2>1, <2>2, FS_Subset
<1>3. IsFiniteSet(U \ {n}) /\ Cardinality(U \ {n}) = Cardinality(U) - 1
  BY <1>1, <1>2, FS_RemoveElement
<1>4. down \in [U -> U \ {n}]
  <2> SUFFICES ASSUME NEW m \in U PROVE m - 1 \in U \ {n} OBVIOUS
  <2>1. m \in 1 .. n /\ m \notin T OBVIOUS
  <2>2. m # 1 BY <2>1
  <2>3. m - 1 \in 1 .. k - 1 /\ m - 1 \in 1 .. n /\ (m - 1) + 1 = m /\ m - 1 # n BY <2>1, <2>2
  <2>4. m - 1 \notin T BY <2>1, <2>3
  <2> QED BY <2>3, <2>4
<1>5. Cardinality(U) \in Nat BY <1>2, FS_CardinalityType
<1>6. Cardinality(U \ {n}) < Cardinality(U) BY <1>3, <1>5
<1> HIDE DEF down
<1>7. \E a, b \in U : a # b /\ down[a] = down[b] BY <1>2, <1>3, <1>4, <1>6, FS_PigeonHole
<1> QED BY <1>7 DEF down

LEMMA Bytes4 ==
  ASSUME NEW n \in Nat, n < 16777216
  PROVE  /\ Byte(n, 3) = 0
         /\ n = Byte(n, 0) + 256 * Byte(n, 1) + 65536 * Byte(n, 2)
         /\ \A i \in 0 .. 3 : Byte(n, i) \in 0 .. 255
<1>1. 256^0 = 1 /\ 256^1 = 256 /\ 256^2 = 65536 /\ 256^3 = 16777216 BY SMT
<1>2. /\ Byte(n, 0) = n % 256 /\ Byte(n, 1) = (n \div 256) % 256
      /\ Byte(n, 2) = (n \div 65536) % 256 /\ Byte(n, 3) = (n \div 16777216) % 256
  BY <1>1, SMT DEF Byte
<1>3. n \div 16777216 = 0 /\ n \div 65536 < 256 /\ n \div 65536 \in Nat
  <2>1. n \in Int /\ 0 <= n BY SMT
  <2>2. n \div 16777216 = 0 BY <2>1, SMT
  <2>3. n \div 65536 < 256 BY <2>1, SMT
  <2>4. n \div 65536 \in Nat BY SMT
  <2> QED BY <2>2, <2>3, <2>4
<1>4. (n \div 65536) % 256 = n \div 65536 BY <1>3, SMT
<1>5. n = 65536 * (n \div 65536) + 256 * ((n \div 256) % 256) + (n % 256) BY SMTT(30)
<1>6. (n % 256) \in 0 .. 255 /\ ((n \div 256) % 256) \in 0 .. 255 BY SMT
<1>7. Byte(n, 3) = 0 BY <1>2, <1>3, SMT
<1>8. n = Byte(n, 0) + 256 * Byte(n, 1) + 65536 * Byte(n, 2)
  <2> DEFINE lo == n % 256
             mid == (n \div 256) % 256
             hi == n \div 65536
  <2>1. Byte(n, 0) = lo /\ Byte(n, 1) = mid /\ Byte(n, 2) = hi BY <1>2, <1>4
  <2>2. n = 65536 * hi + 256 * mid + lo BY <1>5
  <2>3. lo \in Nat /\ mid \in Nat /\ hi \in Nat BY <1>3, <1>6
  <2> HIDE DEF lo, mid, hi
  <2> QED BY <2>1, <2>2, <2>3, SMT
<1>9. \A i \in 0 .. 3 : Byte(n, i) \in 0 .. 255
  <2>1. Byte(n, 2) \in 0 .. 255 BY <1>2, <1>3, <1>4, SMT
  <2> QED BY <1>2, <1>6, <1>7, <2>1, SMT
<1> QED BY <1>7, <1>8, <1>9

\* The server reads the length that the application has written.
LEMMA LengthRead ==
  ASSUME NEW n \in 0 .. PKT_MAX, NEW b, \A i \in 1 .. 4 : b[i].val = Byte(n, i - 1)
  PROVE  LittleEndian(b) = n
<1>1. n \in Nat /\ n < 16777216 BY LimitAssumption, SMT
<1>2. /\ b[1].val = Byte(n, 0) /\ b[2].val = Byte(n, 1)
      /\ b[3].val = Byte(n, 2) /\ b[4].val = Byte(n, 3)
  OBVIOUS
<1>3. ~(b[4].val > 0) BY <1>1, <1>2, Bytes4
<1> QED BY <1>1, <1>2, <1>3, Bytes4 DEF LittleEndian

LEMMA AfterFrame ==
  /\ \A f \in Nat : After(f) \in 0 .. FrameIds - 1
  /\ After(FrameIds - 1) = 0
BY FrameAssumption, SMT DEF After

LEMMA SizeTypes ==
  ASSUME AppTypes
  PROVE  /\ size \in Nat /\ size <= PKT_MAX /\ PKT_MAX \in Nat
         /\ Total \in Nat /\ sent_bytes \in Nat /\ sent_bytes <= Total
         /\ frame \in Nat /\ frame # NoFrame
<1>1. PKT_MAX \in Nat BY LimitAssumption
<1>2. size \in 0 .. PKT_MAX BY <1>1, SizeAssumption, SMT DEF AppTypes
<1>3. frame \in 0 .. FrameIds - 1 /\ sent_bytes \in 0 .. Total BY DEF AppTypes
<1>4. Total \in Nat BY <1>1, <1>2, SMT DEF Total, HEADER_SIZE
<1> QED BY <1>1, <1>2, <1>3, <1>4, FrameAssumption, SMT DEF NoFrame

-----------------------------------------------------------------------------
(* What the application sends                                              *)

LEMMA HeaderBytes ==
  ASSUME AppTypes
  PROVE  \A i \in 1 .. 7 : HeaderValues[i] \in Nat
<1>1. size \in Nat /\ size < 16777216 BY SizeTypes, LimitAssumption, SMT
<1>2. \A j \in 0 .. 3 : Byte(size, j) \in Nat
  <2>1. \A j \in 0 .. 3 : Byte(size, j) \in 0 .. 255 BY <1>1, Bytes4
  <2> QED BY <2>1
<1>3. type \in Nat BY DEF AppTypes, DATA_TYPE_JPG, DATA_TYPE_META_DATA
<1> QED BY <1>2, <1>3, SMT DEF HeaderValues, SYNC1, SYNC2

\* Before a failure every byte has its number, its place and a sound value.
LEMMA SentBytes ==
  ASSUME AppTypes, failed = NoFrame, pc \in {"header", "payload"}, NEW i \in 1 .. Total
  PROVE  /\ Data[i] \in SoundCells
         /\ Data[i].frame = frame /\ Data[i].size = size /\ Data[i].pos = Before + i
<1> DEFINE v == IF pc = "header" THEN HeaderValues[i] ELSE pval
<1>1. Data[i] = [val |-> v, frame |-> frame, pos |-> Before + i, size |-> size]
  <2>1. CASE pc = "header"
    <3>1. Data = [j \in 1 .. HEADER_SIZE |-> Sent(HeaderValues[j], j)] BY <2>1 DEF Data
    <3>2. i \in 1 .. HEADER_SIZE /\ Before + i = i BY <2>1, SizeTypes, SMT DEF Total, Before
    <3>3. Data[i] = Sent(HeaderValues[i], i) BY <3>1, <3>2
    <3> QED BY <2>1, <3>2, <3>3 DEF Sent
  <2>2. CASE pc # "header"
    <3>1. Data = [j \in 1 .. size |-> Sent(pval, HEADER_SIZE + j)] BY <2>2 DEF Data
    <3>2. i \in 1 .. size /\ Before = HEADER_SIZE BY <2>2 DEF Total, Before
    <3>3. Data[i] = Sent(pval, HEADER_SIZE + i) BY <3>1, <3>2
    <3> QED BY <2>2, <3>2, <3>3 DEF Sent
  <2> QED BY <2>1, <2>2
<1>2. size \in Nat BY SizeTypes
<1>3. v \in Nat
  <2>1. CASE pc = "header"
    <3>1. i \in 1 .. 7 BY <2>1 DEF Total, HEADER_SIZE
    <3>2. HeaderValues[i] \in Nat BY <3>1, HeaderBytes
    <3> QED BY <2>1, <3>2
  <2>2. CASE pc # "header"
    BY <2>2, ByteAssumption, SMT DEF AppTypes
  <2> QED BY <2>1, <2>2
<1>4. Before + i \in Nat /\ Before + i \in 1 .. HEADER_SIZE + size
  BY SizeTypes, SMT DEF Before, Total, HEADER_SIZE
<1>5. Before + i \in 4 .. 7 => v = Byte(size, (Before + i) - 4)
  <2> SUFFICES ASSUME Before + i \in 4 .. 7 PROVE v = Byte(size, (Before + i) - 4) OBVIOUS
  <2>1. pc = "header" /\ i \in 4 .. 7 /\ Before = 0
    BY SizeTypes, SMT DEF Before, Total, HEADER_SIZE
  <2>2. i \in {4, 5, 6, 7} BY <2>1, SMT
  <2>3. /\ HeaderValues[4] = Byte(size, 0) /\ HeaderValues[5] = Byte(size, 1)
        /\ HeaderValues[6] = Byte(size, 2) /\ HeaderValues[7] = Byte(size, 3)
    BY DEF HeaderValues
  <2>4. HeaderValues[i] = Byte(size, i - 4)
    <3>1. 4 - 4 = 0 /\ 5 - 4 = 1 /\ 6 - 4 = 2 /\ 7 - 4 = 3 OBVIOUS
    <3>2. CASE i = 4 BY <2>3, <3>1, <3>2
    <3>3. CASE i = 5 BY <2>3, <3>1, <3>3
    <3>4. CASE i = 6 BY <2>3, <3>1, <3>4
    <3>5. CASE i = 7 BY <2>3, <3>1, <3>5
    <3> QED BY <2>2, <3>2, <3>3, <3>4, <3>5
  <2>5. (Before + i) - 4 = i - 4 BY <2>1
  <2>6. v = HeaderValues[i] BY <2>1
  <2> HIDE DEF v
  <2> QED BY <2>4, <2>5, <2>6
<1>6. frame \in 0 .. NoFrame /\ frame \in 0 .. FrameIds - 1
  BY FrameAssumption, SMT DEF AppTypes, NoFrame
<1> HIDE DEF v
<1>7. Data[i] \in Cells
  <2> DEFINE p == Before + i
  <2>1. p \in Nat BY <1>4
  <2>2. Data[i] = [val |-> v, frame |-> frame, pos |-> p, size |-> size] BY <1>1
  <2> HIDE DEF p
  <2> QED BY <1>2, <1>3, <1>6, <2>1, <2>2 DEF Cells
<1>8. /\ Data[i].val = v /\ Data[i].frame = frame
      /\ Data[i].pos = Before + i /\ Data[i].size = size
  BY <1>1
<1>9. Sound(Data[i])
  <2> DEFINE b == Data[i]
             p == Before + i
  <2>1. b.val = v /\ b.frame = frame /\ b.pos = p /\ b.size = size BY <1>8
  <2>2. frame \in 0 .. FrameIds - 1 /\ p \in 1 .. HEADER_SIZE + size BY <1>4, <1>6, Zenon
  <2>3. p \in 4 .. 7 => v = Byte(size, p - 4) BY <1>5, Zenon
  <2>4. size <= PKT_MAX BY SizeTypes
  <2> HIDE DEF b, p
  <2>5. Sound(b) BY <2>1, <2>2, <2>3, <2>4, Zenon DEF Sound
  <2> QED BY <2>5 DEF b
<1> QED BY <1>7, <1>8, <1>9 DEF SoundCells

\* After it only their values are left.
LEMMA LostBytes ==
  ASSUME AppTypes, failed # NoFrame, pc \in {"header", "payload"}, NEW i \in 1 .. Total
  PROVE  Data[i] \in SoundCells /\ Data[i].frame = NoFrame
<1> DEFINE v == IF pc = "header" THEN HeaderValues[i] ELSE pval
<1>1. Data[i] = [val |-> v, frame |-> NoFrame, pos |-> 0, size |-> 0]
  <2>1. CASE pc = "header"
    <3>1. Data = [j \in 1 .. HEADER_SIZE |-> Sent(HeaderValues[j], j)] BY <2>1 DEF Data
    <3>2. i \in 1 .. HEADER_SIZE BY <2>1 DEF Total
    <3>3. Data[i] = Sent(HeaderValues[i], i) BY <3>1, <3>2
    <3> QED BY <2>1, <3>3 DEF Sent
  <2>2. CASE pc # "header"
    <3>1. Data = [j \in 1 .. size |-> Sent(pval, HEADER_SIZE + j)] BY <2>2 DEF Data
    <3>2. i \in 1 .. size BY <2>2 DEF Total
    <3>3. Data[i] = Sent(pval, HEADER_SIZE + i) BY <3>1, <3>2
    <3> QED BY <2>2, <3>3 DEF Sent
  <2> QED BY <2>1, <2>2
<1>2. v \in Nat
  <2>1. CASE pc = "header"
    <3>1. i \in 1 .. 7 BY <2>1 DEF Total, HEADER_SIZE
    <3>2. HeaderValues[i] \in Nat BY <3>1, HeaderBytes
    <3> QED BY <2>1, <3>2
  <2>2. CASE pc # "header"
    BY <2>2, ByteAssumption, SMT DEF AppTypes
  <2> QED BY <2>1, <2>2
<1>3. NoFrame \in 0 .. NoFrame BY FrameAssumption, SMT DEF NoFrame
<1> HIDE DEF v
<1>4. Data[i] \in Cells BY <1>1, <1>2, <1>3 DEF Cells
<1>5. Data[i].frame = NoFrame BY <1>1
<1>6. Sound(Data[i]) BY <1>5 DEF Sound
<1> QED BY <1>4, <1>5, <1>6 DEF SoundCells

LEMMA DataLength ==
  ASSUME AppTypes, pc \in {"header", "payload"}
  PROVE  Data \in Seq(SoundCells) /\ Len(Data) = Total
<1>1. Total \in Nat BY SizeTypes
<1>2. \A i \in 1 .. Total : Data[i] \in SoundCells BY SentBytes, LostBytes
<1>3. Data = [i \in 1 .. Total |-> Data[i]]
  <2>1. CASE pc = "header" BY <2>1 DEF Data, Total
  <2>2. CASE pc # "header" BY <2>2 DEF Data, Total
  <2> QED BY <2>1, <2>2
<1>4. Data \in [1 .. Total -> SoundCells] BY <1>2, <1>3
<1>5. Data \in Seq(SoundCells) BY <1>1, <1>4, SeqDef
<1>6. DOMAIN Data = 1 .. Len(Data) /\ Len(Data) \in Nat BY <1>5, LenProperties
<1>7. DOMAIN Data = 1 .. Total BY <1>3
<1>8. Len(Data) = Total
  <2> DEFINE n == Len(Data)
  <2>1. n \in Nat /\ 1 .. n = 1 .. Total BY <1>6, <1>7
  <2> HIDE DEF n
  <2>2. n # 0 => n \in 1 .. Total
    <3>1. n # 0 => n \in 1 .. n BY <2>1, SMT
    <3> QED BY <2>1, <3>1, Zenon
  <2>3. Total # 0 => Total \in 1 .. n BY <1>1, <2>1
  <2>4. Total \in Nat BY <1>1
  <2>5. n <= Total /\ Total <= n BY <2>1, <2>2, <2>3, <2>4, SMT
  <2>6. n = Total BY <2>1, <2>4, <2>5, SMT
  <2> QED BY <2>6 DEF n
<1> QED BY <1>5, <1>8

\* A chunk is the next part of it, and not empty.
LEMMA ChunkBytes ==
  ASSUME AppTypes, pc \in {"header", "payload"}, sent_bytes < Len(Data)
  PROVE  /\ Chunk \in Seq(SoundCells)
         /\ Len(Chunk) \in Nat \ {0} /\ sent_bytes + Len(Chunk) <= Total
         /\ \A i \in 1 .. Len(Chunk) :
              sent_bytes + i \in 1 .. Total /\ Chunk[i] = Data[sent_bytes + i]
<1> DEFINE m == sent_bytes + 1
           n == IF Len(Data) - sent_bytes < ESP8266_SEND_MAX
                  THEN Len(Data) ELSE sent_bytes + ESP8266_SEND_MAX
<1>1. /\ Data \in Seq(SoundCells) /\ Len(Data) = Total
      /\ Total \in Nat /\ sent_bytes \in Nat /\ sent_bytes < Total
  BY DataLength, SizeTypes
<1>2. /\ m \in Int /\ n \in Int /\ m <= n /\ n <= Total
      /\ n - m + 1 = n - sent_bytes
      /\ \A i \in 1 .. n - m + 1 : sent_bytes + i \in 1 .. Total /\ m + i - 1 = sent_bytes + i
  BY <1>1, ChunkAssumption, SMT
<1>3. \A i \in m .. n : Data[i] \in SoundCells
  <2> SUFFICES ASSUME NEW i \in m .. n PROVE Data[i] \in SoundCells OBVIOUS
  <2>1. i \in 1 .. Len(Data) BY <1>1, <1>2, SMT
  <2> QED BY <1>1, <2>1, ElementOfSeq
<1>4. Chunk = SubSeq(Data, m, n) BY DEF Chunk
<1> HIDE DEF m, n
<1>5. /\ Chunk \in Seq(SoundCells) /\ Len(Chunk) = n - m + 1
      /\ \A i \in 1 .. n - m + 1 : Chunk[i] = Data[m + i - 1]
  BY <1>2, <1>3, <1>4, SubSeqProperties
<1>6. Len(Chunk) = n - sent_bytes BY <1>2, <1>5
<1>7. m = sent_bytes + 1 BY DEF m
<1>8. Len(Chunk) \in Nat \ {0} /\ sent_bytes + Len(Chunk) <= Total
  BY <1>1, <1>2, <1>6, <1>7, SMT
<1> QED BY <1>2, <1>5, <1>8

-----------------------------------------------------------------------------
(* Types                                                                   *)

LEMMA NextCallTypes ==
  ASSUME AppTypes, NextCall
  PROVE  /\ pc' \in {"header", "payload", "capture"}
         /\ type' \in {0, DATA_TYPE_JPG, DATA_TYPE_META_DATA}
         /\ size' \in JpgSizes \cup {0, META_SIZE} /\ pval' \in PayloadBytes \cup {0}
         /\ frame' \in 0 .. FrameIds - 1 /\ sent_bytes' = 0 /\ Total' \in Nat
<1> USE DEF AppTypes
<1>1. frame \in Nat BY SizeTypes
<1>2. /\ pc' \in {"header", "payload", "capture"} /\ sent_bytes' = 0
      /\ type' \in {0, DATA_TYPE_JPG, DATA_TYPE_META_DATA}
      /\ size' \in JpgSizes \cup {0, META_SIZE} /\ pval' \in PayloadBytes \cup {0}
  BY DEF NextCall, Begin
<1>3. frame' \in {frame, After(frame)} BY DEF NextCall, Begin
<1>4. frame' \in 0 .. FrameIds - 1 BY <1>1, <1>3, AfterFrame
<1>5. PKT_MAX \in Nat BY LimitAssumption
<1>6. size' \in 0 .. PKT_MAX BY <1>2, <1>5, SizeAssumption, SMT
<1>7. Total' \in Nat BY <1>5, <1>6, SMT DEF Total, HEADER_SIZE
<1> QED BY <1>2, <1>4, <1>7

LEMMA AppTypesStep == Types /\ [Next]_vars => AppTypes'
<1> SUFFICES ASSUME Types, [Next]_vars PROVE AppTypes' OBVIOUS
<1>0. AppTypes BY DEF Types
<1>1. CASE UNCHANGED app /\ UNCHANGED failed
  BY <1>0, <1>1 DEF AppTypes, app, Total
<1>2. CASE Connect
  BY <1>0, <1>2 DEF AppTypes, Total, Connect
<1>3. CASE Capture
  <2>1. PICK n \in JpgSizes, v \in PayloadBytes : Begin(DATA_TYPE_JPG, n, v)
    BY <1>3 DEF Capture
  <2>2. frame \in Nat /\ PKT_MAX \in Nat BY <1>0, SizeTypes
  <2>3. frame' \in {frame, After(frame)} BY <2>1 DEF Begin
  <2>4. frame' \in 0 .. FrameIds - 1 BY <1>0, <2>2, <2>3, AfterFrame DEF AppTypes
  <2>5. failed' = failed BY <1>3 DEF Capture
  <2>6. sent_bytes' = 0 /\ Total' = 7 BY <2>1 DEF Begin, Total, HEADER_SIZE
  <2>7. sent_bytes' \in 0 .. Total' BY <2>6
  <2> QED BY <1>0, <2>1, <2>4, <2>5, <2>7 DEF AppTypes, Begin
<1>4. CASE SendChunk
  <2>1. pc \in {"header", "payload"} /\ sent_bytes < Len(Data) BY <1>4 DEF SendChunk
  <2>2. /\ Len(Chunk) \in Nat /\ sent_bytes + Len(Chunk) <= Total
    BY <1>0, <2>1, ChunkBytes
  <2>3. sent_bytes' = sent_bytes + Len(Chunk) /\ Total' = Total BY <1>4 DEF SendChunk, Total
  <2>4. sent_bytes' \in 0 .. Total' BY <1>0, <2>2, <2>3, SizeTypes, SMT
  <2> QED BY <1>0, <1>4, <2>4 DEF AppTypes, SendChunk
<1>5. CASE SendDone \/ SendFails
  <2>1. NextCall BY <1>5 DEF SendDone, SendFails
  <2>2. sent_bytes' \in 0 .. Total' BY <1>0, <2>1, NextCallTypes, SMT
  <2>3. failed' \in 0 .. NoFrame
    <3>1. failed' \in {failed, frame} BY <1>5 DEF SendDone, SendFails
    <3>2. frame \in 0 .. NoFrame BY <1>0, FrameAssumption, SMT DEF AppTypes, NoFrame
    <3> QED BY <1>0, <3>1, <3>2 DEF AppTypes
  <2> QED BY <1>0, <2>1, <2>2, <2>3, NextCallTypes DEF AppTypes
<1>6. CASE Server \/ Offline \/ UNCHANGED vars
  <2>1. UNCHANGED app /\ UNCHANGED failed
    BY <1>6 DEF Server, Offline, vars, RecvHeader, ParseHeader, Resync, RecvContent, Show, ShowRaises
  <2> QED BY <1>1, <2>1
<1> QED BY <1>2, <1>3, <1>4, <1>5, <1>6 DEF Next, App

\* What sending and receiving does to a sequence of bytes.
LEMMA Appended ==
  ASSUME NEW w \in Seq(SoundCells), NEW c \in Seq(SoundCells)
  PROVE  /\ w \o c \in Seq(SoundCells) /\ Len(w \o c) = Len(w) + Len(c)
         /\ \A i \in 1 .. Len(w) : (w \o c)[i] = w[i]
         /\ \A i \in 1 .. Len(c) : (w \o c)[Len(w) + i] = c[i]
<1>1. Len(w) \in Nat /\ Len(c) \in Nat BY LenProperties
<1>2. /\ w \o c \in Seq(SoundCells) /\ Len(w \o c) = Len(w) + Len(c)
      /\ \A i \in 1 .. Len(w) + Len(c) :
           (w \o c)[i] = IF i <= Len(w) THEN w[i] ELSE c[i - Len(w)]
  BY ConcatProperties
<1>3. ASSUME NEW i \in 1 .. Len(w) PROVE (w \o c)[i] = w[i]
  BY <1>1, <1>2
<1>4. ASSUME NEW i \in 1 .. Len(c) PROVE (w \o c)[Len(w) + i] = c[i]
  <2>1. /\ Len(w) + i \in 1 .. Len(w) + Len(c) /\ ~(Len(w) + i <= Len(w))
        /\ (Len(w) + i) - Len(w) = i
    BY <1>1
  <2> QED BY <1>2, <2>1
<1> QED BY <1>2, <1>3, <1>4

LEMMA Split ==
  ASSUME NEW w \in Seq(SoundCells), NEW k \in 1 .. Len(w)
  PROVE  /\ SubSeq(w, 1, k) \in Seq(SoundCells) /\ Len(SubSeq(w, 1, k)) = k
         /\ \A i \in 1 .. k : SubSeq(w, 1, k)[i] = w[i]
         /\ SubSeq(w, k + 1, Len(w)) \in Seq(SoundCells)
         /\ Len(SubSeq(w, k + 1, Len(w))) = Len(w) - k
         /\ \A i \in 1 .. Len(w) - k : SubSeq(w, k + 1, Len(w))[i] = w[k + i]
<1>1. Len(w) \in Nat /\ k \in Nat /\ 1 <= k /\ k <= Len(w) BY LenProperties
<1>2. \A i \in 1 .. Len(w) : w[i] \in SoundCells BY ElementOfSeq
<1>3. \A i \in 1 .. k : w[i] \in SoundCells BY <1>1, <1>2
<1>4. \A i \in k + 1 .. Len(w) : w[i] \in SoundCells BY <1>1, <1>2
<1>5. /\ SubSeq(w, 1, k) \in Seq(SoundCells)
      /\ Len(SubSeq(w, 1, k)) = IF 1 <= k THEN k - 1 + 1 ELSE 0
      /\ \A i \in 1 .. k - 1 + 1 : SubSeq(w, 1, k)[i] = w[1 + i - 1]
  BY <1>1, <1>3, SubSeqProperties
<1>6. /\ SubSeq(w, k + 1, Len(w)) \in Seq(SoundCells)
      /\ Len(SubSeq(w, k + 1, Len(w))) = IF k + 1 <= Len(w) THEN Len(w) - (k + 1) + 1 ELSE 0
      /\ \A i \in 1 .. Len(w) - (k + 1) + 1 : SubSeq(w, k + 1, Len(w))[i] = w[k + 1 + i - 1]
  <2>1. k + 1 \in Int /\ Len(w) \in Int BY <1>1
  <2> QED BY <1>4, <2>1, SubSeqProperties
<1>7. /\ Len(SubSeq(w, 1, k)) = k /\ Len(SubSeq(w, k + 1, Len(w))) = Len(w) - k
  BY <1>1, <1>5, <1>6
<1>8. \A i \in 1 .. k : SubSeq(w, 1, k)[i] = w[i]
  <2>1. \A i \in 1 .. k : i \in 1 .. k - 1 + 1 /\ 1 + i - 1 = i BY <1>1
  <2> QED BY <1>5, <2>1
<1>9. \A i \in 1 .. Len(w) - k : SubSeq(w, k + 1, Len(w))[i] = w[k + i]
  <2>1. \A i \in 1 .. Len(w) - k : i \in 1 .. Len(w) - (k + 1) + 1 /\ k + 1 + i - 1 = k + i
    BY <1>1
  <2> QED BY <1>6, <2>1
<1> QED BY <1>5, <1>6, <1>7, <1>8, <1>9

LEMMA WireTypesStep == Types /\ [Next]_vars => WireTypes'
<1> SUFFICES ASSUME Types, [Next]_vars PROVE WireTypes' OBVIOUS
<1>0. AppTypes /\ WireTypes BY DEF Types
<1> USE DEF WireTypes
<1>1. CASE UNCHANGED wire
  BY <1>0, <1>1
<1>2. ASSUME pc \in {"header", "payload"}, sent_bytes < Len(Data),
             Len(wire) + Len(Chunk) <= WINDOW, wire' = wire \o Chunk
      PROVE  WireTypes'
  <2>1. Chunk \in Seq(SoundCells) BY <1>0, <1>2, ChunkBytes
  <2> QED BY <1>0, <1>2, <2>1, Appended
<1>3. ASSUME NEW n, NEW k, Recv(n, k) PROVE WireTypes'
  <2>1. k \in 1 .. n /\ k <= Len(wire) /\ wire' = SubSeq(wire, k + 1, Len(wire))
    BY <1>3 DEF Recv
  <2>2. Len(wire) \in Nat BY <1>0, LenProperties
  <2>3. k \in 1 .. Len(wire) BY <2>1, <2>2
  <2>4. Len(wire') = Len(wire) - k /\ wire' \in Seq(SoundCells) BY <1>0, <2>1, <2>3, Split
  <2>5. Len(wire') <= WINDOW BY <1>0, <2>2, <2>3, <2>4, WireAssumption, SMT
  <2> QED BY <2>4, <2>5
<1>4. CASE SendChunk
  BY <1>2, <1>4 DEF SendChunk
<1>5. CASE SendFails
  BY <1>1, <1>2, <1>5 DEF SendFails
<1>6. CASE RecvHeader
  BY <1>3, <1>6 DEF RecvHeader
<1>7. CASE Resync
  BY <1>3, <1>7 DEF Resync
<1>8. CASE RecvContent
  BY <1>3, <1>8 DEF RecvContent
<1>9. CASE Connect \/ Capture \/ SendDone \/ Offline \/ ParseHeader \/ Show \/ ShowRaises
             \/ UNCHANGED vars
  BY <1>1, <1>9 DEF Connect, Capture, SendDone, Offline, ParseHeader, Show, ShowRaises, vars
<1> QED BY <1>4, <1>5, <1>6, <1>7, <1>8, <1>9 DEF Next, App, Server

\* The header grows by what was received.
LEMMA HeaderGrows ==
  ASSUME WireTypes, HostTypes, NEW k, Recv(HEADER_SIZE - Len(header), k),
         header' = header \o Received(k)
  PROVE  /\ k \in 1 .. Len(wire) /\ Len(header) \in Nat
         /\ Len(header) + k <= HEADER_SIZE /\ Len(header') = Len(header) + k
         /\ header' \in Seq(SoundCells)
         /\ \A i \in 1 .. Len(header) : header'[i] = header[i]
         /\ \A i \in 1 .. k : header'[Len(header) + i] = wire[i]
<1>1. wire \in Seq(SoundCells) /\ header \in Seq(SoundCells) BY DEF WireTypes, HostTypes
<1>2. Len(wire) \in Nat /\ Len(header) \in Nat BY <1>1, LenProperties
<1>3. k \in 1 .. Len(wire) /\ k \in Nat /\ Len(header) + k <= HEADER_SIZE
  BY <1>2, SMT DEF Recv, HEADER_SIZE
<1>4. /\ Received(k) \in Seq(SoundCells) /\ Len(Received(k)) = k
      /\ \A i \in 1 .. k : Received(k)[i] = wire[i]
  BY <1>1, <1>3, Split DEF Received
<1> DEFINE c == Received(k)
           h == header'
<1>5. h = header \o c OBVIOUS
<1>6. c \in Seq(SoundCells) /\ Len(c) = k /\ \A i \in 1 .. k : c[i] = wire[i] BY <1>4
<1> HIDE DEF c, h
<1>7. /\ h \in Seq(SoundCells) /\ Len(h) = Len(header) + Len(c)
      /\ \A i \in 1 .. Len(header) : h[i] = header[i]
      /\ \A i \in 1 .. Len(c) : h[Len(header) + i] = c[i]
  BY <1>1, <1>5, <1>6, Appended
<1>8. \A i \in 1 .. k : h[Len(header) + i] = wire[i] BY <1>6, <1>7
<1> QED BY <1>2, <1>3, <1>6, <1>7, <1>8 DEF h

LEMMA LengthTypes ==
  ASSUME HostTypes, Len(header) >= HEADER_SIZE
  PROVE  /\ Len(header) = HEADER_SIZE
         /\ \A i \in 1 .. 4 : SubSeq(header, 4, 7)[i] = header[i + 3]
         /\ LittleEndian(SubSeq(header, 4, 7)) \in Nat
<1>1. header \in Seq(SoundCells) /\ Len(header) \in Nat BY LenProperties DEF HostTypes
<1>2. Len(header) = HEADER_SIZE /\ Len(header) = 7
  <2> DEFINE n == Len(header)
  <2>1. n <= HEADER_SIZE /\ n >= HEADER_SIZE /\ n \in Nat BY <1>1 DEF HostTypes
  <2> HIDE DEF n
  <2>2. n = HEADER_SIZE /\ n = 7 BY <2>1, SMT DEF HEADER_SIZE
  <2> QED BY <2>2 DEF n
<1>3. \A i \in 1 .. 7 : header[i] \in SoundCells BY <1>1, <1>2, ElementOfSeq
<1>4. \A i \in 4 .. 7 : header[i] \in SoundCells BY <1>3
<1> DEFINE b == SubSeq(header, 4, 7)
<1>5. \A i \in 1 .. 7 - 4 + 1 : b[i] = header[4 + i - 1]
  BY <1>4, SubSeqProperties
<1>6. \A i \in 1 .. 4 : b[i] = header[i + 3]
  <2>1. \A i \in 1 .. 4 : i \in 1 .. 7 - 4 + 1 /\ 4 + i - 1 = i + 3 OBVIOUS
  <2> QED BY <1>5, <2>1
<1>7. \A i \in 1 .. 4 : b[i] \in SoundCells
  <2>1. \A i \in 1 .. 4 : i + 3 \in 1 .. 7 OBVIOUS
  <2> QED BY <1>3, <1>6, <2>1
<1> HIDE DEF b
<1>8. \A i \in 1 .. 4 : b[i].val \in Nat BY <1>7 DEF SoundCells, Cells
<1>9. b[1].val \in Nat /\ b[2].val \in Nat /\ b[3].val \in Nat BY <1>8
<1>10. LittleEndian(b) \in Nat
  <2> DEFINE lo == b[1].val
             mid == b[2].val
             hi == b[3].val
  <2>1. LittleEndian(b) \in {PKT_MAX + 1, lo + 256 * mid + 65536 * hi} BY DEF LittleEndian
  <2>2. lo \in Nat /\ mid \in Nat /\ hi \in Nat BY <1>9
  <2>3. PKT_MAX \in Nat BY LimitAssumption
  <2> HIDE DEF lo, mid, hi
  <2>4. PKT_MAX + 1 \in Nat /\ lo + 256 * mid + 65536 * hi \in Nat BY <2>2, <2>3, SMT
  <2> QED BY <2>1, <2>4
<1> QED BY <1>2, <1>6, <1>10 DEF b

LEMMA HostTypesStep == Types /\ [Next]_vars => HostTypes'
<1> SUFFICES ASSUME Types, [Next]_vars PROVE HostTypes' OBVIOUS
<1>0. WireTypes /\ HostTypes BY DEF Types
<1>1. CASE UNCHANGED host
  BY <1>0, <1>1 DEF HostTypes, host
<1>2. CASE RecvHeader
  <2>1. PICK k \in 1 .. HEADER_SIZE :
          Recv(HEADER_SIZE - Len(header), k) /\ header' = header \o Received(k)
    BY <1>2 DEF RecvHeader
  <2>2. header' \in Seq(SoundCells) /\ Len(header') <= HEADER_SIZE
    BY <1>0, <2>1, HeaderGrows
  <2> QED BY <1>0, <1>2, <2>2 DEF HostTypes, RecvHeader
<1>3. CASE ParseHeader
  <2>1. /\ srv = "header" /\ Len(header) >= HEADER_SIZE /\ header' = header /\ due' = due
        /\ got' = 0 /\ pkt_len' = LittleEndian(SubSeq(header, 4, 7))
        /\ srv' = IF pkt_len' > PKT_MAX THEN "resync" ELSE "content"
    BY <1>3 DEF ParseHeader
  <2>2. genuine' \in BOOLEAN
    <3>1. genuine' = (due # failed /\
            \A i \in 1 .. HEADER_SIZE :
              header[i].frame = header[1].frame /\ header[i].pos = i)
      BY <1>3 DEF ParseHeader
    <3> QED BY <3>1, Zenon
  <2>3. Len(header) = HEADER_SIZE /\ pkt_len' \in Nat BY <1>0, <2>1, LengthTypes
  <2>4. PKT_MAX \in Nat BY LimitAssumption
  <2>5. srv' = "content" => got' <= pkt_len' /\ pkt_len' <= PKT_MAX BY <2>1, <2>3, <2>4, SMT
  <2>6. srv' \in {"resync", "content"} /\ got' \in 0 .. PKT_MAX BY <2>1, <2>4
  <2> QED BY <1>0, <2>1, <2>2, <2>3, <2>5, <2>6 DEF HostTypes
<1>4. CASE RecvContent
  <2>1. PICK k \in 1 .. PKT_MAX :
          /\ Recv(pkt_len - got, k) /\ got' = got + k
          /\ genuine' = (/\ genuine
                         /\ \A i \in 1 .. k :
                              /\ wire[i].frame = header[1].frame
                              /\ wire[i].pos = HEADER_SIZE + got + i)
    BY <1>4 DEF RecvContent
  <2>2. srv = "content" /\ UNCHANGED <<srv, header, pkt_len, due>> BY <1>4 DEF RecvContent
  <2>3. genuine' \in BOOLEAN BY <2>1, Zenon
  <2>4. k \in Nat /\ k <= pkt_len - got /\ PKT_MAX \in Nat
    <3>1. k \in 1 .. pkt_len - got BY <2>1 DEF Recv
    <3> QED BY <1>0, <3>1, LimitAssumption, SMT DEF HostTypes
  <2>5. got' <= pkt_len /\ got' \in 0 .. PKT_MAX
    <3>1. got \in Nat /\ pkt_len \in Nat /\ pkt_len <= PKT_MAX BY <1>0, <2>2, LimitAssumption DEF HostTypes
    <3> QED BY <2>1, <2>4, <3>1, SMT
  <2> QED BY <1>0, <2>2, <2>3, <2>5 DEF HostTypes
<1>5. CASE Show
  <2>1. /\ srv' = "header" /\ header' = <<>> /\ due' \in {due, After(due)}
        /\ UNCHANGED <<pkt_len, got, genuine>>
    BY <1>5 DEF Show
  <2>2. header' \in Seq(SoundCells) /\ Len(header') <= HEADER_SIZE
    BY <2>1, EmptySeq DEF HEADER_SIZE
  <2>3. due' \in 0 .. FrameIds - 1
    <3>1. due \in Nat BY <1>0, FrameAssumption, SMT DEF HostTypes
    <3> QED BY <1>0, <2>1, <3>1, AfterFrame DEF HostTypes
  <2> QED BY <1>0, <2>1, <2>2, <2>3 DEF HostTypes
<1>6. CASE ShowRaises
  BY <1>0, <1>6 DEF HostTypes, ShowRaises
<1>7. CASE App \/ Resync \/ UNCHANGED vars
  <2>1. UNCHANGED host
    BY <1>7 DEF App, Connect, Capture, SendChunk, SendDone, SendFails, Offline, Resync, vars
  <2> QED BY <1>1, <2>1
<1> QED BY <1>2, <1>3, <1>4, <1>5, <1>6, <1>7 DEF Next, Server

LEMMA TypesInit == Init => Types
<1> SUFFICES ASSUME Init PROVE Types OBVIOUS
<1>1. FrameIds - 1 \in 0 .. FrameIds - 1 /\ 0 \in 0 .. FrameIds - 1 /\ NoFrame \in 0 .. NoFrame
  BY FrameAssumption, SMT DEF NoFrame
<1>2. AppTypes BY <1>1 DEF Init, AppTypes, Total
<1>3. <<>> \in Seq(SoundCells) /\ Len(<<>>) = 0 BY EmptySeq
<1>4. WireTypes BY <1>3, WireAssumption DEF Init, WireTypes
<1>5. HostTypes
  <2>1. 0 \in 0 .. PKT_MAX BY LimitAssumption
  <2>2. Len(header) <= HEADER_SIZE /\ header \in Seq(SoundCells)
    BY <1>3 DEF Init, HEADER_SIZE
  <2> QED BY <1>1, <2>1, <2>2 DEF Init, HostTypes
<1> QED BY <1>2, <1>4, <1>5 DEF Types

LEMMA AlwaysTypes == Spec => []Types
<1>1. Types /\ [Next]_vars => Types'
  BY AppTypesStep, WireTypesStep, HostTypesStep DEF Types
<1> QED BY <1>1, TypesInit, PTL DEF Spec

\* Every variable keeps its type: no call sends more than it has to, the
\* connection and the header never hold more than they can, and no content is
\* longer than the length that was read for it (app_wifi.c:217,
\* tcp_server_example.py:35, 63).
THEOREM StreamTypeCorrect == Spec => []TypeOK
<1>1. Types => TypeOK
  <2> SUFFICES ASSUME Types PROVE TypeOK OBVIOUS
  <2>1. AppTypes /\ WireTypes /\ HostTypes BY DEF Types
  <2>2. sent_bytes \in 0 .. HEADER_SIZE + PKT_MAX
    <3>1. Total \in {HEADER_SIZE, size} BY DEF Total
    <3> QED BY <2>1, <3>1, SizeTypes, SMT DEF HEADER_SIZE
  <2>3. SoundCells \subseteq Cells BY DEF SoundCells
  <2>4. wire \in Seq(Cells) BY <2>1, <2>3, SeqMonotonic DEF WireTypes
  <2>5. header \in Seq(Cells) BY <2>1, <2>3, SeqMonotonic DEF HostTypes
  <2> QED BY <2>1, <2>2, <2>4, <2>5 DEF AppTypes, WireTypes, HostTypes, TypeOK
<1> QED BY <1>1, AlwaysTypes, PTL

-----------------------------------------------------------------------------
(* Sequences of bytes that follow each other                               *)

LEMMA CellTypes ==
  ASSUME NEW b \in SoundCells
  PROVE  /\ b.val \in Nat /\ b.pos \in Nat /\ b.size \in Nat /\ b.frame \in 0 .. NoFrame
         /\ b.frame # NoFrame => /\ b.frame \in 0 .. FrameIds - 1 /\ b.size <= PKT_MAX
                                 /\ b.pos \in 1 .. HEADER_SIZE + b.size
                                 /\ b.pos \in 4 .. 7 => b.val = Byte(b.size, b.pos - 4)
<1>1. b.val \in Nat /\ b.pos \in Nat /\ b.size \in Nat /\ b.frame \in 0 .. NoFrame
  BY DEF SoundCells, Cells
<1>2. Sound(b) BY DEF SoundCells
<1> QED BY <1>1, <1>2, Zenon DEF Sound

\* A chunk put behind bytes that follow each other, where it fits.
LEMMA ChainAppend ==
  ASSUME NEW x, NEW w \in Seq(SoundCells), NEW c \in Seq(SoundCells),
         Chain(x, w), Chain(x, c), c # <<>>,
         w # <<>> /\ Known(x, w[Len(w)]) => Fits(x, c[1], Following(w[Len(w)]))
  PROVE  /\ Chain(x, w \o c) /\ w \o c # <<>>
         /\ (w \o c)[1] = IF w = <<>> THEN c[1] ELSE w[1]
         /\ (w \o c)[Len(w \o c)] = c[Len(c)]
<1> DEFINE v == w \o c
<1>1. /\ v \in Seq(SoundCells) /\ Len(v) = Len(w) + Len(c)
      /\ \A i \in 1 .. Len(w) : v[i] = w[i]
      /\ \A i \in 1 .. Len(c) : v[Len(w) + i] = c[i]
  BY Appended
<1>2. Len(w) \in Nat /\ Len(c) \in Nat \ {0} /\ (w # <<>> => Len(w) \in Nat \ {0})
  BY LenProperties, EmptySeq
<1>3. w = <<>> => Len(w) = 0 BY EmptySeq
<1> HIDE DEF v
<1>4. Chain(x, v)
  <2> SUFFICES ASSUME NEW i \in 1 .. Len(v) - 1, Known(x, v[i])
               PROVE  Fits(x, v[i + 1], Following(v[i]))
    BY DEF Chain
  <2>1. CASE i < Len(w)
    <3>1. i \in 1 .. Len(w) - 1 /\ i \in 1 .. Len(w) /\ i + 1 \in 1 .. Len(w) BY <1>2, <2>1
    <3>2. v[i] = w[i] /\ v[i + 1] = w[i + 1] BY <1>1, <3>1
    <3> QED BY <3>1, <3>2, Zenon DEF Chain
  <2>2. CASE i = Len(w)
    <3>1. w # <<>> /\ i \in 1 .. Len(w) /\ 1 \in 1 .. Len(c) BY <1>2, <1>3, <2>2
    <3>2. v[i] = w[Len(w)] /\ v[i + 1] = c[1] BY <1>1, <2>2, <3>1
    <3> QED BY <3>1, <3>2, Zenon
  <2>3. CASE i > Len(w)
    <3> DEFINE j == i - Len(w)
    <3>1. /\ j \in 1 .. Len(c) - 1 /\ j \in 1 .. Len(c) /\ j + 1 \in 1 .. Len(c)
          /\ Len(w) + j = i /\ Len(w) + (j + 1) = i + 1
      BY <1>1, <1>2, <2>3
    <3> HIDE DEF j
    <3>2. v[i] = c[j] /\ v[i + 1] = c[j + 1] BY <1>1, <3>1
    <3> QED BY <3>1, <3>2, Zenon DEF Chain
  <2>4. i < Len(w) \/ i = Len(w) \/ i > Len(w) BY <1>2
  <2> QED BY <2>1, <2>2, <2>3, <2>4
<1>5. v # <<>> BY <1>1, <1>2, EmptySeq
<1>6. v[1] = IF w = <<>> THEN c[1] ELSE w[1]
  <2>1. CASE w = <<>>
    <3>1. 1 \in 1 .. Len(c) /\ Len(w) + 1 = 1 BY <1>2, <1>3, <2>1
    <3> QED BY <1>1, <2>1, <3>1
  <2>2. CASE w # <<>>
    <3>1. 1 \in 1 .. Len(w) BY <1>2, <2>2
    <3> QED BY <1>1, <2>2, <3>1
  <2> QED BY <2>1, <2>2
<1>7. v[Len(v)] = c[Len(c)]
  <2>1. Len(c) \in 1 .. Len(c) BY <1>2
  <2> QED BY <1>1, <2>1
<1> QED BY <1>4, <1>5, <1>6, <1>7 DEF v

\* Bytes taken from the front leave bytes that follow each other.
LEMMA ChainRest ==
  ASSUME NEW x, NEW w \in Seq(SoundCells), NEW k \in 1 .. Len(w), Chain(x, w)
  PROVE  LET v == SubSeq(w, k + 1, Len(w)) IN
         /\ Chain(x, v)
         /\ v # <<>> => /\ v[Len(v)] = w[Len(w)] /\ v[1] = w[k + 1]
                        /\ Known(x, w[k]) => Fits(x, v[1], Following(w[k]))
         /\ v = <<>> => k = Len(w)
<1> DEFINE v == SubSeq(w, k + 1, Len(w))
<1>1. /\ v \in Seq(SoundCells) /\ Len(v) = Len(w) - k
      /\ \A i \in 1 .. Len(w) - k : v[i] = w[k + i]
  BY Split
<1>2. Len(w) \in Nat /\ k \in Nat /\ k <= Len(w) /\ 1 <= k BY LenProperties
<1>3. Len(v) \in Nat /\ (v # <<>> => Len(v) \in Nat \ {0}) /\ (v = <<>> => Len(v) = 0)
  BY <1>1, LenProperties, EmptySeq
<1> HIDE DEF v
<1>4. Chain(x, v)
  <2> SUFFICES ASSUME NEW i \in 1 .. Len(v) - 1, Known(x, v[i])
               PROVE  Fits(x, v[i + 1], Following(v[i]))
    BY DEF Chain
  <2> DEFINE j == k + i
  <2>1. /\ i \in 1 .. Len(w) - k /\ i + 1 \in 1 .. Len(w) - k
        /\ j \in 1 .. Len(w) - 1 /\ k + (i + 1) = j + 1
    BY <1>1, <1>2
  <2>2. v[i] = w[j] /\ v[i + 1] = w[k + (i + 1)] BY <1>1, <2>1
  <2> HIDE DEF j
  <2>3. v[i + 1] = w[j + 1] BY <2>1, <2>2
  <2> QED BY <2>1, <2>2, <2>3, Zenon DEF Chain
<1>5. ASSUME v # <<>>
      PROVE  /\ v[Len(v)] = w[Len(w)] /\ v[1] = w[k + 1]
             /\ Known(x, w[k]) => Fits(x, v[1], Following(w[k]))
  <2>1. /\ Len(v) \in 1 .. Len(w) - k /\ k + Len(v) = Len(w) /\ 1 \in 1 .. Len(w) - k
        /\ k \in 1 .. Len(w) - 1
    BY <1>1, <1>2, <1>3, <1>5
  <2>2. v[Len(v)] = w[Len(w)] /\ v[1] = w[k + 1] BY <1>1, <2>1
  <2>3. Known(x, w[k]) => Fits(x, w[k + 1], Following(w[k])) BY <2>1, Zenon DEF Chain
  <2> QED BY <2>2, <2>3
<1>6. v = <<>> => k = Len(w) BY <1>1, <1>2, <1>3
<1> QED BY <1>4, <1>5, <1>6 DEF v

\* The first k bytes of w start behind byte p of frame f, which has that many left;
\* behind them is v.
Reads(x, w, v, k, f, p, s) ==
  /\ w \in Seq(SoundCells) /\ k \in 1 .. Len(w) /\ Chain(x, w)
  /\ f \in 0 .. FrameIds - 1 /\ f # x /\ p \in Nat /\ s \in Nat
  /\ w[1].frame = f /\ w[1].pos = p + 1 /\ w[1].size = s /\ p + k <= HEADER_SIZE + s
  /\ v = SubSeq(w, k + 1, Len(w))

\* They are those of frame f from byte p + 1 on.
LEMMA Run ==
  ASSUME NEW x, NEW w, NEW v, NEW k, NEW f, NEW p, NEW s, Reads(x, w, v, k, f, p, s)
  PROVE  \A j \in 1 .. k : w[j].frame = f /\ w[j].pos = p + j /\ w[j].size = s
<1>0. /\ w \in Seq(SoundCells) /\ k \in 1 .. Len(w) /\ Chain(x, w)
      /\ f \in 0 .. FrameIds - 1 /\ f # x /\ p \in Nat /\ s \in Nat
      /\ w[1].frame = f /\ w[1].pos = p + 1 /\ w[1].size = s /\ p + k <= HEADER_SIZE + s
      /\ v = SubSeq(w, k + 1, Len(w))
  BY DEF Reads
<1> DEFINE T == {j \in 1 .. k : w[j].frame = f /\ w[j].pos = p + j /\ w[j].size = s}
<1>1. k \in Nat /\ 1 <= k /\ Len(w) \in Nat /\ k <= Len(w) BY <1>0, LenProperties
<1>2. 1 \in T BY <1>0, <1>1
<1>3. ASSUME NEW j \in 1 .. k - 1, j \in T PROVE j + 1 \in T
  <2>1. w[j].frame = f /\ w[j].pos = p + j /\ w[j].size = s BY <1>3
  <2>2. /\ j \in 1 .. Len(w) - 1 /\ j + 1 \in 1 .. k /\ p + j # 0 /\ p + j < HEADER_SIZE + s
        /\ (p + j) + 1 = p + (j + 1) /\ (p + j) + 1 # 1
    <3>1. j \in Nat /\ 1 <= j /\ j + 1 <= k BY <1>1
    <3>2. p + j < p + k BY <1>0, <1>1, <3>1
    <3>3. HEADER_SIZE + s \in Nat BY <1>0, SMT DEF HEADER_SIZE
    <3>4. p + j < HEADER_SIZE + s BY <1>0, <1>1, <3>1, <3>2, <3>3
    <3> QED BY <1>0, <1>1, <3>1, <3>4
  <2>3. f # NoFrame BY <1>0, FrameAssumption, SMT DEF NoFrame
  <2>4. Known(x, w[j]) BY <1>0, <2>1, <2>3 DEF Known
  <2>5. Fits(x, w[j + 1], Following(w[j])) BY <1>0, <2>2, <2>4, Zenon DEF Chain
  <2>6. Following(w[j]) = [frame |-> f, pos |-> (p + j) + 1, size |-> s]
    BY <2>1, <2>2, Zenon DEF Following, Place
  <2> DEFINE b == w[j + 1]
             n == (p + j) + 1
  <2>7. Fits(x, b, [frame |-> f, pos |-> n, size |-> s]) BY <2>5, <2>6
  <2>8. n # 1 /\ n = p + (j + 1) BY <2>2
  <2> HIDE DEF b, n
  <2>9. b.frame = f /\ b.pos = n /\ b.size = s BY <1>0, <2>7, <2>8 DEF Fits, At
  <2> QED BY <2>2, <2>8, <2>9 DEF b
<1> HIDE DEF T
<1>4. 1 .. k \subseteq T BY <1>1, <1>2, <1>3, Steps
<1> QED BY <1>4 DEF T

\* Taking such a run, the reader comes to the place where the rest starts.
LEMMA Take ==
  ASSUME NEW x, NEW w, NEW v, NEW k, NEW f, NEW p, NEW s, Reads(x, w, v, k, f, p, s)
  PROVE  /\ Chain(x, v)
         /\ v # <<>> => v[Len(v)] = w[Len(w)] /\ Fits(x, v[1], Place(f, p + k, s))
         /\ v = <<>> => Following(w[Len(w)]) = Place(f, p + k, s) /\ Known(x, w[Len(w)])
<1>0. /\ w \in Seq(SoundCells) /\ k \in 1 .. Len(w) /\ Chain(x, w)
      /\ f \in 0 .. FrameIds - 1 /\ f # x /\ p \in Nat /\ s \in Nat
      /\ w[1].frame = f /\ w[1].pos = p + 1 /\ w[1].size = s /\ p + k <= HEADER_SIZE + s
      /\ v = SubSeq(w, k + 1, Len(w))
  BY DEF Reads
<1>1. k \in 1 .. k BY <1>0, LenProperties
<1>2. w[k].frame = f /\ w[k].pos = p + k /\ w[k].size = s BY <1>1, Run
<1>3. Following(w[k]) = Place(f, p + k, s) BY <1>2, Zenon DEF Following
<1>4. f # NoFrame BY <1>0, FrameAssumption, SMT DEF NoFrame
<1>5. Known(x, w[k]) BY <1>0, <1>2, <1>4, Zenon DEF Known
<1>6. /\ Chain(x, v)
      /\ v # <<>> => v[Len(v)] = w[Len(w)] /\ Fits(x, v[1], Following(w[k]))
      /\ v = <<>> => k = Len(w)
  <2> DEFINE r == SubSeq(w, k + 1, Len(w))
  <2>1. /\ Chain(x, r)
        /\ r # <<>> => r[Len(r)] = w[Len(w)] /\ Fits(x, r[1], Following(w[k]))
        /\ r = <<>> => k = Len(w)
    BY <1>0, <1>5, ChainRest
  <2>2. v = r BY <1>0
  <2> HIDE DEF r
  <2> QED BY <2>1, <2>2
<1> QED BY <1>3, <1>5, <1>6, Zenon

\* Before the first failure bytes fit a place of their own frame's numbers only if
\* they are at it.
LEMMA PlaceFrame ==
  ASSUME NEW f \in 0 .. FrameIds - 1, NEW p, NEW s
  PROVE  /\ Place(f, p, s).frame \in 0 .. FrameIds - 1
         /\ Place(f, p, s).frame # NoFrame
<1>1. f \in Nat BY FrameAssumption, SMT
<1>2. Place(f, p, s).frame \in {f, After(f)} BY DEF Place
<1>3. Place(f, p, s).frame \in 0 .. FrameIds - 1 BY <1>1, <1>2, AfterFrame
<1> QED BY <1>3, FrameAssumption, SMT DEF NoFrame

\* A chain without a failure is one with any.
LEMMA ChainAny ==
  ASSUME NEW w \in Seq(SoundCells), Chain(NoFrame, w), NEW x
  PROVE  Chain(x, w)
<1> SUFFICES ASSUME NEW i \in 1 .. Len(w) - 1, Known(x, w[i])
             PROVE  Fits(x, w[i + 1], Following(w[i]))
  BY DEF Chain
<1>1. w[i] \in SoundCells
  <2>1. i \in 1 .. Len(w) BY LenProperties
  <2> QED BY <2>1, ElementOfSeq
<1>2. w[i].frame # NoFrame BY DEF Known
<1>3. w[i].frame \in 0 .. FrameIds - 1 BY <1>1, <1>2, CellTypes
<1>4. Following(w[i]).frame # NoFrame BY <1>3, PlaceFrame DEF Following
<1>5. Fits(NoFrame, w[i + 1], Following(w[i])) BY <1>2, Zenon DEF Chain, Known
<1> QED BY <1>4, <1>5, Zenon DEF Fits

-----------------------------------------------------------------------------
(* Steps of the application                                                *)

\* Before a failure a chunk is a run of its frame from the application's place on.
LEMMA ChunkFits ==
  ASSUME AppTypes, failed = NoFrame, pc \in {"header", "payload"}, sent_bytes < Len(Data)
  PROVE  /\ \A x : Chain(x, Chunk) /\ Fits(x, Chunk[1], AppPlace)
         /\ Chunk[Len(Chunk)].frame = frame
         /\ Following(Chunk[Len(Chunk)]) = Place(frame, Given + Len(Chunk), size)
         /\ AppPlace.frame = frame
<1> DEFINE c == Chunk
           g == Given
<1>1. /\ Len(c) \in Nat \ {0} /\ sent_bytes + Len(c) <= Total
      /\ \A i \in 1 .. Len(c) : sent_bytes + i \in 1 .. Total /\ c[i] = Data[sent_bytes + i]
  BY ChunkBytes
<1>2. g = Before + sent_bytes /\ g \in Nat /\ g + Len(c) <= HEADER_SIZE + size
  BY <1>1, SizeTypes, SMT DEF Given, Before, Total, HEADER_SIZE
<1>3. \A i \in 1 .. Len(c) : c[i].frame = frame /\ c[i].size = size /\ c[i].pos = g + i
  <2> TAKE i \in 1 .. Len(c)
  <2>1. sent_bytes + i \in 1 .. Total /\ c[i] = Data[sent_bytes + i] BY <1>1
  <2>2. /\ c[i].frame = frame /\ c[i].size = size /\ c[i].pos = Before + (sent_bytes + i)
    BY <2>1, SentBytes
  <2>3. Before + (sent_bytes + i) = g + i BY <1>1, <1>2, SizeTypes, SMT DEF Before, HEADER_SIZE
  <2> QED BY <2>2, <2>3
<1>4. size \in Nat /\ frame # NoFrame BY SizeTypes
<1>5. AppPlace = Place(frame, g, size) BY DEF AppPlace
<1> HIDE DEF c, g
<1>6. ASSUME NEW x PROVE Chain(x, c)
  <2> SUFFICES ASSUME NEW i \in 1 .. Len(c) - 1 PROVE Fits(x, c[i + 1], Following(c[i]))
    BY DEF Chain
  <2>1. i \in 1 .. Len(c) /\ i + 1 \in 1 .. Len(c) BY <1>1
  <2>2. /\ c[i].frame = frame /\ c[i].size = size /\ c[i].pos = g + i
        /\ c[i + 1].frame = frame /\ c[i + 1].size = size /\ c[i + 1].pos = g + (i + 1)
    BY <1>3, <2>1
  <2>3. g + i # 0 /\ g + i < HEADER_SIZE + size /\ g + (i + 1) = (g + i) + 1
    <3>1. i \in Nat /\ 1 <= i /\ i < Len(c) BY <1>1
    <3>2. HEADER_SIZE + size \in Nat BY <1>4, SMT DEF HEADER_SIZE
    <3>3. g + i < g + Len(c) BY <1>1, <1>2, <3>1
    <3>4. g + i < HEADER_SIZE + size BY <1>1, <1>2, <3>1, <3>2, <3>3
    <3> QED BY <1>2, <3>1, <3>4
  <2> DEFINE b == c[i + 1]
             n == (g + i) + 1
  <2>4. Following(c[i]) = [frame |-> frame, pos |-> n, size |-> size]
    BY <2>2, <2>3, Zenon DEF Following, Place
  <2>5. b.frame = frame /\ b.size = size /\ b.pos = n BY <2>2, <2>3
  <2> HIDE DEF b, n
  <2>6. Fits(x, b, Following(c[i])) BY <2>4, <2>5 DEF Fits, At
  <2> QED BY <2>6 DEF b
<1>7. g < HEADER_SIZE + size
  <2>1. HEADER_SIZE + size \in Nat BY <1>4, SMT DEF HEADER_SIZE
  <2> QED BY <1>1, <1>2, <2>1
<1>8. At(c[1], AppPlace)
  <2>1. c[1].frame = frame /\ c[1].size = size /\ c[1].pos = g + 1
    <3>1. 1 \in 1 .. Len(c) BY <1>1
    <3> QED BY <1>3, <3>1
  <2>2. CASE g = 0
    <3>1. AppPlace = [frame |-> frame, pos |-> 1, size |-> 0] BY <1>5, <2>2 DEF Place
    <3>2. g + 1 = 1 BY <2>2
    <3> QED BY <2>1, <3>1, <3>2 DEF At
  <2>3. CASE g # 0
    <3>1. AppPlace = [frame |-> frame, pos |-> g + 1, size |-> size]
      BY <1>5, <1>7, <2>3, Zenon DEF Place
    <3> QED BY <2>1, <3>1, Zenon DEF At
  <2> QED BY <2>2, <2>3
<1>9. AppPlace.frame = frame
  <2>1. CASE g = 0 BY <1>5, <2>1 DEF Place
  <2>2. CASE g # 0
    <3>1. AppPlace = [frame |-> frame, pos |-> g + 1, size |-> size]
      BY <1>5, <1>7, <2>2, Zenon DEF Place
    <3> QED BY <3>1
  <2> QED BY <2>1, <2>2
<1>10. /\ c[Len(c)].frame = frame
       /\ Following(c[Len(c)]) = Place(frame, g + Len(c), size)
  <2>1. Len(c) \in 1 .. Len(c) BY <1>1
  <2>2. c[Len(c)].frame = frame /\ c[Len(c)].size = size /\ c[Len(c)].pos = g + Len(c)
    BY <1>3, <2>1
  <2> QED BY <2>2, Zenon DEF Following
<1>11. \A x : Chain(x, c) /\ Fits(x, c[1], AppPlace) BY <1>6, <1>8 DEF Fits
<1> QED BY <1>9, <1>10, <1>11 DEF c, g

\* After it nothing is asked of a chunk.
LEMMA ChunkLost ==
  ASSUME AppTypes, failed # NoFrame, pc \in {"header", "payload"}, sent_bytes < Len(Data)
  PROVE  Chain(failed, Chunk) /\ Chunk[Len(Chunk)].frame = NoFrame
<1> DEFINE c == Chunk
<1>1. /\ Len(c) \in Nat \ {0}
      /\ \A i \in 1 .. Len(c) : sent_bytes + i \in 1 .. Total /\ c[i] = Data[sent_bytes + i]
  BY ChunkBytes
<1>2. \A i \in 1 .. Len(c) : c[i].frame = NoFrame BY <1>1, LostBytes
<1> HIDE DEF c
<1>3. Chain(failed, c)
  <2>1. \A i \in 1 .. Len(c) - 1 : i \in 1 .. Len(c) BY <1>1
  <2> QED BY <1>2, <2>1 DEF Chain, Known
<1>4. Len(c) \in 1 .. Len(c) BY <1>1
<1> QED BY <1>2, <1>3, <1>4 DEF c

\* Where the server is does not change with a step of the application.
LEMMA HostSame ==
  ASSUME UNCHANGED host
  PROVE  due' = due /\ HostPlace' = HostPlace /\ (HasDue <=> HasDue')
<1>1. due' = due BY DEF host
<1>2. HostPlace' = HostPlace BY DEF host, HostPlace, Taken
<1>3. HasDue <=> HasDue' BY DEF host, HasDue
<1> QED BY <1>1, <1>2, <1>3

\* A step that moves no byte, and no place while none has failed.
LEMMA QuietStep ==
  ASSUME Stream, UNCHANGED host, wire' = wire, failed' = failed,
         failed = NoFrame => AppPlace' = AppPlace
  PROVE  Stream'
<1>1. due' = due /\ HostPlace' = HostPlace /\ (HasDue <=> HasDue') BY HostSame
<1>2. End' = End /\ EndKnown' = EndKnown BY <1>1 DEF End, EndKnown
<1>3. Chain(failed', wire') BY DEF Stream
<1>4. due' # failed' => HasDue' /\ (wire' # <<>> => Fits(failed', wire'[1], HostPlace'))
  BY <1>1, Zenon DEF Stream
<1>5. failed' = NoFrame => AppPlace' = End' BY <1>2 DEF Stream
<1>6. failed' # NoFrame /\ EndKnown' => End'.frame = failed' BY <1>2, Zenon DEF Stream
<1> QED BY <1>3, <1>4, <1>5, <1>6, Zenon DEF Stream

\* The next call of app_tcp_send starts where the last one has ended.
LEMMA NextCallPlace ==
  ASSUME AppTypes, failed = NoFrame, NextCall, sent_bytes >= Total, pc \in {"header", "payload"}
  PROVE  AppPlace' = AppPlace
<1>1. sent_bytes = Total /\ size \in Nat /\ frame \in Nat BY SizeTypes
<1>2. CASE pc = "header" /\ pc' = "payload" /\ sent_bytes' = 0 /\ UNCHANGED <<size, frame>>
  <2>1. Given = 7 BY <1>1, <1>2, SMT DEF Given, Before, Total, HEADER_SIZE
  <2>2. Given' = 7 BY <1>2, SMT DEF Given, Before, HEADER_SIZE
  <2> QED BY <1>2, <2>1, <2>2 DEF AppPlace
<1>3. CASE pc = "payload" /\ pc' = "capture" /\ UNCHANGED <<size, frame>>
  <2>1. Given = HEADER_SIZE + size BY <1>1, <1>3 DEF Given, Before, Total
  <2>2. Given' = HEADER_SIZE + size BY <1>3 DEF Given
  <2> QED BY <1>3, <2>1, <2>2 DEF AppPlace
<1>4. CASE pc = "payload" /\ \E v \in PayloadBytes : Begin(DATA_TYPE_META_DATA, META_SIZE, v)
  <2>1. Given = HEADER_SIZE + size BY <1>1, <1>4 DEF Given, Before, Total
  <2>2. AppPlace = [frame |-> After(frame), pos |-> 1, size |-> 0]
    <3>1. Given # 0 /\ ~(Given < HEADER_SIZE + size) BY <1>1, <2>1, SMT DEF HEADER_SIZE
    <3> QED BY <3>1, Zenon DEF AppPlace, Place
  <2>3. frame' = After(frame) /\ Given' = 0 BY <1>4 DEF Begin, Given, Before
  <2>4. AppPlace' = [frame |-> After(frame), pos |-> 1, size |-> 0]
    BY <2>3, Zenon DEF AppPlace, Place
  <2> QED BY <2>2, <2>4
<1> QED BY <1>2, <1>3, <1>4 DEF NextCall

LEMMA CapturePlace ==
  ASSUME AppTypes, failed = NoFrame, Capture
  PROVE  AppPlace' = AppPlace
<1>1. pc = "capture" /\ size \in Nat BY SizeTypes DEF Capture
<1>2. Given = HEADER_SIZE + size BY <1>1 DEF Given
<1>3. AppPlace = [frame |-> After(frame), pos |-> 1, size |-> 0]
  <2>1. Given # 0 /\ ~(Given < HEADER_SIZE + size) BY <1>1, <1>2, SMT DEF HEADER_SIZE
  <2> QED BY <2>1, Zenon DEF AppPlace, Place
<1>4. frame' = After(frame) /\ Given' = 0 BY DEF Capture, Begin, Given, Before
<1>5. AppPlace' = [frame |-> After(frame), pos |-> 1, size |-> 0]
  BY <1>4, Zenon DEF AppPlace, Place
<1> QED BY <1>3, <1>5

\* A chunk arrives in the connection: before a failure, or as the one that fails.
LEMMA ChunkArrives ==
  ASSUME Types, Stream, failed = NoFrame, pc \in {"header", "payload"},
         sent_bytes < Len(Data), wire' = wire \o Chunk, UNCHANGED host,
         failed' \in {NoFrame, frame},
         failed' = NoFrame => AppPlace' = Place(frame, Given + Len(Chunk), size)
  PROVE  Stream'
<1> DEFINE c == Chunk
           w == wire
           x == failed'
           v == w \o c
<1>0. AppTypes /\ WireTypes /\ HostTypes BY DEF Types
<1>1. w \in Seq(SoundCells) /\ c \in Seq(SoundCells) /\ c # <<>>
  <2>1. c \in Seq(SoundCells) /\ Len(c) # 0 BY <1>0, ChunkBytes
  <2> QED BY <1>0, <2>1, EmptySeq DEF WireTypes
<1>2. /\ Chain(x, c) /\ Fits(x, c[1], AppPlace) /\ c[Len(c)].frame = frame
      /\ Following(c[Len(c)]) = Place(frame, Given + Len(c), size)
  BY <1>0, ChunkFits
<1>3. AppPlace = End BY DEF Stream
<1>4. Chain(NoFrame, w) BY DEF Stream
<1>5. Chain(x, w) BY <1>1, <1>4, ChainAny
<1>6. due # NoFrame BY <1>0, FrameAssumption, SMT DEF HostTypes, NoFrame
<1>7. due' = due /\ HostPlace' = HostPlace /\ (HasDue <=> HasDue') BY HostSame
<1>8. HasDue /\ (w # <<>> => Fits(NoFrame, w[1], HostPlace)) BY <1>6, Zenon DEF Stream
<1>9. HostPlace.frame # NoFrame
  <2>1. due \in 0 .. FrameIds - 1 BY <1>0 DEF HostTypes
  <2> QED BY <2>1, PlaceFrame DEF HostPlace
<1>10. w # <<>> => Fits(x, c[1], Following(w[Len(w)])) BY <1>2, <1>3 DEF End
<1> HIDE DEF c, w
<1>11. /\ Chain(x, v) /\ v # <<>> /\ v[1] = (IF w = <<>> THEN c[1] ELSE w[1])
       /\ v[Len(v)] = c[Len(c)]
  BY <1>1, <1>2, <1>5, <1>10, ChainAppend
<1>12. wire' = v BY DEF v, w, c
<1> HIDE DEF v
<1>13. Fits(x, v[1], HostPlace)
  <2>1. CASE w = <<>>
    <3>1. HostPlace = AppPlace BY <1>3, <2>1 DEF End, w
    <3> QED BY <1>2, <1>11, <2>1, <3>1
  <2>2. CASE w # <<>> BY <1>8, <1>9, <1>11, <2>2, Zenon DEF Fits
  <2> QED BY <2>1, <2>2
<1>14. End' = Following(v[Len(v)]) BY <1>11, <1>12, Zenon DEF End
<1>15. EndKnown' = Known(x, v[Len(v)]) BY <1>11, <1>12, Zenon DEF EndKnown
<1>16. failed' = NoFrame => AppPlace' = End' BY <1>2, <1>11, <1>14 DEF c
<1>17. ~(failed' # NoFrame /\ EndKnown')
  <2>1. failed' # NoFrame => failed' = frame OBVIOUS
  <2> QED BY <1>2, <1>11, <1>15, <2>1, Zenon DEF Known
<1> QED BY <1>7, <1>8, <1>11, <1>12, <1>13, <1>16, <1>17, Zenon DEF Stream

\* A chunk arrives after a failure.
LEMMA ChunkFollows ==
  ASSUME Types, Stream, failed # NoFrame, pc \in {"header", "payload"},
         sent_bytes < Len(Data), wire' = wire \o Chunk, UNCHANGED host, failed' = failed
  PROVE  Stream'
<1> DEFINE c == Chunk
           w == wire
           v == w \o c
<1>0. AppTypes /\ WireTypes BY DEF Types
<1>1. w \in Seq(SoundCells) /\ c \in Seq(SoundCells) /\ c # <<>>
  <2>1. c \in Seq(SoundCells) /\ Len(c) # 0 BY <1>0, ChunkBytes
  <2> QED BY <1>0, <2>1, EmptySeq DEF WireTypes
<1>2. Chain(failed, c) /\ c[Len(c)].frame = NoFrame BY <1>0, ChunkLost
<1>3. Chain(failed, w) BY DEF Stream
<1>4. EndKnown => End.frame = failed BY Zenon DEF Stream
<1>5. due' = due /\ HostPlace' = HostPlace /\ (HasDue <=> HasDue') BY HostSame
<1>6. due # failed => HasDue /\ (w # <<>> => Fits(failed, w[1], HostPlace)) BY DEF Stream
<1>7. w # <<>> /\ Known(failed, w[Len(w)]) => Fits(failed, c[1], Following(w[Len(w)]))
  BY <1>4, Zenon DEF End, EndKnown, Fits
<1>8. w = <<>> /\ due # failed => HostPlace.frame = failed BY <1>4, Zenon DEF End, EndKnown
<1> HIDE DEF c, w
<1>9. /\ Chain(failed, v) /\ v # <<>> /\ v[1] = (IF w = <<>> THEN c[1] ELSE w[1])
      /\ v[Len(v)] = c[Len(c)]
  BY <1>1, <1>2, <1>3, <1>7, ChainAppend
<1>10. wire' = v BY DEF v, w, c
<1> HIDE DEF v
<1>11. due # failed => Fits(failed, v[1], HostPlace)
  BY <1>6, <1>8, <1>9, Zenon DEF Fits
<1>12. EndKnown' = Known(failed, v[Len(v)]) BY <1>9, <1>10, Zenon DEF EndKnown
<1>13. ~EndKnown' BY <1>2, <1>9, <1>12, Zenon DEF Known
<1> QED BY <1>5, <1>6, <1>9, <1>10, <1>11, <1>13, Zenon DEF Stream

\* The first failure of a write that puts nothing into the connection: it ends just
\* before the frame that failed, or in it.
LEMMA FirstFailure ==
  ASSUME Types, Stream, failed = NoFrame, pc \in {"header", "payload"},
         sent_bytes < Len(Data), wire' = wire, UNCHANGED host, failed' = frame
  PROVE  Stream'
<1>0. AppTypes /\ WireTypes /\ HostTypes BY DEF Types
<1>1. frame # NoFrame BY <1>0, SizeTypes
<1>2. wire \in Seq(SoundCells) BY <1>0 DEF WireTypes
<1>3. Chain(NoFrame, wire) BY DEF Stream
<1>4. Chain(frame, wire) BY <1>2, <1>3, ChainAny
<1>5. due' = due /\ HostPlace' = HostPlace /\ (HasDue <=> HasDue') BY HostSame
<1>6. due # NoFrame /\ due \in 0 .. FrameIds - 1
  BY <1>0, FrameAssumption, SMT DEF HostTypes, NoFrame
<1>7. HasDue /\ (wire # <<>> => Fits(NoFrame, wire[1], HostPlace)) BY <1>6, Zenon DEF Stream
<1>8. HostPlace.frame # NoFrame BY <1>6, PlaceFrame DEF HostPlace
<1>9. wire # <<>> => Fits(frame, wire[1], HostPlace) BY <1>7, <1>8, Zenon DEF Fits
<1>10. End.frame = frame
  <2>1. AppPlace = End BY DEF Stream
  <2>2. AppPlace.frame = frame BY <1>0, ChunkFits
  <2> QED BY <2>1, <2>2
<1>11. End' = End BY <1>5 DEF End
<1> QED BY <1>1, <1>4, <1>5, <1>7, <1>9, <1>10, <1>11, Zenon DEF Stream

LEMMA AppStep == Types /\ Stream /\ App => Stream'
<1> SUFFICES ASSUME Types, Stream, App PROVE Stream' OBVIOUS
<1>0. AppTypes BY DEF Types
<1>1. CASE Connect
  <2>1. AppPlace' = AppPlace
    <3>1. Given' = Given BY <1>1 DEF Connect, Given
    <3> QED BY <1>1, <3>1 DEF Connect, AppPlace
  <2> QED BY <1>1, <2>1, QuietStep DEF Connect
<1>2. CASE Capture
  <2>1. failed = NoFrame => AppPlace' = AppPlace BY <1>0, <1>2, CapturePlace
  <2> QED BY <1>2, <2>1, QuietStep DEF Capture
<1>3. CASE SendDone
  <2>1. pc \in {"header", "payload"} /\ sent_bytes >= Total /\ NextCall
    BY <1>0, <1>3, DataLength DEF SendDone
  <2>2. failed = NoFrame => AppPlace' = AppPlace BY <1>0, <2>1, NextCallPlace
  <2> QED BY <1>3, <2>2, QuietStep DEF SendDone
<1>4. CASE SendChunk
  <2>1. /\ pc \in {"header", "payload"} /\ sent_bytes < Len(Data)
        /\ wire' = wire \o Chunk /\ sent_bytes' = sent_bytes + Len(Chunk)
        /\ UNCHANGED <<pc, size, frame, host, failed>>
    BY <1>4 DEF SendChunk
  <2>2. CASE failed = NoFrame
    <3>1. Before' = Before BY <2>1 DEF Before
    <3>2. Before \in Nat /\ sent_bytes \in Nat /\ Len(Chunk) \in Nat
      BY <1>0, <2>1, SizeTypes, ChunkBytes, SMT DEF Before, HEADER_SIZE
    <3>3. Given = Before + sent_bytes /\ Given' = Before + sent_bytes'
      BY <2>1, <3>1 DEF Given
    <3>4. Given' = Given + Len(Chunk) BY <2>1, <3>2, <3>3, SMT
    <3>5. AppPlace' = Place(frame, Given + Len(Chunk), size) BY <2>1, <3>4 DEF AppPlace
    <3> QED BY <2>1, <2>2, <3>5, ChunkArrives
  <2>3. CASE failed # NoFrame
    BY <2>1, <2>3, ChunkFollows
  <2> QED BY <2>2, <2>3
<1>5. CASE SendFails
  <2>1. /\ pc \in {"header", "payload"} /\ sent_bytes < Len(Data) /\ UNCHANGED host
        /\ wire' = wire \/ wire' = wire \o Chunk
        /\ failed' = IF failed = NoFrame THEN frame ELSE failed
    BY <1>5 DEF SendFails
  <2>2. frame # NoFrame BY <1>0, SizeTypes
  <2>3. CASE failed = NoFrame /\ wire' = wire
    BY <2>1, <2>3, FirstFailure
  <2>4. CASE failed = NoFrame /\ wire' = wire \o Chunk
    BY <2>1, <2>2, <2>4, ChunkArrives
  <2>5. CASE failed # NoFrame /\ wire' = wire
    BY <2>1, <2>5, QuietStep
  <2>6. CASE failed # NoFrame /\ wire' = wire \o Chunk
    BY <2>1, <2>6, ChunkFollows
  <2> QED BY <2>1, <2>3, <2>4, <2>5, <2>6
<1>6. CASE Offline
  <2>1. AppPlace' = AppPlace BY <1>6 DEF Offline, vars, app, AppPlace, Given, Before
  <2> QED BY <1>6, <2>1, QuietStep DEF Offline, vars
<1> QED BY <1>1, <1>2, <1>3, <1>4, <1>5, <1>6 DEF App

-----------------------------------------------------------------------------
(* Steps of the server                                                     *)

LEMMA ServerWire ==
  ASSUME WireTypes, Server
  PROVE  \/ wire' = wire
         \/ \E k \in 1 .. Len(wire) : wire' = SubSeq(wire, k + 1, Len(wire))
<1>1. ASSUME NEW n, NEW k, Recv(n, k)
      PROVE  \E j \in 1 .. Len(wire) : wire' = SubSeq(wire, j + 1, Len(wire))
  <2>1. k \in 1 .. n /\ k <= Len(wire) /\ wire' = SubSeq(wire, k + 1, Len(wire))
    BY <1>1 DEF Recv
  <2>2. Len(wire) \in Nat BY LenProperties DEF WireTypes
  <2>3. k \in 1 .. Len(wire) BY <2>1, <2>2
  <2> QED BY <2>1, <2>3
<1>2. CASE RecvHeader BY <1>1, <1>2 DEF RecvHeader
<1>3. CASE Resync BY <1>1, <1>3 DEF Resync
<1>4. CASE RecvContent BY <1>1, <1>4 DEF RecvContent
<1>5. CASE ParseHeader \/ Show \/ ShowRaises BY <1>5 DEF ParseHeader, Show, ShowRaises
<1> QED BY <1>2, <1>3, <1>4, <1>5 DEF Server

\* Once the frame that failed is due, only the connection's end matters, and taking
\* bytes from its front does not change it.
LEMMA DueFailed ==
  ASSUME Types, Stream, Server, due = failed
  PROVE  Stream'
<1>0. WireTypes /\ HostTypes BY DEF Types
<1>1. failed' = failed /\ due' = due
  BY DEF Server, RecvHeader, ParseHeader, Resync, RecvContent, Show, ShowRaises, host
<1>2. failed # NoFrame BY <1>0, FrameAssumption, SMT DEF HostTypes, NoFrame
<1>3. wire \in Seq(SoundCells) BY <1>0 DEF WireTypes
<1>4. Chain(failed, wire) BY DEF Stream
<1>5. /\ Chain(failed, wire')
      /\ wire' # <<>> => wire # <<>> /\ wire'[Len(wire')] = wire[Len(wire)]
  <2>1. CASE wire' = wire BY <1>4, <2>1
  <2>2. CASE \E k \in 1 .. Len(wire) : wire' = SubSeq(wire, k + 1, Len(wire))
    <3>1. PICK k \in 1 .. Len(wire) : wire' = SubSeq(wire, k + 1, Len(wire)) BY <2>2
    <3>2. wire # <<>> BY <3>1, EmptySeq
    <3>3. /\ Chain(failed, wire')
          /\ wire' # <<>> => wire'[Len(wire')] = wire[Len(wire)]
      BY <1>3, <1>4, <3>1, ChainRest
    <3> QED BY <3>2, <3>3
  <2> QED BY <1>0, <2>1, <2>2, ServerWire
<1>6. EndKnown' => EndKnown /\ End' = End
  <2>1. ~(wire' = <<>> /\ EndKnown') BY <1>1 DEF EndKnown
  <2>2. CASE wire' # <<>> BY <1>1, <1>5, <2>2, Zenon DEF EndKnown, End
  <2> QED BY <2>1, <2>2
<1>7. EndKnown' => End'.frame = failed' BY <1>1, <1>2, <1>6, Zenon DEF Stream
<1> QED BY <1>1, <1>2, <1>5, <1>7, Zenon DEF Stream

\* A step of the server that takes no byte.
LEMMA HostTurns ==
  ASSUME Stream, due # failed, due' # failed' => HasDue', HostPlace' = HostPlace,
         wire' = wire, failed' = failed, UNCHANGED app
  PROVE  Stream'
<1>1. End' = End /\ (EndKnown' => EndKnown) BY DEF End, EndKnown
<1>2. AppPlace' = AppPlace BY DEF app, AppPlace, Given, Before
<1>3. Chain(failed', wire') BY DEF Stream
<1>4. due' # failed' => HasDue' /\ (wire' # <<>> => Fits(failed', wire'[1], HostPlace'))
  BY Zenon DEF Stream
<1>5. failed' = NoFrame => AppPlace' = End' BY <1>1, <1>2 DEF Stream
<1>6. failed' # NoFrame /\ EndKnown' => End'.frame = failed' BY <1>1, Zenon DEF Stream
<1> QED BY <1>3, <1>4, <1>5, <1>6, Zenon DEF Stream

\* One that takes k bytes of the frame due.
LEMMA HostTakes ==
  ASSUME Stream, due' = due, failed' = failed, UNCHANGED app,
         NEW k, NEW p, NEW s, Reads(failed, wire, wire', k, due, p, s),
         HostPlace' = Place(due, p + k, s), HasDue'
  PROVE  Stream'
<1> DEFINE w == wire
           v == wire'
<1>1. /\ Chain(failed, v)
      /\ v # <<>> => v[Len(v)] = w[Len(w)] /\ Fits(failed, v[1], Place(due, p + k, s))
      /\ v = <<>> => Following(w[Len(w)]) = Place(due, p + k, s) /\ Known(failed, w[Len(w)])
  BY Take
<1>2. w # <<>> BY EmptySeq DEF Reads
<1>3. AppPlace' = AppPlace BY DEF app, AppPlace, Given, Before
<1>4. End = Following(w[Len(w)]) /\ EndKnown = Known(failed, w[Len(w)])
  BY <1>2, Zenon DEF End, EndKnown
<1>5. End' = End
  <2>1. CASE v = <<>>
    <3>1. End' = HostPlace' BY <2>1 DEF End
    <3> QED BY <1>1, <1>4, <2>1, <3>1
  <2>2. CASE v # <<>>
    <3>1. End' = Following(v[Len(v)]) BY <2>2, Zenon DEF End
    <3> QED BY <1>1, <1>4, <2>2, <3>1, Zenon
  <2> QED BY <2>1, <2>2
<1>6. EndKnown' => EndKnown
  <2>1. CASE v = <<>> BY <1>1, <1>4, <2>1, Zenon
  <2>2. CASE v # <<>>
    <3>1. EndKnown' = Known(failed, v[Len(v)]) BY <2>2, Zenon DEF EndKnown
    <3> QED BY <1>1, <1>4, <2>2, <3>1, Zenon
  <2> QED BY <2>1, <2>2
<1>7. failed' = NoFrame => AppPlace' = End' BY <1>3, <1>5 DEF Stream
<1>8. failed' # NoFrame /\ EndKnown' => End'.frame = failed' BY <1>5, <1>6, Zenon DEF Stream
<1>9. due' # failed' => HasDue' /\ (v # <<>> => Fits(failed', v[1], HostPlace'))
  BY <1>1, Zenon
<1> QED BY <1>1, <1>7, <1>8, <1>9, Zenon DEF Stream

\* What the server has of the frame due.
LEMMA HeaderFrame ==
  ASSUME Types, HasDue, header # <<>>
  PROVE  /\ Len(header) \in 1 .. HEADER_SIZE
         /\ \A i \in 1 .. Len(header) :
              /\ header[i] \in SoundCells /\ header[i].frame = due
              /\ header[i].pos = i /\ header[i].size = header[1].size
         /\ header[1].frame = due /\ header[1].size \in 0 .. PKT_MAX
<1>1. /\ header \in Seq(SoundCells) /\ Len(header) <= HEADER_SIZE /\ due \in 0 .. FrameIds - 1
  BY DEF Types, HostTypes
<1>2. Len(header) \in 1 .. HEADER_SIZE /\ 1 \in 1 .. Len(header)
  <2> DEFINE n == Len(header)
  <2>1. n \in Nat /\ n # 0 /\ n <= HEADER_SIZE BY <1>1, LenProperties, EmptySeq
  <2> HIDE DEF n
  <2>2. n \in 1 .. HEADER_SIZE /\ 1 \in 1 .. n BY <2>1, SMT DEF HEADER_SIZE
  <2> QED BY <2>2 DEF n
<1>3. \A i \in 1 .. Len(header) :
        /\ header[i] \in SoundCells /\ header[i].frame = due
        /\ header[i].pos = i /\ header[i].size = header[1].size
  BY <1>1, ElementOfSeq DEF HasDue
<1>4. due # NoFrame BY <1>1, FrameAssumption, SMT DEF NoFrame
<1>5. header[1] \in SoundCells /\ header[1].frame = due BY <1>2, <1>3
<1>6. header[1].size \in Nat /\ header[1].size <= PKT_MAX BY <1>4, <1>5, CellTypes
<1>7. header[1].size \in 0 .. PKT_MAX BY <1>6, LimitAssumption
<1> QED BY <1>2, <1>3, <1>5, <1>7

\* The first byte in the connection is the one the server needs.
LEMMA FirstByte ==
  ASSUME WireTypes, Stream, due # failed, wire # <<>>, due \in 0 .. FrameIds - 1,
         NEW p \in Nat, NEW s \in Nat, p < HEADER_SIZE + s, HostPlace = Place(due, p, s)
  PROVE  /\ wire[1] \in SoundCells /\ wire[1].frame = due /\ wire[1].pos = p + 1
         /\ p # 0 => wire[1].size = s
<1>1. wire[1] \in SoundCells
  <2>1. Len(wire) \in Nat /\ Len(wire) # 0 BY LenProperties, EmptySeq DEF WireTypes
  <2>2. 1 \in 1 .. Len(wire) BY <2>1
  <2> QED BY <2>2, ElementOfSeq DEF WireTypes
<1>2. Fits(failed, wire[1], HostPlace) BY DEF Stream
<1>3. CASE p = 0
  <2>1. HostPlace = [frame |-> due, pos |-> 1, size |-> 0] BY <1>3 DEF Place
  <2>2. wire[1].frame = due /\ wire[1].pos = 1 BY <1>2, <2>1 DEF Fits, At
  <2> QED BY <1>1, <1>3, <2>2
<1>4. CASE p # 0
  <2> DEFINE n == p + 1
  <2>1. HostPlace = [frame |-> due, pos |-> n, size |-> s] BY <1>4, Zenon DEF Place
  <2>2. n # 1 BY <1>4
  <2> HIDE DEF n
  <2>3. wire[1].frame = due /\ wire[1].pos = n /\ wire[1].size = s
    BY <1>2, <2>1, <2>2 DEF Fits, At
  <2> QED BY <1>1, <2>3 DEF n
<1> QED BY <1>3, <1>4

LEMMA RecvHeaderStep ==
  ASSUME Types, Stream, RecvHeader, due # failed
  PROVE  Stream'
<1> DEFINE p == Len(header)
           s == IF p = 0 THEN wire[1].size ELSE header[1].size
<1>0. WireTypes /\ HostTypes /\ wire \in Seq(SoundCells) /\ due \in 0 .. FrameIds - 1
  BY DEF Types, WireTypes, HostTypes
<1>1. HasDue BY DEF Stream
<1>2. PICK k \in 1 .. HEADER_SIZE :
        Recv(HEADER_SIZE - Len(header), k) /\ header' = header \o Received(k)
  BY DEF RecvHeader
<1>3. /\ srv = "header" /\ srv' = "header" /\ p < HEADER_SIZE
      /\ UNCHANGED <<app, due, failed>>
  BY DEF RecvHeader
<1>4. /\ k \in 1 .. Len(wire) /\ p \in Nat
      /\ p + k <= HEADER_SIZE /\ Len(header') = p + k
      /\ \A i \in 1 .. p : header'[i] = header[i]
      /\ \A i \in 1 .. k : header'[p + i] = wire[i]
  BY <1>0, <1>2, HeaderGrows
<1>5. Len(wire) \in Nat /\ k \in Nat /\ 1 <= k BY <1>0, <1>4, LenProperties
<1>6. wire # <<>> /\ 1 \in 1 .. Len(wire)
  <2>1. Len(wire) # 0 BY <1>4, <1>5
  <2> QED BY <1>4, <1>5, <2>1, EmptySeq
<1>7. p # 0 => header # <<>> BY EmptySeq
<1>8. s \in Nat
  <2>1. CASE p = 0
    <3>1. wire[1] \in SoundCells BY <1>0, <1>6, ElementOfSeq
    <3>2. wire[1].size \in Nat BY <3>1, CellTypes
    <3> QED BY <2>1, <3>2
  <2>2. CASE p # 0
    <3>1. header[1].size \in 0 .. PKT_MAX BY <1>1, <1>7, <2>2, HeaderFrame
    <3> QED BY <2>2, <3>1
  <2> QED BY <2>1, <2>2
<1>9. \A i \in 1 .. p : header[i].frame = due /\ header[i].pos = i /\ header[i].size = s
  <2> TAKE i \in 1 .. p
  <2>1. header[i].frame = due /\ header[i].pos = i /\ header[i].size = header[1].size
    BY <1>1 DEF HasDue
  <2>2. p # 0 BY <1>4
  <2> QED BY <2>1, <2>2
<1>10. HostPlace = Place(due, p, s)
  <2>1. Taken = p BY <1>3 DEF Taken
  <2>2. CASE p = 0 BY <2>1, <2>2 DEF HostPlace, Place
  <2>3. CASE p # 0 BY <2>1, <2>3 DEF HostPlace
  <2> QED BY <2>2, <2>3
<1>11. p = 0 => s = wire[1].size OBVIOUS
<1>12. Len(header) = p OBVIOUS
<1> HIDE DEF p, s
<1>13. p + k <= HEADER_SIZE + s /\ p < HEADER_SIZE + s
  BY <1>3, <1>4, <1>5, <1>8, SMT DEF HEADER_SIZE
<1>14. wire[1].frame = due /\ wire[1].pos = p + 1 /\ wire[1].size = s
  <2>1. wire[1].frame = due /\ wire[1].pos = p + 1 /\ (p # 0 => wire[1].size = s)
    BY <1>0, <1>4, <1>6, <1>8, <1>10, <1>13, FirstByte
  <2> QED BY <1>11, <2>1
<1>15. Chain(failed, wire) BY DEF Stream
<1>16. wire' = SubSeq(wire, k + 1, Len(wire)) BY <1>2 DEF Recv
<1>17. Reads(failed, wire, wire', k, due, p, s)
  BY <1>0, <1>4, <1>8, <1>13, <1>14, <1>15, <1>16 DEF Reads
<1>18. \A j \in 1 .. k : wire[j].frame = due /\ wire[j].pos = p + j /\ wire[j].size = s
  BY <1>17, Run
<1>19. ASSUME NEW i \in 1 .. p + k
       PROVE  header'[i].frame = due /\ header'[i].pos = i /\ header'[i].size = s
  <2>1. CASE i <= p
    <3>1. i \in 1 .. p BY <1>4, <1>5, <2>1
    <3>2. header'[i] = header[i] BY <1>4, <3>1
    <3> QED BY <1>9, <3>1, <3>2
  <2>2. CASE ~(i <= p)
    <3> DEFINE j == i - p
    <3>1. j \in 1 .. k /\ p + j = i BY <1>4, <1>5, <2>2
    <3> HIDE DEF j
    <3>2. header'[i] = wire[j] BY <1>4, <3>1
    <3> QED BY <1>18, <3>1, <3>2
  <2> QED BY <2>1, <2>2
<1>20. 1 \in 1 .. p + k BY <1>4, <1>5
<1>21. header'[1].size = s BY <1>19, <1>20
<1>22. HasDue'
  <2>1. \A i \in 1 .. Len(header') :
          header'[i].frame = due' /\ header'[i].pos = i /\ header'[i].size = header'[1].size
    BY <1>3, <1>4, <1>19, <1>21
  <2> QED BY <1>3, <2>1 DEF HasDue
<1>23. HostPlace' = Place(due, p + k, s) BY <1>3, <1>4, <1>21 DEF HostPlace, Taken
<1> QED BY <1>3, <1>17, <1>22, <1>23, HostTakes

LEMMA RecvContentStep ==
  ASSUME Types, Stream, RecvContent, due # failed
  PROVE  Stream'
<1> DEFINE p == HEADER_SIZE + got
           s == header[1].size
<1>0. /\ WireTypes /\ wire \in Seq(SoundCells) /\ due \in 0 .. FrameIds - 1
      /\ got \in Nat /\ pkt_len \in Nat
  BY DEF Types, WireTypes, HostTypes
<1>1. HasDue BY DEF Stream
<1>2. PICK k \in 1 .. PKT_MAX :
        /\ Recv(pkt_len - got, k) /\ got' = got + k
        /\ genuine' = (/\ genuine
                       /\ \A i \in 1 .. k :
                            /\ wire[i].frame = header[1].frame
                            /\ wire[i].pos = HEADER_SIZE + got + i)
  BY DEF RecvContent
<1>3. srv = "content" /\ got < pkt_len /\ UNCHANGED <<app, srv, header, pkt_len, due, failed>>
  BY DEF RecvContent
<1>4. genuine /\ pkt_len = s BY <1>1, <1>3 DEF HasDue
<1>5. Len(header) = HEADER_SIZE BY <1>3 DEF Types, HostTypes
<1>6. header # <<>> BY <1>5, EmptySeq DEF HEADER_SIZE
<1>7. header[1].frame = due BY <1>1, <1>6, HeaderFrame
<1>8. /\ k \in 1 .. pkt_len - got /\ k <= Len(wire)
      /\ wire' = SubSeq(wire, k + 1, Len(wire))
  BY <1>2 DEF Recv
<1>9. Len(wire) \in Nat BY <1>0, LenProperties
<1>10. k \in 1 .. Len(wire) /\ wire # <<>>
  <2>1. k \in 1 .. Len(wire) /\ Len(wire) # 0 BY <1>0, <1>8, <1>9
  <2> QED BY <2>1, EmptySeq
<1>11. HostPlace = Place(due, p, s) BY <1>3 DEF HostPlace, Taken
<1>12. HostPlace' = Place(due, HEADER_SIZE + got', s) BY <1>3 DEF HostPlace, Taken
<1>13. /\ p \in Nat /\ p # 0 /\ p + k <= HEADER_SIZE + pkt_len /\ p < HEADER_SIZE + pkt_len
       /\ HEADER_SIZE + got' = p + k
  BY <1>0, <1>2, <1>3, <1>8, SMT DEF HEADER_SIZE
<1> HIDE DEF p, s
<1>14. s \in Nat /\ p + k <= HEADER_SIZE + s /\ p < HEADER_SIZE + s BY <1>0, <1>4, <1>13
<1>15. wire[1].frame = due /\ wire[1].pos = p + 1 /\ wire[1].size = s
  BY <1>0, <1>10, <1>11, <1>13, <1>14, FirstByte
<1>16. Chain(failed, wire) BY DEF Stream
<1>17. Reads(failed, wire, wire', k, due, p, s)
  BY <1>0, <1>8, <1>10, <1>13, <1>14, <1>15, <1>16 DEF Reads
<1>18. \A j \in 1 .. k : wire[j].frame = due /\ wire[j].pos = p + j /\ wire[j].size = s
  BY <1>17, Run
<1>19. genuine'
  <2>1. \A i \in 1 .. k : wire[i].frame = header[1].frame /\ wire[i].pos = HEADER_SIZE + got + i
    BY <1>7, <1>18 DEF p
  <2> QED BY <1>2, <1>4, <2>1
<1>20. HasDue' BY <1>1, <1>3, <1>19 DEF HasDue
<1>21. HostPlace' = Place(due, p + k, s) BY <1>12, <1>13
<1> QED BY <1>3, <1>17, <1>20, <1>21, HostTakes

LEMMA ParseHeaderStep ==
  ASSUME Types, Stream, ParseHeader, due # failed
  PROVE  Stream'
<1> DEFINE s == header[1].size
           b == SubSeq(header, 4, 7)
<1>0. HostTypes /\ due \in 0 .. FrameIds - 1 BY DEF Types, HostTypes
<1>1. HasDue BY DEF Stream
<1>2. /\ srv = "header" /\ Len(header) >= HEADER_SIZE /\ pkt_len' = LittleEndian(b) /\ got' = 0
      /\ srv' = IF pkt_len' > PKT_MAX THEN "resync" ELSE "content"
      /\ UNCHANGED <<app, wire, header, due, failed>>
  BY DEF ParseHeader
<1>3. genuine' = (due # failed /\
        \A i \in 1 .. HEADER_SIZE :
          header[i].frame = header[1].frame /\ header[i].pos = i)
  BY DEF ParseHeader
<1>4. Len(header) = HEADER_SIZE /\ \A i \in 1 .. 4 : b[i] = header[i + 3]
  BY <1>0, <1>2, LengthTypes
<1>5. header # <<>>
  <2>1. Len(header) = HEADER_SIZE BY <1>4
  <2> QED BY <2>1, EmptySeq DEF HEADER_SIZE
<1>6. /\ \A i \in 1 .. HEADER_SIZE :
           /\ header[i] \in SoundCells /\ header[i].frame = due
           /\ header[i].pos = i /\ header[i].size = s
      /\ header[1].frame = due /\ s \in 0 .. PKT_MAX
  BY <1>1, <1>4, <1>5, HeaderFrame
<1>7. due # NoFrame BY <1>0, FrameAssumption, SMT DEF NoFrame
<1> HIDE DEF s, b
<1>8. \A i \in 1 .. 4 : b[i].val = Byte(s, i - 1)
  <2> TAKE i \in 1 .. 4
  <2> DEFINE j == i + 3
  <2>1. j \in 1 .. HEADER_SIZE /\ j \in 4 .. 7 /\ j - 4 = i - 1 BY SMT DEF HEADER_SIZE
  <2>2. b[i] = header[j] BY <1>4
  <2> HIDE DEF j
  <2> DEFINE c == header[j]
  <2>3. c \in SoundCells /\ c.frame = due /\ c.pos = j /\ c.size = s BY <1>6, <2>1
  <2> HIDE DEF c
  <2>4. c.pos \in 4 .. 7 => c.val = Byte(c.size, c.pos - 4) BY <1>7, <2>3, CellTypes
  <2>5. header[j].val = Byte(s, j - 4)
    <3>1. c.val = Byte(s, j - 4) BY <2>1, <2>3, <2>4
    <3> QED BY <3>1 DEF c
  <2> QED BY <2>1, <2>2, <2>5
<1>9. LittleEndian(b) = s BY <1>6, <1>8, LengthRead
<1>10. srv' = "content"
  <2>1. s \in Nat /\ s <= PKT_MAX /\ PKT_MAX \in Nat BY <1>6, LimitAssumption
  <2>2. ~(s > PKT_MAX) BY <2>1
  <2> QED BY <1>2, <1>9, <2>2
<1>11. genuine' BY <1>3, <1>6
<1>12. header'[1].size = s BY <1>2 DEF s
<1>13. HasDue'
  <2>1. \A i \in 1 .. Len(header') :
          header'[i].frame = due' /\ header'[i].pos = i /\ header'[i].size = header'[1].size
    BY <1>2, <1>4, <1>6, <1>12
  <2> QED BY <1>2, <1>9, <1>10, <1>11, <1>12, <2>1 DEF HasDue
<1>14. HostPlace' = HostPlace
  <2>1. Taken = 7 BY <1>2, <1>4 DEF Taken, HEADER_SIZE
  <2>2. Taken' = 7 BY <1>2, <1>10 DEF Taken, HEADER_SIZE
  <2> QED BY <1>2, <2>1, <2>2 DEF HostPlace
<1> QED BY <1>2, <1>13, <1>14, HostTurns

LEMMA ShowStep ==
  ASSUME Types, Stream, Show, due # failed
  PROVE  Stream'
<1> DEFINE s == header[1].size
<1>0. due \in 0 .. FrameIds - 1 /\ got \in Nat /\ pkt_len \in Nat
  BY DEF Types, HostTypes
<1>1. HasDue BY DEF Stream
<1>2. /\ srv = "content" /\ got >= pkt_len /\ srv' = "header" /\ header' = <<>>
      /\ due' = After(due) /\ UNCHANGED <<app, wire, failed>>
  BY DEF Show, Complete
<1>3. pkt_len = s /\ got <= pkt_len BY <1>1, <1>2 DEF HasDue, Types, HostTypes
<1>4. HostPlace = Place(due, HEADER_SIZE + got, s) BY <1>2 DEF HostPlace, Taken
<1> HIDE DEF s
<1>5. HEADER_SIZE + got # 0 /\ ~(HEADER_SIZE + got < HEADER_SIZE + s)
  BY <1>0, <1>2, <1>3, SMT DEF HEADER_SIZE
<1>6. HostPlace = [frame |-> After(due), pos |-> 1, size |-> 0]
  BY <1>4, <1>5, Zenon DEF Place
<1>7. HostPlace' = [frame |-> After(due), pos |-> 1, size |-> 0]
  <2>1. Taken' = 0 BY <1>2, EmptySeq DEF Taken
  <2> QED BY <1>2, <2>1, Zenon DEF HostPlace, Place
<1>8. HasDue'
  <2>1. Len(header') = 0 BY <1>2, EmptySeq
  <2> QED BY <1>2, <2>1 DEF HasDue
<1> QED BY <1>2, <1>6, <1>7, <1>8, HostTurns

LEMMA ServerStep == Types /\ Stream /\ Server => Stream'
<1> SUFFICES ASSUME Types, Stream, Server PROVE Stream' OBVIOUS
<1>1. CASE due = failed BY <1>1, DueFailed
<1>2. CASE due # failed
  <2>1. HasDue BY <1>2 DEF Stream
  <2>2. CASE RecvHeader BY <1>2, <2>2, RecvHeaderStep
  <2>3. CASE ParseHeader BY <1>2, <2>3, ParseHeaderStep
  <2>4. CASE RecvContent BY <1>2, <2>4, RecvContentStep
  <2>5. CASE Show BY <1>2, <2>5, ShowStep
  <2>6. ~Resync BY <2>1 DEF HasDue, Resync
  <2>7. ~ShowRaises BY <2>1 DEF HasDue, ShowRaises, Complete
  <2> QED BY <2>2, <2>3, <2>4, <2>5, <2>6, <2>7 DEF Server
<1> QED BY <1>1, <1>2

-----------------------------------------------------------------------------
(* The stream                                                              *)

LEMMA StreamInit == Init => Stream
<1> SUFFICES ASSUME Init PROVE Stream OBVIOUS
<1>1. /\ wire = <<>> /\ header = <<>> /\ srv = "header" /\ due = 0 /\ pc = "start"
      /\ frame = FrameIds - 1 /\ size = 0 /\ failed = NoFrame /\ Len(<<>>) = 0
  BY EmptySeq DEF Init
<1>2. Chain(failed, wire) BY <1>1 DEF Chain
<1>3. HasDue BY <1>1 DEF HasDue
<1>4. HostPlace = [frame |-> 0, pos |-> 1, size |-> 0]
  <2>1. Taken = 0 BY <1>1 DEF Taken
  <2> QED BY <1>1, <2>1, Zenon DEF HostPlace, Place
<1>5. AppPlace = [frame |-> 0, pos |-> 1, size |-> 0]
  <2>1. Given = 7 BY <1>1 DEF Given, HEADER_SIZE
  <2>2. 7 # 0 /\ ~(7 < HEADER_SIZE + 0) BY DEF HEADER_SIZE
  <2>3. After(frame) = 0 BY <1>1, AfterFrame
  <2> QED BY <1>1, <2>1, <2>2, <2>3, Zenon DEF AppPlace, Place
<1>6. AppPlace = End BY <1>1, <1>4, <1>5 DEF End
<1> QED BY <1>1, <1>2, <1>3, <1>6 DEF Stream

LEMMA AlwaysIInv == Spec => []IInv
<1>1. Init => IInv BY TypesInit, StreamInit DEF IInv
<1>2. IInv /\ [Next]_vars => IInv'
  <2> SUFFICES ASSUME IInv, [Next]_vars PROVE IInv' OBVIOUS
  <2>1. Types /\ Stream BY DEF IInv
  <2>2. Types' BY <2>1, AppTypesStep, WireTypesStep, HostTypesStep DEF Types
  <2>3. Stream'
    <3>1. CASE App BY <2>1, <3>1, AppStep
    <3>2. CASE Server BY <2>1, <3>2, ServerStep
    <3>3. CASE UNCHANGED vars
      <4>1. AppPlace' = AppPlace BY <3>3 DEF vars, app, AppPlace, Given, Before
      <4> QED BY <2>1, <3>3, <4>1, QuietStep DEF vars
    <3> QED BY <3>1, <3>2, <3>3 DEF Next
  <2> QED BY <2>2, <2>3 DEF IInv
<1> QED BY <1>1, <1>2, PTL DEF Spec

\* Up to the first frame a write failed for, what the server shows is the next
\* frame, whole and unmixed and of the length it was sent with, however the chunks
\* (app_wifi.c:217) and the pieces of recv (tcp_server_example.py:35, 63) are cut.
THEOREM ShownIsNext == Spec => []ShowsNextFrame
<1>1. IInv => ShowsNextFrame
  <2> SUFFICES ASSUME Types, Stream, Complete, due # failed
               PROVE  genuine /\ header[1].frame = due /\ pkt_len = header[1].size
    BY DEF IInv, ShowsNextFrame
  <2>1. HasDue /\ srv = "content" BY DEF Stream, Complete
  <2>2. Len(header) = HEADER_SIZE BY <2>1 DEF Types, HostTypes
  <2>3. header # <<>> BY <2>2, EmptySeq DEF HEADER_SIZE
  <2>4. header[1].frame = due BY <2>1, <2>3, HeaderFrame
  <2> QED BY <2>1, <2>4 DEF HasDue
<1> QED BY <1>1, AlwaysIInv, PTL

=============================================================================
