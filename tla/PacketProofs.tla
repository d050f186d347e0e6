---------------------------- MODULE PacketProofs ----------------------------
(***************************************************************************)
(* Proofs about PacketUse, for every number of blocks and slots, every     *)
(* length and every time of day.                                           *)
(***************************************************************************)
EXTENDS PacketUse, TLAPS

-----------------------------------------------------------------------------
(***************************************************************************)
(* Types: the operators of PacketCodec.                                    *)
(***************************************************************************)
LEMMA Constants ==
  /\ MAX_PAYLOAD_SIZE \in Nat \ {0}
  /\ MAX_WINDOW_SIZE \in Nat \ {0}
  /\ RCV_WINDOW \in 1 .. MAX_WINDOW_SIZE
  /\ SEQ_MOD \in Nat \ {0} /\ 1 \in 0 .. MAX_WINDOW_SIZE
  /\ NULL \notin Cells
  /\ HEADER_SIZE = 12 /\ CRC_SIZE = 4
  /\ Lengths \subseteq Nat /\ SeqNums \subseteq Nat /\ 0 \in SeqNums
  BY PacketAssumption, WindowAssumption, SeqModAssumption
     DEF PacketAssumption, WindowAssumption, SeqModAssumption, HEADER_SIZE, CRC_SIZE,
         Lengths, SeqNums

LEMMA TimeType == Times \subseteq Nat /\ 0 \in Times
<1>1. TIME_BYTE * TIME_BYTE \in Nat \ {0}
  BY PacketAssumption
<1> QED
  BY <1>1 DEF Times

LEMMA TimeBytes ==
  ASSUME NEW t \in Times
  PROVE  /\ LowByte(t) \in Times
         /\ t < TIME_BYTE \div 2 => LowByte(t) = t
<1> DEFINE B == TIME_BYTE
           S == TIME_BYTE * TIME_BYTE
<1>1. B \in Nat \ {0} /\ Times = 0 .. S - 1
  BY PacketAssumption DEF Times
<1>2. S \in Int /\ S >= B
  BY <1>1
<1>3. t % B \in 0 .. B - 1 /\ (t < B => t % B = t) /\ t \in Nat
  BY <1>1, <1>2
<1>4. B \div 2 \in Nat /\ B \div 2 <= B
  BY <1>1
<1>5. LowByte(t) = IF t % B < B \div 2 THEN t % B ELSE S - B + (t % B)
  BY DEF LowByte
<1> HIDE DEF B, S
<1> QED
  BY <1>1, <1>2, <1>3, <1>4, <1>5 DEF B, S

LEMMA SetterTypes ==
  ASSUME NEW p \in Packets, NEW n \in Nat, NEW s \in SeqNums, NEW t \in Times,
         NEW c \in Cells
  PROVE  /\ SetType(p, n) \in Packets /\ SetTr(p, n) \in Packets
         /\ SetWindow(p, n) \in Packets /\ SetSeqnum(p, s) \in Packets
         /\ SetTimestamp(p, t) \in Packets /\ SetLength(p, n) \in Packets
         /\ SetPayload(p, n, c) \in Packets /\ FirstSetPayload(p, n, c) \in Packets
<1> USE Constants DEF Packets, SetType, SetTr, SetWindow, SetSeqnum, SetTimestamp
<1>1. SetType(p, n) \in Packets
  BY DEF ValidType, PTYPE_DATA, PTYPE_ACK, PTYPE_NACK
<1>2. SetTr(p, n) \in Packets
  BY DEF ValidTr
<1>3. SetWindow(p, n) \in Packets
  BY DEF ValidWindow
<1>4. SetSeqnum(p, s) \in Packets /\ SetTimestamp(p, t) \in Packets
  OBVIOUS
<1>5. SetLength(p, n) \in Packets
  BY DEF SetLength, ValidLength, Lengths
<1>6. SetPayload(p, n, c) \in Packets /\ FirstSetPayload(p, n, c) \in Packets
  BY <1>5 DEF SetPayload, FirstSetPayload
<1> QED
  BY <1>1, <1>2, <1>3, <1>4, <1>5, <1>6

LEMMA NewPacketType ==
  ASSUME NEW x \in Cells \cup {NULL}
  PROVE  NewPacket(x) \in Packets
BY Constants, TimeType DEF NewPacket, Packets, PTYPE_DATA, Lengths

LEMMA EncodeType ==
  ASSUME NEW p \in Packets, NEW b \in Blocks
  PROVE  Encode(p, b) \in Frames
<1> USE Constants
<1>1. GetLength(p) \in Nat /\ Bytes(Junk, 0) \in Blocks
  BY DEF GetLength, Packets, Bytes, Blocks, Junk, Lengths
<1>2. FirstBytes(b, GetLength(p)) \in Blocks
  BY <1>1 DEF FirstBytes, Bytes, Blocks, Junk
<1>3. HeaderOf(p) \in Headers
  BY DEF HeaderOf, Headers, Packets
<1> QED
  BY <1>1, <1>2, <1>3 DEF Encode, NoBytes, Frames, Packets, Lengths

LEMMA OverwrittenType ==
  ASSUME TypeOK, NEW p \in Packets, NEW b \in Blocks
  PROVE  Overwritten(p, b) \in Frames
<1> DEFINE w == Encode(p, b)
           older == [w EXCEPT !.BODY = buf.BODY, !.CRC2 = buf.CRC2]
<1>1. w \in Frames /\ buf \in Frames
  BY EncodeType DEF TypeOK
<1> HIDE DEF w
<1>2. older \in Frames
  BY <1>1 DEF Frames
<1>3. [older EXCEPT !.BODY.data = Junk] \in Frames
  <2>1. [older.BODY EXCEPT !.data = Junk] \in Blocks
    <3>1. older.BODY \in Blocks
      BY <1>2 DEF Frames
    <3> HIDE DEF older
    <3> QED
      BY <3>1 DEF Blocks, Junk
  <2>2. [older EXCEPT !.BODY = [older.BODY EXCEPT !.data = Junk]] \in Frames
    BY <1>2, <2>1 DEF Frames
  <2> QED
    BY <1>2, <2>2
<1>4. p.TR \in {0, 1} /\ GetLength(p) \in Nat
  BY Constants DEF Packets, GetLength
<1> HIDE DEF older
<1> QED
  BY <1>1, <1>2, <1>3, <1>4 DEF Overwritten, w, older

LEMMA BodyType ==
  ASSUME NEW w \in Frames
  PROVE  BodyOf(w) \in Blocks /\ BodyOf(w).len = w.LENGTH
BY DEF BodyOf, FirstBytes, Bytes, Frames, Blocks, Junk

LEMMA DecodedTypes ==
  ASSUME NEW p \in Packets, NEW w \in Frames, NEW n \in Nat,
         NEW c \in Cells \cup {NULL}, StoresPayload(w, n) => c \in Cells
  PROVE  /\ DecodedHeader(p, w, n) \in Packets
         /\ DecodedHeader(p, w, n).PAYLOAD = p.PAYLOAD
         /\ Decoded(p, w, n, c) \in Packets
<1> DEFINE first == [p EXCEPT !.TYPE = w.TYPE, !.TR = w.TR, !.WINDOW = w.WINDOW,
                              !.SEQNUM = w.SEQNUM]
<1>1. first \in Packets /\ first.PAYLOAD = p.PAYLOAD
  BY DEF Packets, Frames
<1>2. w.LENGTH \in Nat /\ w.TIMESTAMP \in Times
  BY DEF Frames
<1> HIDE DEF first
<1>3. ASSUME ValidLength(w.LENGTH)
      PROVE  /\ SetTimestamp(SetLength(first, w.LENGTH), w.TIMESTAMP) \in Packets
             /\ SetTimestamp(SetLength(first, w.LENGTH), w.TIMESTAMP).PAYLOAD = p.PAYLOAD
  <2>1. SetLength(first, w.LENGTH) \in Packets
        /\ SetLength(first, w.LENGTH).PAYLOAD = p.PAYLOAD
    BY <1>1, <1>2, <1>3, Constants DEF Packets, SetLength, ValidLength, Lengths
  <2> QED
    BY <1>2, <2>1 DEF Packets, SetTimestamp
<1>4. /\ DecodedHeader(p, w, n) \in Packets
      /\ DecodedHeader(p, w, n).PAYLOAD = p.PAYLOAD
  BY <1>1, <1>3 DEF DecodedHeader, first
<1>5. ASSUME StoresPayload(w, n)
      PROVE  SetPayload(DecodedHeader(p, w, n), w.LENGTH, c) \in Packets
  <2>1. c \in Cells /\ SeqNums # {} /\ Times # {}
    BY <1>5, Constants, TimeType
  <2> QED
    BY <1>2, <1>4, <2>1, SetterTypes
<1> QED
  BY <1>4, <1>5 DEF Decoded

LEMMA FirstDecodedTypes ==
  ASSUME NEW p \in Packets, NEW w \in Frames, NEW n \in Nat, NEW c \in Cells
  PROVE  /\ FirstDecodedHeader(p, w, n) \in Packets
         /\ FirstDecodedHeader(p, w, n).PAYLOAD = p.PAYLOAD
         /\ FirstDecoded(p, w, n, c) \in Packets
<1> DEFINE typed == SetType(p, w.TYPE)
           zero == SetTr(typed, 0)
           filled == [zero EXCEPT !.WINDOW = w.WINDOW, !.SEQNUM = w.SEQNUM]
           timed == SetTimestamp(SetLength(filled, w.LENGTH), LowByte(w.TIMESTAMP))
<1>1. w.LENGTH \in Nat /\ LowByte(w.TIMESTAMP) \in Times /\ w.TYPE \in Nat
  BY TimeBytes DEF Frames
<1>2. typed \in Packets /\ typed.PAYLOAD = p.PAYLOAD
  BY DEF Packets, SetType, Frames
<1> HIDE DEF typed
<1>3. zero \in Packets /\ zero.PAYLOAD = p.PAYLOAD
  BY <1>2 DEF Packets, SetTr
<1> HIDE DEF zero
<1>4. filled \in Packets /\ filled.PAYLOAD = p.PAYLOAD
  BY <1>3 DEF Packets, Frames
<1> HIDE DEF filled
<1>5. timed \in Packets /\ timed.PAYLOAD = p.PAYLOAD
  BY <1>1, <1>4, Constants DEF Packets, SetTimestamp, SetLength, ValidLength, Lengths
<1> HIDE DEF timed
<1>6. /\ FirstDecodedHeader(p, w, n) \in Packets
      /\ FirstDecodedHeader(p, w, n).PAYLOAD = p.PAYLOAD
  BY <1>2, <1>4, <1>5 DEF FirstDecodedHeader, typed, zero, filled, timed
<1>7. FirstSetPayload(FirstDecodedHeader(p, w, n), w.LENGTH, c) \in Packets
  BY <1>1, <1>6, SetterTypes, Constants, TimeType
<1> QED
  BY <1>6, <1>7 DEF FirstDecoded

-----------------------------------------------------------------------------
(***************************************************************************)
(* Types: what is read.                                                    *)
(***************************************************************************)
LEMMA WireTypes ==
  ASSUME NEW w \in Wires
  PROVE  w \in Frames /\ w.LENGTH \in Lengths
<1>1. ASSUME NEW p \in Packets, NEW b \in Blocks
      PROVE  Encode(p, b) \in Frames /\ Encode(p, b).LENGTH \in Lengths
  BY EncodeType DEF Encode, Packets
<1>2. NewPacket(NULL) \in Packets
  BY NewPacketType
<1>3. ASSUME NEW s \in SeqNums, NEW n \in SegLengths \cup {0}, NEW t \in Clock
      PROVE  DataWire(s, n, t) \in Frames /\ DataWire(s, n, t).LENGTH \in Lengths
  <2>1. n \in Lengths /\ t \in Times
    BY UseAssumption, Constants DEF Lengths
  <2>2. Bytes(s, n) \in Blocks
    BY <2>1, Constants DEF Bytes, Blocks
  <2>3. [NewPacket(NULL) EXCEPT !.WINDOW = 1, !.SEQNUM = s, !.LENGTH = n,
                                !.TIMESTAMP = t] \in Packets
    BY <1>2, <2>1, Constants DEF Packets
  <2> QED
    BY <1>1, <2>2, <2>3 DEF DataWire
<1>4. ASSUME NEW type \in {PTYPE_ACK, PTYPE_NACK}, NEW s \in SeqNums, NEW t \in Clock
      PROVE  AckWire(type, s, t) \in Frames /\ AckWire(type, s, t).LENGTH \in Lengths
  <2>1. t \in Times /\ type \in 0 .. 3 /\ RCV_WINDOW \in 0 .. MAX_WINDOW_SIZE
    BY UseAssumption, Constants DEF PTYPE_ACK, PTYPE_NACK
  <2>2. NoBytes \in Blocks
    BY DEF NoBytes, Bytes, Blocks, Junk
  <2>3. [NewPacket(NULL) EXCEPT !.TYPE = type, !.WINDOW = RCV_WINDOW,
                                !.SEQNUM = s, !.TIMESTAMP = t] \in Packets
    BY <1>2, <2>1 DEF Packets
  <2> QED
    BY <1>1, <2>2, <2>3 DEF AckWire
<1>5. CASE user = "sender"
  <2>1. PICK type \in {PTYPE_ACK, PTYPE_NACK}, s \in SeqNums, t \in Clock :
          w = AckWire(type, s, t)
    BY <1>5 DEF Wires, SentReplies
  <2> QED
    BY <1>4, <2>1
<1>6. CASE user # "sender"
  <2>1. PICK s \in SeqNums, n \in SegLengths \cup {0}, t \in Clock :
          w = DataWire(s, n, t)
    BY <1>6 DEF Wires, SentData
  <2> QED
    BY <1>3, <2>1
<1> QED
  BY <1>5, <1>6

LEMMA FaultyTypes ==
  ASSUME NEW w \in Frames, w.LENGTH \in Lengths, NEW v \in Marked(w) \cup DamagedWires(w)
  PROVE  v \in Frames
<1> DEFINE m == [w EXCEPT !.TR = 1]
<1>1. m \in Frames /\ m.LENGTH \in Lengths
  BY DEF Frames
<1>2. [m EXCEPT !.CRC1 = HeaderOf(m)] \in Frames
  <2>1. HeaderOf(m) \in Headers
    BY <1>1 DEF HeaderOf, Headers, Frames
  <2> QED
    BY <1>1, <2>1 DEF Frames
<1>3. CASE v \in Marked(w)
  BY <1>1, <1>2, <1>3 DEF Marked
<1>4. ASSUME NEW s \in SeqNums
      PROVE  [w EXCEPT !.TYPE = PTYPE_NACK, !.SEQNUM = s, !.WINDOW = 1] \in Frames
  <2>1. [w EXCEPT !.TYPE = PTYPE_NACK] \in Frames
    BY DEF Frames, PTYPE_NACK
  <2>2. ASSUME NEW x \in Frames PROVE [x EXCEPT !.SEQNUM = s] \in Frames
    BY DEF Frames
  <2>3. ASSUME NEW x \in Frames PROVE [x EXCEPT !.WINDOW = 1] \in Frames
    BY Constants DEF Frames
  <2> QED
    BY <2>1, <2>2, <2>3
<1>5. ASSUME NEW n \in {0, MAX_PAYLOAD_SIZE + 1} PROVE [w EXCEPT !.LENGTH = n] \in Frames
  BY Constants DEF Frames
<1>6. [w EXCEPT !.BODY.data = Junk] \in Frames
  <2>1. w.BODY \in Blocks
    BY DEF Frames
  <2>2. [w.BODY EXCEPT !.data = Junk] \in Blocks
    BY <2>1 DEF Blocks, Junk
  <2> QED
    BY <2>2 DEF Frames
<1>7. CASE v \in DamagedWires(w)
  BY <1>4, <1>5, <1>6, <1>7 DEF DamagedWires
<1> QED
  BY <1>3, <1>7

\* Which datagrams come whole, of either program.
LEMMA WholeCases ==
  ASSUME NEW w \in WholeWires
  PROVE  \E v \in Wires : w \in {v} \cup Marked(v) \cup DamagedWires(v)
<1>1. WholeWires = Whole(Wires)
  BY DEF WholeWires, WholeReplies, WholeData, Wires
<1> QED
  BY <1>1 DEF Whole

LEMMA WholeTypes ==
  ASSUME NEW w \in WholeWires
  PROVE  w \in Frames
BY WholeCases, WireTypes, FaultyTypes

LEMMA ReceivedType ==
  ASSUME TypeOK, NEW w \in Frames, NEW n \in Nat
  PROVE  Received(w, n) \in Frames
BY Constants DEF TypeOK, Received, Frames

LEMMA ReadsType ==
  ASSUME TypeOK, NEW r \in Reads
  PROVE  r[1] \in Frames /\ r[2] \in Nat
<1>1. ASSUME NEW w \in Frames PROVE EncodedLength(w) \in Nat
  BY Constants DEF EncodedLength, GetLength, Frames
<1>2. CASE r \in {<<Received(w, EncodedLength(w)), EncodedLength(w)>> : w \in WholeWires}
  <2>1. PICK w \in WholeWires : r = <<Received(w, EncodedLength(w)), EncodedLength(w)>>
    BY <1>2
  <2> QED
    BY <1>1, <2>1, WholeTypes, ReceivedType
<1>3. CASE r \in {<<Received(w, n), n>> : w \in Wires, n \in {1, 4, HEADER_SIZE}}
  <2>1. PICK w \in Wires, n \in {1, 4, HEADER_SIZE} : r = <<Received(w, n), n>>
    BY <1>3
  <2> QED
    BY <2>1, WireTypes, ReceivedType, Constants
<1> QED
  BY <1>2, <1>3 DEF Reads

-----------------------------------------------------------------------------
(***************************************************************************)
(* Types: the steps.                                                       *)
(***************************************************************************)
MemoryType == live \subseteq Cells /\ mem \in [Cells -> Blocks]

LEMMA ReallocateType ==
  ASSUME TypeOK, NEW freed, NEW c, NEW new \in SUBSET Cells, NEW b \in Blocks,
         Reallocate(freed, c, new, b)
  PROVE  MemoryType'
<1>1. NoBytes \in Blocks
  BY DEF NoBytes, Bytes, Blocks, Junk
<1> QED
  BY <1>1 DEF Reallocate, MemoryType, TypeOK

LEMMA UnchangedType ==
  ASSUME TypeOK, UNCHANGEDmemory PROVE MemoryType'
BY DEF TypeOK, MemoryType, UNCHANGEDmemory

LEMMA StorePayloadType ==
  ASSUME TypeOK, NEW p \in Packets, NEW w \in Frames, NEW n \in Nat,
         NEW c \in Targets(w, n), StorePayload(p, w, n, c)
  PROVE  MemoryType' /\ Decoded(p, w, n, c) \in Packets
<1>1. c \in Cells \cup {NULL} /\ (StoresPayload(w, n) => c \in Cells)
  BY DEF Targets
<1>2. BodyOf(w) \in Blocks
  BY BodyType
<1>3. ASSUME StoresPayload(w, n) PROVE MemoryType'
  <2> DEFINE freed == FreedBy(DecodedHeader(p, w, n), w.LENGTH)
  <2>1. {c} \in SUBSET Cells /\ Reallocate(freed, c, {c}, BodyOf(w))
    BY <1>1, <1>3 DEF StorePayload
  <2> HIDE DEF freed
  <2> QED
    BY <1>2, <2>1, ReallocateType
<1>4. ASSUME ~StoresPayload(w, n) PROVE MemoryType'
  BY <1>4, UnchangedType DEF StorePayload
<1>5. Decoded(p, w, n, c) \in Packets
  BY <1>1, DecodedTypes
<1> QED
  BY <1>3, <1>4, <1>5

LEMMA StatusTypes ==
  ASSUME NEW w \in Frames, NEW n \in Nat
  PROVE  DecodeResult(w, n) \in Statuses /\ FirstDecodeResult(w, n) \in Statuses
<1>1. n = 0 \/ n \in 1 .. 3 \/ n > 3
  OBVIOUS
<1>2. DecodeResult(w, n) \in Statuses
  BY <1>1 DEF DecodeResult, Statuses
<1>3. w.TYPE \in 0 .. 3
  BY DEF Frames
<1>4. ValidType(w.TYPE) <=> w.TYPE = PTYPE_DATA \/ w.TYPE \in {PTYPE_ACK, PTYPE_NACK}
  BY DEF ValidType
<1> QED
  BY <1>1, <1>2, <1>4 DEF FirstDecodeResult, Statuses

LEMMA BufferSize == BUFFER_SIZE \in Nat /\ BUFFER_SIZE > 3
BY Constants DEF BUFFER_SIZE

LEMMA SendSegmentType ==
  ASSUME TypeOK, NEW s \in SeqNums, NEW n \in SegLengths, NEW i \in Slots,
         NEW c \in Cells, NEW t \in Clock, SendSegment(s, n, i, c, t)
  PROVE  TypeOK'
<1> DEFINE filled == SetSeqnum(SetPayload(pkt1, n, c), s)
<1>1. n \in Nat /\ t \in Times /\ Bytes(s, n) \in Blocks
  BY UseAssumption, Constants DEF Bytes, Blocks
<1>2. SetPayload(pkt1, n, c) \in Packets
  BY <1>1, SetterTypes DEF TypeOK
<1>3. filled \in Packets
  BY <1>1, <1>2, SetterTypes
<1>4. SetTimestamp(filled, t) \in Packets
  BY <1>1, <1>3, SetterTypes
<1> HIDE DEF filled
<1>5. pkt1' \in Packets
  BY <1>4 DEF SendSegment, filled
<1>6. Overwritten(pkt1', Bytes(s, n)) \in Frames
  BY <1>1, <1>5, OverwrittenType
<1>7. MemoryType'
  BY <1>1, ReallocateType DEF SendSegment
<1>8. buffer' \in [Slots -> Packets \cup {NULL}]
  BY <1>3 DEF SendSegment, filled, TypeOK
<1> QED
  BY <1>5, <1>6, <1>7, <1>8 DEF TypeOK, SendSegment, MemoryType, Statuses

LEMMA RetransmitType ==
  ASSUME TypeOK, BufferIntact, NEW i \in Slots, NEW t \in Clock, Retransmit(i, t)
  PROVE  TypeOK'
<1>1. t \in Times /\ buffer[i] \in Packets
  BY UseAssumption DEF TypeOK, Retransmit
<1>2. SetTimestamp(buffer[i], t) \in Packets
  BY <1>1 DEF SetTimestamp, Packets
<1>3. /\ buffer' \in [Slots -> Packets \cup {NULL}] /\ buffer'[i] \in Packets
  BY <1>2 DEF TypeOK, Retransmit
<1>4. buf' \in Frames
  <2>1. mem[buffer[i].PAYLOAD] \in Blocks
    BY DEF TypeOK, BufferIntact, Retransmit
  <2> QED
    BY <1>3, <2>1, OverwrittenType DEF Retransmit
<1> QED
  BY <1>3, <1>4, UnchangedType DEF TypeOK, Retransmit, MemoryType, Statuses

LEMMA AdvertiseType ==
  ASSUME TypeOK, NEW reply \in Packets
  PROVE  Advertise(reply) \in Packets
BY SetterTypes, Constants, TimeType DEF Advertise, SetWindow, Packets, TypeOK, ValidWindow

LEMMA ReceiveReplyType ==
  ASSUME TypeOK, NEW r \in Reads, NEW c \in Targets(r[1], r[2]),
         ReceiveReply(r[1], r[2], c)
  PROVE  TypeOK'
<1>1. r[1] \in Frames /\ r[2] \in Nat /\ buf' = r[1]
  BY ReadsType DEF ReceiveReply
<1>2. pkt2 \in Packets /\ StorePayload(pkt2, r[1], r[2], c)
  BY <1>1 DEF TypeOK, ReceiveReply
<1>3. MemoryType' /\ pkt2' \in Packets
  BY <1>1, <1>2, StorePayloadType DEF ReceiveReply
<1>4. pkt1' \in Packets
  BY <1>3, AdvertiseType DEF ReceiveReply, TypeOK
<1>5. status' \in Statuses
  BY <1>1, StatusTypes DEF ReceiveReply
<1> QED
  BY <1>1, <1>3, <1>4, <1>5 DEF TypeOK, ReceiveReply, MemoryType

LEMMA ReplyReadFailsType == ASSUME TypeOK, ReplyReadFails PROVE TypeOK'
<1>1. pkt1' \in Packets
  BY AdvertiseType DEF TypeOK, ReplyReadFails
<1> QED
  BY <1>1, UnchangedType DEF TypeOK, ReplyReadFails, MemoryType

LEMMA FinishType ==
  ASSUME TypeOK, NEW s \in SeqNums, NEW t \in Clock, Finish(s, t)
  PROVE  TypeOK'
<1>1. t \in Times /\ 0 \in Nat /\ NoBytes \in Blocks
  BY UseAssumption DEF NoBytes, Bytes, Blocks, Junk
<1>2. SetLength(pkt1, 0) \in Packets
  <2>1. 0 \in Lengths
    BY Constants DEF Lengths
  <2>2. pkt1 \in Packets
    BY DEF TypeOK
  <2> QED
    BY <2>1, <2>2 DEF SetLength, Packets
<1>3. SetSeqnum(SetLength(pkt1, 0), s) \in Packets
  BY <1>2 DEF SetSeqnum, Packets
<1>4. pkt1' \in Packets
  BY <1>1, <1>3 DEF Finish, SetTimestamp, Packets
<1>5. buf' \in Frames
  BY <1>1, <1>4, OverwrittenType DEF Finish
<1> QED
  BY <1>4, <1>5, UnchangedType DEF TypeOK, Finish, MemoryType, Statuses

LEMMA EndReplyType ==
  ASSUME TypeOK, NEW w \in Frames, NEW n \in Nat, NEW c \in Targets(w, n),
         EndReply(w, n, c)
  PROVE  TypeOK'
<1>1. buf' = w /\ pkt2 \in Packets /\ StorePayload(pkt2, w, n, c)
  BY DEF TypeOK, EndReply
<1>2. MemoryType' /\ pkt2' \in Packets
  BY <1>1, StorePayloadType DEF EndReply
<1>3. status' \in Statuses
  BY <1>1, StatusTypes DEF EndReply
<1> QED
  BY <1>1, <1>2, <1>3 DEF TypeOK, EndReply, MemoryType

LEMMA ReceiveType ==
  ASSUME TypeOK, NEW r \in Reads, NEW c \in Targets(r[1], r[2]), NEW slots \in SUBSET Slots,
         Receive(r[1], r[2], c, slots)
  PROVE  TypeOK'
<1>1. r[1] \in Frames /\ r[2] \in Nat /\ buf' = r[1]
  BY ReadsType DEF Receive
<1>2. pkt1 \in Packets /\ StorePayload(pkt1, r[1], r[2], c)
  BY <1>1 DEF TypeOK, Receive
<1>3. MemoryType' /\ pkt1' \in Packets
  BY <1>1, <1>2, StorePayloadType DEF Receive
<1>4. status' \in Statuses
  BY <1>1, StatusTypes DEF Receive
<1>5. slots # {} => pkt1'.LENGTH \in Lengths \ {0}
  <2>1. slots # {} => GetLength(pkt1') > 0
    BY DEF Receive
  <2>2. pkt1'.LENGTH \in Lengths /\ Lengths \subseteq Nat
    BY <1>3, Constants DEF Packets
  <2>3. GetLength(pkt1') > 0 => pkt1'.LENGTH # 0
    BY DEF GetLength
  <2> QED
    BY <2>1, <2>2, <2>3
<1>6. BodyOf(buf') \in Blocks /\ NoBytes \in Blocks
  BY <1>1, BodyType DEF NoBytes, Bytes, Blocks, Junk
<1>7. table' \in [Slots -> [cell : Cells \cup {NULL}, len : Lengths \ {0}, bytes : Blocks]
                          \cup {NULL}]
  <2> DEFINE Entries == [cell : Cells \cup {NULL}, len : Lengths \ {0}, bytes : Blocks]
             new == [cell |-> pkt1'.PAYLOAD, len |-> pkt1'.LENGTH, bytes |-> BodyOf(buf')]
             dangling(i) == [table[i] EXCEPT !.cell = NULL, !.bytes = NoBytes]
  <2>1. slots # {} => new \in Entries
    BY <1>3, <1>5, <1>6 DEF Packets
  <2>2. ASSUME NEW i \in Slots, table[i] # NULL PROVE dangling(i) \in Entries
    <3>1. table[i] \in Entries
      BY <2>2 DEF TypeOK
    <3> QED
      BY <1>6, <3>1
  <2>3. table \in [Slots -> Entries \cup {NULL}]
    BY DEF TypeOK
  <2>4. table' = [i \in Slots |->
          CASE i \in slots -> new
            [] i \notin slots /\ (/\ StoresPayload(buf', r[2]) /\ pkt1'.TR = 1
                                  /\ table[i] # NULL /\ table[i].cell = pkt1.PAYLOAD) ->
                 dangling(i)
            [] OTHER -> table[i]]
    BY DEF Receive
  <2> HIDE DEF Entries, new, dangling
  <2>5. \A i \in Slots : table'[i] \in Entries \cup {NULL}
    BY <2>1, <2>2, <2>3, <2>4
  <2> QED
    BY <2>4, <2>5 DEF Entries
<1>8. phase' \in {"loop", "nack", "write", "end"}
  BY DEF Receive
<1> QED
  BY <1>1, <1>3, <1>4, <1>7, <1>8 DEF TypeOK, Receive, MemoryType

LEMMA WriteSlotType ==
  ASSUME TypeOK, NEW i \in Slots, WriteSlot(i)
  PROVE  TypeOK'
BY DEF TypeOK, WriteSlot

LEMMA SendAckType ==
  ASSUME TypeOK, NEW s \in SeqNums, NEW c \in Cells, NEW t \in Clock, SendAck(s, c, t)
  PROVE  TypeOK'
<1> DEFINE type == IF phase = "nack" THEN PTYPE_NACK ELSE PTYPE_ACK
           reply == SetWindow(SetType(SetSeqnum(pkt2, s), type), RCV_WINDOW)
<1>1. type \in Nat /\ t \in Times /\ RCV_WINDOW \in Nat /\ 0 \in Nat
  BY UseAssumption, Constants DEF PTYPE_NACK, PTYPE_ACK
<1>2. SetSeqnum(pkt2, s) \in Packets
  BY SetterTypes, TimeType, <1>1 DEF TypeOK
<1> HIDE DEF type
<1>3. SetType(SetSeqnum(pkt2, s), type) \in Packets
  BY <1>1, <1>2, SetterTypes
<1>4. reply \in Packets
  BY <1>1, <1>3, SetterTypes
<1> HIDE DEF reply
<1>5. SetPayload(reply, 0, c) \in Packets
  BY <1>1, <1>4, SetterTypes
<1>6. SetTimestamp(SetPayload(reply, 0, c), t) \in Packets
  BY <1>1, <1>5, SetterTypes
<1>7. pkt2' = SetTimestamp(SetPayload(reply, 0, c), t)
      /\ Reallocate(FreedBy(reply, 0), c, {c}, NoBytes)
  BY DEF SendAck, reply, type
<1>8. NoBytes \in Blocks /\ {c} \in SUBSET Cells
  BY DEF NoBytes, Bytes, Blocks, Junk
<1>9. MemoryType'
  BY <1>7, <1>8, ReallocateType
<1>10. phase' \in {"loop", "end"}
  BY DEF SendAck
<1> QED
  BY <1>6, <1>7, <1>9, <1>10 DEF TypeOK, SendAck, MemoryType

LEMMA TestSetType ==
  ASSUME TypeOK, NEW p \in Set(pkt1), TestSet(p)
  PROVE  TypeOK'
<1>1. p \in Packets
  <2>1. 0 .. 4 \subseteq Nat /\ 0 .. 2 \subseteq Nat /\ 0 .. MAX_PAYLOAD_SIZE + 1 \subseteq Nat
        /\ {RCV_WINDOW, MAX_WINDOW_SIZE, MAX_WINDOW_SIZE + 1} \subseteq Nat
    BY Constants
  <2>2. pkt1 \in Packets
    BY DEF TypeOK
  <2>3. ASSUME NEW n \in Nat
        PROVE  /\ SetType(pkt1, n) \in Packets /\ SetTr(pkt1, n) \in Packets
               /\ SetWindow(pkt1, n) \in Packets /\ SetLength(pkt1, n) \in Packets
    BY <2>2 DEF SetType, SetTr, SetWindow, SetLength, ValidType, ValidTr, ValidWindow,
                ValidLength, PTYPE_DATA, PTYPE_ACK, PTYPE_NACK, Packets, Lengths
  <2>4. ASSUME NEW x \in SeqNums PROVE SetSeqnum(pkt1, x) \in Packets
    BY <2>2 DEF SetSeqnum, Packets
  <2>5. ASSUME NEW t \in Times PROVE SetTimestamp(pkt1, t) \in Packets
    BY <2>2 DEF SetTimestamp, Packets
  <2> QED
    BY <2>1, <2>3, <2>4, <2>5 DEF Set
<1> QED
  BY <1>1, UnchangedType DEF TypeOK, TestSet, MemoryType

LEMMA TestSetPayloadType ==
  ASSUME TypeOK, NEW n \in Lengths, NEW c \in Cells, TestSetPayload(n, c)
  PROVE  TypeOK'
<1>1. n \in Nat /\ Bytes(1, n) \in Blocks /\ 0 \in SeqNums /\ 0 \in Times
  BY Constants, TimeType DEF Bytes, Blocks
<1>2. pkt1 \in Packets
  BY DEF TypeOK
<1>3. pkt1' \in Packets
  BY <1>1, <1>2, SetterTypes DEF TestSetPayload
<1>4. MemoryType'
  <2> DEFINE freed == IF user = "first" THEN FirstFreedBy(pkt1, n) ELSE FreedBy(pkt1, n)
  <2>1. Reallocate(freed, c, {c} \cap {pkt1'.PAYLOAD}, Bytes(1, n))
    BY DEF TestSetPayload
  <2>2. {c} \cap {pkt1'.PAYLOAD} \in SUBSET Cells
    OBVIOUS
  <2> HIDE DEF freed
  <2> QED
    BY <1>1, <2>1, <2>2, ReallocateType
<1> QED
  BY <1>3, <1>4 DEF TypeOK, TestSetPayload, MemoryType

LEMMA TestEncodeType ==
  ASSUME TypeOK, NEW t \in Times, TestEncode(t)
  PROVE  TypeOK'
<1> DEFINE block == IF GetLength(pkt1) > 0 THEN mem[pkt1.PAYLOAD] ELSE NoBytes
<1>1. pkt1 \in Packets
  BY DEF TypeOK
<1>2. pkt1' \in Packets
  BY <1>1 DEF TestEncode, SetTimestamp, Packets
<1>3. block \in Blocks
  <2>1. GetLength(pkt1) > 0 => pkt1.PAYLOAD \in Cells
    BY <1>1 DEF TestEncode, Packets
  <2>2. NoBytes \in Blocks
    BY DEF NoBytes, Bytes, Blocks, Junk
  <2> QED
    BY <2>1, <2>2 DEF TypeOK
<1>4. buf' = Overwritten(pkt1', block)
  BY DEF TestEncode
<1> HIDE DEF block
<1>5. buf' \in Frames
  BY <1>2, <1>3, <1>4, OverwrittenType
<1> QED
  BY <1>2, <1>5, UnchangedType DEF TypeOK, TestEncode, MemoryType

LEMMA TestDamageType == ASSUME TypeOK, TestDamage PROVE TypeOK'
<1>1. buf \in Frames
  BY DEF TypeOK
<1>2. ASSUME NEW t \in Times PROVE [buf EXCEPT !.TIMESTAMP = t] \in Frames
  BY <1>1 DEF Frames
<1>3. [buf EXCEPT !.CRC1 = <<>>] \in Frames
  BY <1>1 DEF Frames
<1>4. [buf EXCEPT !.BODY.data = Junk] \in Frames
  <2>1. buf.BODY \in Blocks
    BY <1>1 DEF Frames
  <2>2. [buf.BODY EXCEPT !.data = Junk] \in Blocks
    BY <2>1 DEF Blocks, Junk
  <2> QED
    BY <1>1, <2>2 DEF Frames
<1>5. buf' \in Frames
  <2>1. \/ buf' \in {[buf EXCEPT !.TIMESTAMP = t] : t \in Times}
        \/ buf' = [buf EXCEPT !.CRC1 = <<>>]
        \/ buf' = [buf EXCEPT !.BODY.data = Junk]
    BY DEF TestDamage
  <2> QED
    BY <1>2, <1>3, <1>4, <2>1
<1> QED
  BY <1>5, UnchangedType DEF TypeOK, TestDamage, MemoryType

LEMMA TestDecodeType ==
  ASSUME TypeOK, NEW c \in Cells, TestDecode(c)
  PROVE  TypeOK'
<1>1. buf \in Frames /\ pkt2 \in Packets /\ BUFFER_SIZE \in Nat /\ BodyOf(buf) \in Blocks
  BY BufferSize, BodyType DEF TypeOK
<1>2. status' \in Statuses
  BY <1>1, StatusTypes DEF TestDecode
<1>3. CASE user = "test"
  <2>1. StorePayload(pkt2, buf, BUFFER_SIZE, c) /\ pkt2' = Decoded(pkt2, buf, BUFFER_SIZE, c)
    BY <1>3 DEF TestDecode
  <2>2. pkt2' \in Packets
    BY <1>1, <2>1, DecodedTypes
  <2>3. MemoryType'
    <3>1. CASE StoresPayload(buf, BUFFER_SIZE)
      <4> DEFINE freed == FreedBy(DecodedHeader(pkt2, buf, BUFFER_SIZE), buf.LENGTH)
      <4>1. Reallocate(freed, c, {c}, BodyOf(buf)) /\ {c} \in SUBSET Cells
        BY <2>1, <3>1 DEF StorePayload
      <4> HIDE DEF freed
      <4> QED
        BY <1>1, <4>1, ReallocateType
    <3>2. CASE ~StoresPayload(buf, BUFFER_SIZE)
      BY <2>1, <3>2, UnchangedType DEF StorePayload
    <3> QED
      BY <3>1, <3>2
  <2> QED
    BY <1>2, <2>2, <2>3 DEF TypeOK, TestDecode, MemoryType
<1>4. CASE user # "test"
  <2>1. pkt2' \in Packets
    BY <1>1, <1>4, FirstDecodedTypes DEF TestDecode
  <2>2. MemoryType'
    <3> DEFINE freed == FirstFreedBy(pkt2, buf.LENGTH)
    <3>1. \/ Reallocate(freed, c, {c}, BodyOf(buf))
          \/ UNCHANGEDmemory
      BY <1>4 DEF TestDecode
    <3>2. {c} \in SUBSET Cells
      OBVIOUS
    <3> HIDE DEF freed
    <3> QED
      BY <1>1, <3>1, <3>2, ReallocateType, UnchangedType
  <2> QED
    BY <1>2, <2>1, <2>2 DEF TypeOK, TestDecode, MemoryType
<1> QED
  BY <1>3, <1>4

LEMMA DeleteType == ASSUME TypeOK, Delete PROVE TypeOK'
<1>1. NoBytes \in Blocks
  BY DEF NoBytes, Bytes, Blocks, Junk
<1>2. live' \subseteq Cells /\ mem' \in [Cells -> Blocks]
  BY <1>1 DEF TypeOK, Delete
<1> QED
  BY <1>2 DEF TypeOK, Delete

LEMMA InitType == ASSUME Init PROVE TypeOK
<1>1. /\ NoBytes \in Blocks /\ Bytes(0, MAX_PAYLOAD_SIZE) \in Blocks
  BY Constants DEF NoBytes, Bytes, Blocks, Junk
<1>2. pkt1 \in Packets /\ pkt2 \in Packets /\ live \subseteq Cells
  <2>1. NewPacket(NULL) \in Packets
    BY NewPacketType
  <2>2. [NewPacket(NULL) EXCEPT !.WINDOW = 1] \in Packets
        /\ [NewPacket(NULL) EXCEPT !.WINDOW = 0] \in Packets
    BY <2>1, Constants DEF Packets
  <2>3. \A c \in Cells : NewPacket(c) \in Packets
    BY NewPacketType
  <2> QED
    BY <2>2, <2>3 DEF Init
<1>3. buf \in Frames
  BY <1>1, Constants, TimeType DEF Init, Unwritten, Frames
<1>4. mem \in [Cells -> Blocks]
  BY <1>1 DEF Init
<1> QED
  BY <1>2, <1>3, <1>4 DEF Init, TypeOK, Statuses, None

LEMMA NextType == ASSUME TypeOK, BufferIntact, [Next]_vars PROVE TypeOK'
<1>1. CASE SenderNext
  <2> USE BufferSize
  <2>1. buf \in Frames
    BY DEF TypeOK
  <2>2. ASSUME NEW r \in Reads, NEW c \in Targets(r[1], r[2]), EndReply(r[1], r[2], c)
        PROVE  TypeOK'
    BY <2>2, ReadsType, EndReplyType
  <2>3. ASSUME NEW c \in Targets(buf, BUFFER_SIZE), EndReply(buf, BUFFER_SIZE, c)
        PROVE  TypeOK'
    BY <2>1, <2>3, EndReplyType
  <2> QED
    BY <1>1, <2>2, <2>3, RetransmitType, SendSegmentType, ReplyReadFailsType, FinishType,
       ReceiveReplyType
    DEF SenderNext
<1>2. CASE ReceiverNext
  <2>1. ASSUME NEW r \in Reads, NEW c \in Targets(r[1], r[2]),
               Receive(r[1], r[2], c, {}) \/ \E i \in Slots : Receive(r[1], r[2], c, {i})
        PROVE  TypeOK'
    <3>1. {} \in SUBSET Slots /\ \A i \in Slots : {i} \in SUBSET Slots
      OBVIOUS
    <3> QED
      BY <2>1, <3>1, ReceiveType
  <2> QED
    BY <1>2, <2>1, SendAckType, WriteSlotType DEF ReceiverNext
<1>3. CASE TestNext
  BY <1>3, TestSetType, TestSetPayloadType, TestEncodeType, TestDamageType, TestDecodeType
  DEF TestNext
<1>4. CASE Delete
  BY <1>4, DeleteType
<1>5. CASE UNCHANGED vars
  BY <1>5 DEF vars, TypeOK
<1> QED
  BY <1>1, <1>2, <1>3, <1>4, <1>5 DEF Next

-----------------------------------------------------------------------------
(***************************************************************************)
(* Memory: what an allocation and a pkt_decode leave as it was.            *)
(***************************************************************************)
LEMMA Kept ==
  ASSUME TypeOK, NEW freed, NEW c, NEW new \in SUBSET {c}, NEW b,
         Reallocate(freed, c, new, b), new \subseteq Cells
  PROVE  /\ \A x \in (live \cap Reachable) \ freed :
              x \in live' /\ mem'[x] = mem[x] /\ x # c
         /\ c \in new => c \in live' /\ mem'[c] = b
         /\ live' = ((live \cap Reachable) \ freed) \cup new
<1>1. live \subseteq Cells
  BY DEF TypeOK
<1> QED
  BY <1>1 DEF Reallocate

LEMMA Reach ==
  ASSUME NEW i \in Slots
  PROVE  /\ pkt1.PAYLOAD \in Reachable /\ pkt2.PAYLOAD \in Reachable
         /\ buffer[i] # NULL => buffer[i].PAYLOAD \in Reachable
         /\ table[i] # NULL => table[i].cell \in Reachable
BY DEF Reachable

\* A segment in a packet that is not marked as truncated frees nothing.
LEMMA FreesNothing ==
  ASSUME NEW p \in Packets, NEW n \in Lengths
  PROVE  /\ FreedBy(p, n) \subseteq {p.PAYLOAD}
         /\ p.TR = 0 /\ n > 0 => FreedBy(p, n) = {}
<1>1. SetLength(p, n) = [p EXCEPT !.LENGTH = n]
  BY Constants DEF SetLength, ValidLength, Lengths
<1>2. [p EXCEPT !.LENGTH = n].LENGTH = n /\ [p EXCEPT !.LENGTH = n].TR = p.TR
      /\ [p EXCEPT !.LENGTH = n].PAYLOAD = p.PAYLOAD
  BY DEF Packets
<1> QED
  BY <1>1, <1>2 DEF FreedBy, GetPayload, GetLength, Packets

LEMMA Stored ==
  ASSUME TypeOK, NEW p \in Packets, NEW w \in Frames, NEW n \in Nat,
         NEW c \in Targets(w, n), StorePayload(p, w, n, c),
         p.PAYLOAD \in live \cup {NULL}, p.PAYLOAD \in Reachable
  PROVE  LET q == Decoded(p, w, n, c)
         IN  /\ q.PAYLOAD \in live' \cup {NULL}
             /\ \A x \in live \cap Reachable : x # p.PAYLOAD =>
                  x \in live' /\ mem'[x] = mem[x] /\ x # q.PAYLOAD
             /\ StoresPayload(w, n) =>
                  /\ q.PAYLOAD = c /\ c \in Cells /\ c \in live'
                  /\ mem'[c] = BodyOf(w) /\ q.LENGTH = w.LENGTH
             /\ ~(StoresPayload(w, n) /\ w.TR = 1) =>
                  \A x \in live \cap Reachable : x \in live' /\ mem'[x] = mem[x]
<1> DEFINE h == DecodedHeader(p, w, n)
           q == Decoded(p, w, n, c)
<1>1. h \in Packets /\ h.PAYLOAD = p.PAYLOAD
  BY DecodedTypes DEF Targets
<1>2. ASSUME ~StoresPayload(w, n)
      PROVE  q.PAYLOAD = p.PAYLOAD /\ live' = live /\ mem' = mem
  BY <1>1, <1>2 DEF Decoded, StorePayload, UNCHANGEDmemory
<1>3. ASSUME StoresPayload(w, n)
      PROVE  /\ q.PAYLOAD = c /\ c \in Cells /\ q.LENGTH = w.LENGTH
             /\ Reallocate(FreedBy(h, w.LENGTH), c, {c}, BodyOf(w))
             /\ FreedBy(h, w.LENGTH) \subseteq {p.PAYLOAD}
             /\ w.TR # 1 => FreedBy(h, w.LENGTH) = {}
  <2>1. w.LENGTH \in Lengths /\ w.LENGTH > 0 /\ ValidLength(w.LENGTH) /\ n > 3
    BY <1>3, Constants DEF StoresPayload, ValidLength, Lengths, Frames
  <2>2. h.TR = w.TR
    <3> DEFINE first == [p EXCEPT !.TYPE = w.TYPE, !.TR = w.TR, !.WINDOW = w.WINDOW,
                                  !.SEQNUM = w.SEQNUM]
    <3>1. first.TR = w.TR /\ first \in Packets
      BY DEF Packets, Frames
    <3>2. SetTimestamp(SetLength(first, w.LENGTH), w.TIMESTAMP).TR = first.TR
      BY <2>1, <3>1 DEF Packets, SetTimestamp, SetLength
    <3> QED
      BY <2>1, <3>1, <3>2 DEF DecodedHeader
  <2>3. w.TR \in {0, 1}
    BY DEF Frames
  <2>4. q = [SetLength(h, w.LENGTH) EXCEPT !.PAYLOAD = c] /\ c \in Cells
    BY <1>3, <2>1 DEF Decoded, SetPayload, Targets
  <2>5. SetLength(h, w.LENGTH) \in Packets /\ SetLength(h, w.LENGTH).LENGTH = w.LENGTH
    BY <1>1, <2>1 DEF SetLength, Packets
  <2>6. Reallocate(FreedBy(h, w.LENGTH), c, {c}, BodyOf(w))
    BY <1>3 DEF StorePayload
  <2> HIDE DEF h, q
  <2> QED
    BY <1>1, <2>1, <2>2, <2>3, <2>4, <2>5, <2>6, FreesNothing DEF Packets
<1> HIDE DEF h, q
<1>4. CASE ~StoresPayload(w, n)
  BY <1>2, <1>4 DEF q
<1>5. CASE StoresPayload(w, n)
  <2>1. /\ \A x \in (live \cap Reachable) \ FreedBy(h, w.LENGTH) :
              x \in live' /\ mem'[x] = mem[x] /\ x # c
        /\ c \in live' /\ mem'[c] = BodyOf(w)
    <3> DEFINE freed == FreedBy(h, w.LENGTH)
    <3>1. Reallocate(freed, c, {c}, BodyOf(w)) /\ c \in Cells
      BY <1>3, <1>5
    <3> HIDE DEF freed
    <3>2. {c} \in SUBSET {c} /\ {c} \subseteq Cells /\ c \in {c}
      BY <3>1
    <3>3. /\ \A x \in (live \cap Reachable) \ freed :
                 x \in live' /\ mem'[x] = mem[x] /\ x # c
          /\ c \in live' /\ mem'[c] = BodyOf(w)
      BY <3>1, <3>2, Kept
    <3> QED
      BY <3>3 DEF freed
  <2>2. w.TR \in {0, 1}
    BY DEF Frames
  <2> QED
    BY <1>3, <1>5, <2>1, <2>2 DEF q
<1> QED
  BY <1>4, <1>5

-----------------------------------------------------------------------------
(***************************************************************************)
(* Memory: the steps of the sender.                                        *)
(***************************************************************************)
Memory == TypeOK /\ MemoryInvariant

\* What MemoryInvariant says of the sender.
SenderMemory ==
  /\ \A i \in Slots : table[i] = NULL
  /\ pkt1.TR = 0
  /\ \A i \in Slots : buffer[i] # NULL =>
       /\ buffer[i].PAYLOAD # pkt2.PAYLOAD
       /\ buffer[i].PAYLOAD \in live
       /\ mem[buffer[i].PAYLOAD] = Bytes(buffer[i].SEQNUM, buffer[i].LENGTH)
  /\ DeletesOnce

LEMMA ForSender ==
  ASSUME user = "sender", phase # "gone"
  PROVE  MemoryInvariant <=> SenderMemory
BY DEF MemoryInvariant, SenderMemory, Separate, BufferIntact, TableIntact, FirstOwnsOne

LEMMA SendSegmentMemory ==
  ASSUME Memory, NEW s \in SeqNums, NEW n \in SegLengths, NEW i \in Slots,
         NEW c \in Cells, NEW t \in Clock, SendSegment(s, n, i, c, t)
  PROVE  SenderMemory'
<1> DEFINE filled == SetSeqnum(SetPayload(pkt1, n, c), s)
<1>1. /\ SenderMemory /\ pkt1 \in Packets /\ user = "sender" /\ phase = "loop"
      /\ phase' = "loop"
  BY ForSender DEF Memory, TypeOK, SendSegment
<1>2. n \in Lengths /\ n > 0 /\ ValidLength(n)
  BY UseAssumption, Constants DEF ValidLength, Lengths
<1>3. FreedBy(pkt1, n) = {}
  BY <1>1, <1>2, FreesNothing DEF SenderMemory
<1>4. /\ \A x \in live \cap Reachable : x \in live' /\ mem'[x] = mem[x] /\ x # c
      /\ c \in live' /\ mem'[c] = Bytes(s, n)
  <2>1. Reallocate({}, c, {c}, Bytes(s, n)) /\ TypeOK
    BY <1>3 DEF SendSegment, Memory
  <2>2. {c} \in SUBSET {c} /\ {c} \subseteq Cells /\ c \in {c}
    OBVIOUS
  <2> QED
    BY <2>1, <2>2, Kept
<1>5. /\ filled.TR = 0 /\ filled.PAYLOAD = c /\ filled.LENGTH = n /\ filled.SEQNUM = s
      /\ filled \in Packets
  <2>1. SetLength(pkt1, n) = [pkt1 EXCEPT !.LENGTH = n] /\ pkt1.TR = 0
    BY <1>1, <1>2 DEF SetLength, SenderMemory
  <2>2. [pkt1 EXCEPT !.LENGTH = n] \in Packets
    BY <1>1, <1>2 DEF Packets
  <2> QED
    BY <1>1, <1>2, <2>1, <2>2 DEF SetPayload, SetSeqnum, Packets
<1> HIDE DEF filled
<1>6. pkt1' = SetTimestamp(filled, t) /\ buffer' = [buffer EXCEPT ![i] = filled]
      /\ table' = table /\ pkt2' = pkt2
  BY DEF SendSegment, filled
<1>7. pkt1'.TR = 0 /\ pkt1'.PAYLOAD = c
  BY <1>5, <1>6 DEF SetTimestamp, Packets
<1>8. pkt2.PAYLOAD \in live' \cup {NULL} /\ pkt2.PAYLOAD # c
  BY <1>1, <1>4, Reach, Constants DEF SenderMemory, DeletesOnce
<1>9. \A j \in Slots : buffer'[j] # NULL =>
        /\ buffer'[j].PAYLOAD # pkt2'.PAYLOAD
        /\ buffer'[j].PAYLOAD \in live'
        /\ mem'[buffer'[j].PAYLOAD] = Bytes(buffer'[j].SEQNUM, buffer'[j].LENGTH)
  <2> SUFFICES ASSUME NEW j \in Slots, buffer'[j] # NULL
               PROVE  /\ buffer'[j].PAYLOAD # pkt2'.PAYLOAD
                      /\ buffer'[j].PAYLOAD \in live'
                      /\ mem'[buffer'[j].PAYLOAD]
                           = Bytes(buffer'[j].SEQNUM, buffer'[j].LENGTH)
    OBVIOUS
  <2>1. CASE j = i
    BY <1>4, <1>5, <1>6, <1>8, <2>1 DEF Memory, TypeOK
  <2>2. CASE j # i
    <3>1. buffer'[j] = buffer[j]
      BY <1>6, <2>2 DEF Memory, TypeOK
    <3> QED
      BY <1>1, <1>4, <1>6, <3>1, Reach DEF SenderMemory
  <2> QED
    BY <2>1, <2>2
<1>10. DeletesOnce'
  BY <1>4, <1>6, <1>7, <1>8 DEF DeletesOnce
<1> QED
  BY <1>1, <1>6, <1>7, <1>9, <1>10 DEF SenderMemory

LEMMA RetransmitMemory ==
  ASSUME Memory, NEW i \in Slots, NEW t \in Clock, Retransmit(i, t)
  PROVE  SenderMemory'
<1>1. SenderMemory /\ user = "sender" /\ phase = "loop" /\ phase' = "loop"
  BY ForSender DEF Memory, Retransmit
<1>2. buffer[i] \in Packets /\ buffer' = [buffer EXCEPT ![i] = SetTimestamp(@, t)]
  BY DEF Memory, TypeOK, Retransmit
<1>3. /\ SetTimestamp(buffer[i], t).PAYLOAD = buffer[i].PAYLOAD
      /\ SetTimestamp(buffer[i], t).SEQNUM = buffer[i].SEQNUM
      /\ SetTimestamp(buffer[i], t).LENGTH = buffer[i].LENGTH
  BY <1>2 DEF SetTimestamp, Packets
<1>4. \A j \in Slots : buffer'[j] # NULL =>
        /\ buffer[j] # NULL /\ buffer'[j].PAYLOAD = buffer[j].PAYLOAD
        /\ buffer'[j].SEQNUM = buffer[j].SEQNUM /\ buffer'[j].LENGTH = buffer[j].LENGTH
  BY <1>2, <1>3 DEF Memory, TypeOK, Retransmit
<1>5. UNCHANGED <<live, mem, pkt1, pkt2, table, phase>>
  BY DEF Retransmit, UNCHANGEDmemory
<1> QED
  BY <1>1, <1>4, <1>5 DEF SenderMemory, DeletesOnce

\* A reply, in the loop or at the end.
LEMMA ReplyMemory ==
  ASSUME Memory, user = "sender", phase # "gone", NEW w \in Frames, NEW n \in Nat,
         NEW c \in Targets(w, n), StorePayload(pkt2, w, n, c), pkt2' = Decoded(pkt2, w, n, c),
         pkt1'.PAYLOAD = pkt1.PAYLOAD, pkt1'.TR = pkt1.TR, buffer' = buffer, table' = table
  PROVE  SenderMemory'
<1>1. SenderMemory /\ pkt2 \in Packets /\ TypeOK
  BY ForSender DEF Memory, TypeOK
<1>2. pkt2.PAYLOAD \in live \cup {NULL} /\ pkt2.PAYLOAD \in Reachable
  BY <1>1 DEF SenderMemory, DeletesOnce, Reachable
<1>3. /\ pkt2'.PAYLOAD \in live' \cup {NULL}
      /\ \A x \in live \cap Reachable : x # pkt2.PAYLOAD =>
           x \in live' /\ mem'[x] = mem[x] /\ x # pkt2'.PAYLOAD
  BY <1>1, <1>2, Stored
<1>4. pkt1.PAYLOAD # NULL =>
        pkt1.PAYLOAD \in live \cap Reachable /\ pkt1.PAYLOAD # pkt2.PAYLOAD
  BY <1>1 DEF SenderMemory, DeletesOnce, Reachable
<1>5. DeletesOnce'
  BY <1>3, <1>4 DEF DeletesOnce
<1> QED
  BY <1>1, <1>3, <1>5, Reach DEF SenderMemory

LEMMA ReceiveReplyMemory ==
  ASSUME Memory, NEW r \in Reads, NEW c \in Targets(r[1], r[2]),
         ReceiveReply(r[1], r[2], c)
  PROVE  SenderMemory'
<1>1. r[1] \in Frames /\ r[2] \in Nat /\ buf' = r[1] /\ pkt1 \in Packets
  BY ReadsType DEF Memory, TypeOK, ReceiveReply
<1>2. pkt1'.PAYLOAD = pkt1.PAYLOAD /\ pkt1'.TR = pkt1.TR
  BY <1>1 DEF ReceiveReply, Advertise, SetWindow, Packets
<1> QED
  BY <1>1, <1>2, ReplyMemory DEF ReceiveReply

LEMMA EndReplyMemory ==
  ASSUME Memory, NEW w \in Frames, NEW n \in Nat, NEW c \in Targets(w, n),
         EndReply(w, n, c)
  PROVE  SenderMemory'
BY ReplyMemory DEF EndReply

LEMMA ReplyReadFailsMemory ==
  ASSUME Memory, ReplyReadFails
  PROVE  SenderMemory'
<1>1. SenderMemory /\ pkt1 \in Packets
  BY ForSender DEF Memory, TypeOK, ReplyReadFails
<1>2. pkt1'.PAYLOAD = pkt1.PAYLOAD /\ pkt1'.TR = pkt1.TR
  BY <1>1 DEF ReplyReadFails, Advertise, SetWindow, Packets
<1> QED
  BY <1>1, <1>2 DEF ReplyReadFails, UNCHANGEDmemory, SenderMemory, DeletesOnce

LEMMA FinishMemory ==
  ASSUME Memory, NEW s \in SeqNums, NEW t \in Clock, Finish(s, t)
  PROVE  SenderMemory'
<1>1. SenderMemory /\ pkt1 \in Packets
  BY ForSender DEF Memory, TypeOK, Finish
<1>2. pkt1'.PAYLOAD = pkt1.PAYLOAD /\ pkt1'.TR = pkt1.TR
  <2> DEFINE q == SetLength(pkt1, 0)
  <2>1. /\ q.PAYLOAD = pkt1.PAYLOAD /\ q.TR = pkt1.TR
        /\ SetSeqnum(q, s).PAYLOAD = q.PAYLOAD /\ SetSeqnum(q, s).TR = q.TR
    BY <1>1 DEF SetLength, SetSeqnum, Packets
  <2>2. pkt1' = SetTimestamp(SetSeqnum(q, s), t)
    BY DEF Finish
  <2> HIDE DEF q
  <2> QED
    BY <2>1, <2>2 DEF SetTimestamp
<1> QED
  BY <1>1, <1>2 DEF Finish, UNCHANGEDmemory, SenderMemory, DeletesOnce

-----------------------------------------------------------------------------
(***************************************************************************)
(* Memory: the steps of the receiver.                                      *)
(***************************************************************************)
\* What MemoryInvariant says of the receiver.
ReceiverMemory ==
  /\ \A i \in Slots : buffer[i] = NULL
  /\ \A i \in Slots : table[i] # NULL /\ table[i].cell # NULL =>
       /\ table[i].cell # pkt2.PAYLOAD
       /\ table[i].cell \in live
       /\ mem[table[i].cell] = table[i].bytes
       /\ table[i].bytes.len = table[i].len
  /\ DeletesOnce

LEMMA ForReceiver ==
  ASSUME user = "receiver", phase # "gone"
  PROVE  MemoryInvariant <=> ReceiverMemory
BY DEF MemoryInvariant, ReceiverMemory, Separate, BufferIntact, TableIntact, FirstOwnsOne

\* The packet decoded is marked as truncated if the buffer is.
LEMMA DecodedTr ==
  ASSUME NEW p \in Packets, NEW w \in Frames, NEW n \in Nat,
         NEW c, n > 3, ValidLength(w.LENGTH)
  PROVE  /\ Decoded(p, w, n, c).TR = w.TR
         /\ Decoded(p, w, n, c).LENGTH = w.LENGTH
<1> DEFINE h == DecodedHeader(p, w, n)
           first == [p EXCEPT !.TYPE = w.TYPE, !.TR = w.TR, !.WINDOW = w.WINDOW,
                              !.SEQNUM = w.SEQNUM]
           sized == SetLength(first, w.LENGTH)
<1>1. first \in Packets /\ first.TR = w.TR
  BY DEF Packets, Frames
<1> HIDE DEF first
<1>2. w.LENGTH \in Lengths /\ sized = [first EXCEPT !.LENGTH = w.LENGTH]
  BY Constants DEF SetLength, ValidLength, Lengths, Frames
<1>3. sized \in Packets /\ sized.LENGTH = w.LENGTH /\ sized.TR = w.TR
  BY <1>1, <1>2 DEF Packets
<1>4. h = SetTimestamp(sized, w.TIMESTAMP)
  BY DEF DecodedHeader, first
<1> HIDE DEF sized
<1>5. h \in Packets /\ h.LENGTH = w.LENGTH /\ h.TR = w.TR
  BY <1>3, <1>4 DEF SetTimestamp, Packets, Frames
<1>6. Decoded(p, w, n, c) = h \/ Decoded(p, w, n, c) = SetPayload(h, w.LENGTH, c)
  BY DEF Decoded
<1> HIDE DEF h
<1>7. /\ SetLength(h, w.LENGTH) \in Packets /\ SetLength(h, w.LENGTH).LENGTH = w.LENGTH
      /\ SetLength(h, w.LENGTH).TR = w.TR
  BY <1>2, <1>5 DEF SetLength, Packets
<1>8. SetPayload(h, w.LENGTH, c).LENGTH = w.LENGTH /\ SetPayload(h, w.LENGTH, c).TR = w.TR
  BY <1>7 DEF SetPayload, Packets
<1> QED
  BY <1>5, <1>6, <1>8

\* The packet a slot of the table is filled with: the payload just decoded.
LEMMA KeptPayload ==
  ASSUME Memory, NEW w \in Frames, NEW n \in Nat, NEW c \in Targets(w, n),
         DecodeResult(w, n) = "PKT_OK", GetLength(Decoded(pkt1, w, n, c)) > 0
  PROVE  StoresPayload(w, n) /\ w.TR = 0
<1> DEFINE q == Decoded(pkt1, w, n, c)
<1>1. n > 3 /\ ValidLength(w.LENGTH) /\ HeaderMatches(w)
  <2>1. n = 0 \/ n \in 1 .. 3 \/ n > 3
    OBVIOUS
  <2> QED
    BY <2>1 DEF DecodeResult
<1>2. q.LENGTH = w.LENGTH /\ q.TR = w.TR
  BY <1>1, DecodedTr DEF Memory, TypeOK
<1>3. GetLength(q) > 0
  OBVIOUS
<1> HIDE DEF q
<1> QED
  BY <1>1, <1>2, <1>3 DEF StoresPayload, GetLength

LEMMA ReceiveMemory ==
  ASSUME Memory, NEW r \in Reads, NEW c \in Targets(r[1], r[2]), NEW slots \in SUBSET Slots,
         Receive(r[1], r[2], c, slots)
  PROVE  ReceiverMemory'
<1> DEFINE w == r[1]
           n == r[2]
<1>1. /\ w \in Frames /\ n \in Nat /\ buf' = w /\ pkt1 \in Packets /\ TypeOK
      /\ c \in Targets(w, n)
  BY ReadsType DEF Memory, TypeOK, Receive
<1>2. ReceiverMemory /\ phase = "loop"
  BY ForReceiver DEF Memory, Receive
<1>3. /\ StorePayload(pkt1, w, n, c) /\ pkt1' = Decoded(pkt1, w, n, c)
      /\ buffer' = buffer /\ pkt2' = pkt2
  BY <1>1 DEF Receive
<1> DEFINE new == [cell |-> pkt1'.PAYLOAD, len |-> pkt1'.LENGTH, bytes |-> BodyOf(w)]
           Dangles(i) == /\ StoresPayload(w, n) /\ pkt1'.TR = 1
                         /\ table[i] # NULL /\ table[i].cell = pkt1.PAYLOAD
           dangling(i) == [table[i] EXCEPT !.cell = NULL, !.bytes = NoBytes]
<1>4. table' = [i \in Slots |->
        CASE i \in slots -> new
          [] i \notin slots /\ Dangles(i) -> dangling(i)
          [] OTHER -> table[i]]
  BY <1>1 DEF Receive
<1>5. slots # {} => StoresPayload(w, n) /\ w.TR = 0
  <2>1. slots # {} => DecodeResult(w, n) = "PKT_OK" /\ GetLength(pkt1') > 0
    BY <1>1 DEF Receive
  <2> QED
    BY <1>1, <1>3, <2>1, KeptPayload
<1> HIDE DEF w, n
<1>6. pkt1.PAYLOAD \in live \cup {NULL} /\ pkt1.PAYLOAD \in Reachable
  BY <1>2 DEF ReceiverMemory, DeletesOnce, Reachable
<1>7. /\ pkt1'.PAYLOAD \in live' \cup {NULL}
      /\ \A x \in live \cap Reachable : x # pkt1.PAYLOAD =>
           x \in live' /\ mem'[x] = mem[x] /\ x # pkt1'.PAYLOAD
      /\ StoresPayload(w, n) =>
           /\ pkt1'.PAYLOAD = c /\ c \in Cells /\ c \in live'
           /\ mem'[c] = BodyOf(w) /\ pkt1'.LENGTH = w.LENGTH
      /\ ~(StoresPayload(w, n) /\ w.TR = 1) =>
           \A x \in live \cap Reachable : x \in live' /\ mem'[x] = mem[x]
  BY <1>1, <1>3, <1>6, Stored
<1>8. StoresPayload(w, n) => pkt1'.TR = w.TR
  BY <1>1, <1>3, DecodedTr DEF StoresPayload
<1>9. pkt2.PAYLOAD # NULL =>
        pkt2.PAYLOAD \in live \cap Reachable /\ pkt2.PAYLOAD # pkt1.PAYLOAD
  BY <1>2 DEF ReceiverMemory, DeletesOnce, Reachable
<1>10. pkt2.PAYLOAD # NULL => pkt2.PAYLOAD \in live' /\ pkt2.PAYLOAD # pkt1'.PAYLOAD
  BY <1>7, <1>9
<1>11. DeletesOnce'
  BY <1>3, <1>7, <1>10 DEF DeletesOnce
<1>12. \A i \in Slots : table'[i] # NULL /\ table'[i].cell # NULL =>
         /\ table'[i].cell # pkt2.PAYLOAD
         /\ table'[i].cell \in live'
         /\ mem'[table'[i].cell] = table'[i].bytes
         /\ table'[i].bytes.len = table'[i].len
  <2> SUFFICES ASSUME NEW i \in Slots, table'[i] # NULL, table'[i].cell # NULL
               PROVE  /\ table'[i].cell # pkt2.PAYLOAD
                      /\ table'[i].cell \in live'
                      /\ mem'[table'[i].cell] = table'[i].bytes
                      /\ table'[i].bytes.len = table'[i].len
    OBVIOUS
  <2>1. CASE i \in slots
    <3>1. table'[i] = new
      BY <1>4, <2>1
    <3>2. BodyOf(w).len = w.LENGTH
      BY <1>1, BodyType
    <3>3. StoresPayload(w, n)
      BY <1>5, <2>1
    <3> QED
      BY <1>7, <1>10, <3>1, <3>2, <3>3, Constants
  <2>2. CASE i \notin slots /\ Dangles(i)
    <3>1. table'[i] = dangling(i)
      BY <1>4, <2>2
    <3>2. table[i] \in [cell : Cells \cup {NULL}, len : Lengths \ {0}, bytes : Blocks]
      BY <1>1, <2>2 DEF TypeOK
    <3> QED
      BY <3>1, <3>2
  <2>3. CASE i \notin slots /\ ~Dangles(i)
    <3>1. table'[i] = table[i]
      BY <1>4, <2>3
    <3>2. /\ table[i].cell \in live \cap Reachable /\ table[i].cell # pkt2.PAYLOAD
          /\ mem[table[i].cell] = table[i].bytes /\ table[i].bytes.len = table[i].len
      BY <1>2, <3>1, Reach DEF ReceiverMemory
    <3>3. table[i].cell \in live' /\ mem'[table[i].cell] = mem[table[i].cell]
      BY <1>7, <1>8, <2>3, <3>1, <3>2
    <3> QED
      BY <3>1, <3>2, <3>3
  <2> QED
    BY <2>1, <2>2, <2>3
<1> QED
  BY <1>2, <1>3, <1>11, <1>12 DEF ReceiverMemory

LEMMA WriteSlotMemory ==
  ASSUME Memory, NEW i \in Slots, WriteSlot(i)
  PROVE  ReceiverMemory'
<1>1. ReceiverMemory
  BY ForReceiver DEF Memory, WriteSlot
<1>2. \A j \in Slots : table'[j] = NULL \/ table'[j] = table[j]
  BY DEF Memory, TypeOK, WriteSlot
<1> QED
  BY <1>1, <1>2 DEF WriteSlot, ReceiverMemory, DeletesOnce

\* The header of a reply.
LEMMA ReplyPacket ==
  ASSUME TypeOK, NEW s \in SeqNums, NEW type \in 0 .. 3
  PROVE  LET reply == SetWindow(SetType(SetSeqnum(pkt2, s), type), RCV_WINDOW)
         IN  reply \in Packets /\ reply.PAYLOAD = pkt2.PAYLOAD
<1> DEFINE q == SetSeqnum(pkt2, s)
<1>1. pkt2 \in Packets
  BY DEF TypeOK
<1>2. q \in Packets /\ q.PAYLOAD = pkt2.PAYLOAD
  BY <1>1 DEF SetSeqnum, Packets
<1> HIDE DEF q
<1>3. SetType(q, type) \in Packets /\ SetType(q, type).PAYLOAD = q.PAYLOAD
  BY <1>2 DEF SetType, Packets
<1> QED
  BY <1>2, <1>3, Constants DEF SetWindow, Packets, q

LEMMA SendAckMemory ==
  ASSUME Memory, NEW s \in SeqNums, NEW c \in Cells, NEW t \in Clock, SendAck(s, c, t)
  PROVE  ReceiverMemory'
<1> DEFINE type == IF phase = "nack" THEN PTYPE_NACK ELSE PTYPE_ACK
           reply == SetWindow(SetType(SetSeqnum(pkt2, s), type), RCV_WINDOW)
<1>1. ReceiverMemory /\ pkt2 \in Packets /\ TypeOK /\ phase # "gone"
  BY ForReceiver DEF Memory, TypeOK, SendAck
<1>2. reply \in Packets /\ reply.PAYLOAD = pkt2.PAYLOAD
  BY <1>1, ReplyPacket DEF PTYPE_NACK, PTYPE_ACK
<1>3. pkt2' = SetTimestamp(SetPayload(reply, 0, c), t)
      /\ Reallocate(FreedBy(reply, 0), c, {c}, NoBytes)
      /\ pkt1' = pkt1 /\ buffer' = buffer /\ table' = table
  BY DEF SendAck
<1> HIDE DEF reply
<1>4. 0 \in Lengths /\ FreedBy(reply, 0) \subseteq {pkt2.PAYLOAD}
  <2>1. 0 \in Lengths
    BY Constants DEF Lengths
  <2> QED
    BY <1>2, <2>1, FreesNothing
<1>5. pkt2'.PAYLOAD = c
  <2>1. ValidLength(0) /\ SetLength(reply, 0) \in Packets
    BY <1>2, <1>4, Constants DEF ValidLength, SetLength, Packets
  <2>2. SetPayload(reply, 0, c).PAYLOAD = c
    BY <2>1 DEF SetPayload, Packets
  <2> QED
    BY <1>3, <2>2 DEF SetTimestamp
<1>6. /\ \A x \in live \cap Reachable : x # pkt2.PAYLOAD =>
           x \in live' /\ mem'[x] = mem[x] /\ x # c
      /\ c \in live'
  <2> DEFINE freed == FreedBy(reply, 0)
  <2>1. Reallocate(freed, c, {c}, NoBytes) /\ freed \subseteq {pkt2.PAYLOAD}
    BY <1>3, <1>4
  <2> HIDE DEF freed
  <2>2. {c} \in SUBSET {c} /\ {c} \subseteq Cells /\ c \in {c}
    OBVIOUS
  <2>3. /\ \A x \in (live \cap Reachable) \ freed :
              x \in live' /\ mem'[x] = mem[x] /\ x # c
        /\ c \in live'
    BY <1>1, <2>1, <2>2, Kept
  <2> QED
    BY <2>1, <2>3
<1>7. pkt1.PAYLOAD # NULL => pkt1.PAYLOAD \in live' /\ pkt1.PAYLOAD # c
  BY <1>1, <1>6 DEF ReceiverMemory, DeletesOnce, Reachable
<1>8. DeletesOnce'
  BY <1>3, <1>5, <1>6, <1>7, Constants DEF DeletesOnce
<1> QED
  BY <1>1, <1>3, <1>5, <1>6, <1>8, Reach DEF ReceiverMemory

-----------------------------------------------------------------------------
(***************************************************************************)
(* Memory: the steps of the tests.                                         *)
(***************************************************************************)
\* What MemoryInvariant says of a test.
TestMemory ==
  /\ \A i \in Slots : buffer[i] = NULL /\ table[i] = NULL
  /\ DeletesOnce /\ FirstOwnsOne

LEMMA ForTest ==
  ASSUME Testing
  PROVE  MemoryInvariant <=> TestMemory
BY DEF MemoryInvariant, TestMemory, Testing, Separate, BufferIntact, TableIntact

LEMMA TestSetMemory ==
  ASSUME Memory, NEW p \in Set(pkt1), TestSet(p)
  PROVE  TestMemory'
<1>1. TestMemory /\ pkt1 \in Packets
  BY ForTest DEF Memory, TypeOK, TestSet
<1>2. p.PAYLOAD = pkt1.PAYLOAD
  BY <1>1 DEF Set, SetType, SetTr, SetWindow, SetSeqnum, SetTimestamp, SetLength, Packets
<1> QED
  BY <1>1, <1>2 DEF TestSet, UNCHANGEDmemory, TestMemory, DeletesOnce, FirstOwnsOne

LEMMA TestReachable ==
  ASSUME Memory, Testing
  PROVE  Reachable = {pkt1.PAYLOAD, pkt2.PAYLOAD}
BY ForTest DEF Memory, TestMemory, Reachable

\* What the first version's pkt_set_payload leaves.
LEMMA FirstSet ==
  ASSUME NEW p \in Packets, NEW n \in Lengths, NEW c \in Cells
  PROVE  /\ FirstFreedBy(p, n) = {p.PAYLOAD} \ {NULL}
         /\ FirstSetPayload(p, n, c).PAYLOAD = IF n = 0 THEN NULL ELSE c
<1>1. ValidLength(n) /\ SetLength(p, n) \in Packets
  BY Constants DEF ValidLength, SetLength, Packets, Lengths
<1> QED
  BY <1>1 DEF FirstFreedBy, FirstSetPayload, Packets

LEMMA SetAllocates ==
  ASSUME NEW p \in Packets, NEW n \in Lengths, NEW c \in Cells
  PROVE  SetPayload(p, n, c).PAYLOAD = c
<1>1. ValidLength(n) /\ SetLength(p, n) \in Packets
  BY Constants DEF ValidLength, SetLength, Packets, Lengths
<1> QED
  BY <1>1 DEF SetPayload, Packets

LEMMA TestSetPayloadMemory ==
  ASSUME Memory, NEW n \in Lengths, NEW c \in Cells, TestSetPayload(n, c)
  PROVE  TestMemory'
<1> DEFINE freed == IF user = "first" THEN FirstFreedBy(pkt1, n) ELSE FreedBy(pkt1, n)
           new == {c} \cap {pkt1'.PAYLOAD}
<1>1. /\ TestMemory /\ pkt1 \in Packets /\ pkt2 \in Packets /\ TypeOK
      /\ Testing /\ phase = "loop" /\ Reachable = {pkt1.PAYLOAD, pkt2.PAYLOAD}
  BY ForTest, TestReachable DEF Memory, TypeOK, TestSetPayload
<1>2. /\ Reallocate(freed, c, new, Bytes(1, n)) /\ new \in SUBSET {c} /\ new \subseteq Cells
      /\ UNCHANGED <<user, phase, pkt2, buffer, table>>
  BY DEF TestSetPayload
<1>3. freed \subseteq {pkt1.PAYLOAD}
  BY <1>1, FirstSet, FreesNothing
<1>4. /\ user = "first" => freed = {pkt1.PAYLOAD} \ {NULL}
      /\ pkt1'.PAYLOAD = IF user = "first" /\ n = 0 THEN NULL ELSE c
  BY <1>1, FirstSet, SetAllocates DEF TestSetPayload
<1> HIDE DEF freed
<1>5. live' = ((live \cap Reachable) \ freed) \cup new
  BY <1>1, <1>2, Kept
<1>6. \A x \in (live \cap Reachable) \ freed : x # c
  BY <1>1, <1>2, Kept
<1>7. /\ {pkt1.PAYLOAD, pkt2.PAYLOAD} \subseteq live \cup {NULL}
      /\ pkt1.PAYLOAD = pkt2.PAYLOAD => pkt1.PAYLOAD = NULL
      /\ NULL \notin live /\ c # NULL
  BY <1>1, Constants DEF TestMemory, DeletesOnce, TypeOK
<1>8. pkt2.PAYLOAD # NULL => pkt2.PAYLOAD \in live' /\ pkt2.PAYLOAD # c
  BY <1>1, <1>3, <1>5, <1>6, <1>7
<1>9. pkt1'.PAYLOAD \in live' \cup {NULL}
  BY <1>4, <1>5
<1>10. DeletesOnce'
  BY <1>2, <1>4, <1>7, <1>8, <1>9 DEF DeletesOnce
<1>11. user = "first" => live' = {pkt1'.PAYLOAD, pkt2.PAYLOAD} \ {NULL}
  <2> SUFFICES ASSUME user = "first" PROVE live' = {pkt1'.PAYLOAD, pkt2.PAYLOAD} \ {NULL}
    OBVIOUS
  <2>1. (live \cap Reachable) \ freed = {pkt2.PAYLOAD} \ {NULL}
    BY <1>1, <1>4, <1>7
  <2> QED
    BY <1>4, <1>5, <1>7, <2>1
<1>12. FirstOwnsOne'
  BY <1>2, <1>11 DEF FirstOwnsOne
<1> QED
  BY <1>1, <1>2, <1>10, <1>12 DEF TestMemory

LEMMA TestDecodeMemory ==
  ASSUME Memory, NEW c \in Cells, TestDecode(c)
  PROVE  TestMemory'
<1>1. /\ TestMemory /\ pkt1 \in Packets /\ pkt2 \in Packets /\ TypeOK /\ buf \in Frames
      /\ Testing /\ phase # "gone" /\ Reachable = {pkt1.PAYLOAD, pkt2.PAYLOAD}
      /\ BUFFER_SIZE \in Nat
  BY ForTest, TestReachable, BufferSize DEF Memory, TypeOK, TestDecode
<1>2. UNCHANGED <<user, pkt1, buffer, table>>
  BY DEF TestDecode
<1>3. /\ {pkt1.PAYLOAD, pkt2.PAYLOAD} \subseteq live \cup {NULL}
      /\ pkt1.PAYLOAD = pkt2.PAYLOAD => pkt1.PAYLOAD = NULL
      /\ NULL \notin live /\ c # NULL
  BY <1>1, Constants DEF TestMemory, DeletesOnce, TypeOK
<1>4. CASE user = "test"
  <2>1. /\ StorePayload(pkt2, buf, BUFFER_SIZE, c)
        /\ pkt2' = Decoded(pkt2, buf, BUFFER_SIZE, c)
    BY <1>4 DEF TestDecode
  <2>2. CASE StoresPayload(buf, BUFFER_SIZE)
    <3>1. c \in Targets(buf, BUFFER_SIZE)
      BY <2>2 DEF Targets
    <3>2. /\ pkt2'.PAYLOAD \in live' \cup {NULL}
          /\ \A x \in live \cap Reachable : x # pkt2.PAYLOAD =>
               x \in live' /\ mem'[x] = mem[x] /\ x # pkt2'.PAYLOAD
      BY <1>1, <1>3, <2>1, <3>1, Stored
    <3>3. DeletesOnce'
      BY <1>1, <1>2, <1>3, <3>2 DEF DeletesOnce
    <3> QED
      BY <1>1, <1>2, <1>4, <3>3 DEF TestMemory, FirstOwnsOne
  <2>3. CASE ~StoresPayload(buf, BUFFER_SIZE)
    <3>1. UNCHANGEDmemory /\ pkt2'.PAYLOAD = pkt2.PAYLOAD
      <4>1. NULL \in Cells \cup {NULL}
        OBVIOUS
      <4> QED
        BY <1>1, <2>1, <2>3, <4>1, DecodedTypes DEF StorePayload, Decoded
    <3> QED
      BY <1>1, <1>2, <1>3, <1>4, <3>1
      DEF TestMemory, DeletesOnce, FirstOwnsOne, UNCHANGEDmemory
  <2> QED
    BY <2>2, <2>3
<1>5. CASE user = "first"
  <2>1. pkt2' = FirstDecoded(pkt2, buf, BUFFER_SIZE, c)
    BY <1>5 DEF TestDecode
  <2>2. /\ FirstDecodedHeader(pkt2, buf, BUFFER_SIZE) \in Packets
        /\ FirstDecodedHeader(pkt2, buf, BUFFER_SIZE).PAYLOAD = pkt2.PAYLOAD
    BY <1>1, FirstDecodedTypes
  <2>3. CASE FirstStoresPayload(buf, BUFFER_SIZE)
    <3>1. buf.LENGTH \in Lengths /\ buf.LENGTH # 0
      BY <1>1, <2>3, Constants DEF FirstStoresPayload, StoresPayload, ValidLength, Lengths, Frames
    <3>2. pkt2'.PAYLOAD = c
      BY <2>1, <2>2, <2>3, <3>1, FirstSet DEF FirstDecoded
    <3> DEFINE freed == FirstFreedBy(pkt2, buf.LENGTH)
    <3>3. freed = {pkt2.PAYLOAD} \ {NULL}
      BY <1>1, <3>1, FirstSet
    <3>4. Reallocate(freed, c, {c}, BodyOf(buf))
      BY <1>5, <2>3 DEF TestDecode
    <3> HIDE DEF freed
    <3>5. live' = ((live \cap Reachable) \ freed) \cup {c}
      BY <3>4 DEF Reallocate
    <3>6. \A x \in (live \cap Reachable) \ freed : x # c
      BY <3>4 DEF Reallocate
    <3>7. (live \cap Reachable) \ freed = {pkt1.PAYLOAD} \ {NULL}
      BY <1>1, <1>3, <3>3
    <3>8. live' = {pkt1.PAYLOAD, c} \ {NULL} /\ pkt1.PAYLOAD # c
      BY <1>3, <3>5, <3>6, <3>7
    <3> QED
      BY <1>1, <1>2, <1>3, <3>2, <3>8 DEF TestMemory, DeletesOnce, FirstOwnsOne
  <2>4. CASE ~FirstStoresPayload(buf, BUFFER_SIZE)
    <3>1. UNCHANGEDmemory /\ pkt2'.PAYLOAD = pkt2.PAYLOAD
      BY <1>5, <2>1, <2>2, <2>4 DEF TestDecode, FirstDecoded
    <3> QED
      BY <1>1, <1>2, <1>3, <3>1
      DEF TestMemory, DeletesOnce, FirstOwnsOne, UNCHANGEDmemory
  <2> QED
    BY <2>3, <2>4
<1> QED
  BY <1>1, <1>4, <1>5 DEF Testing

LEMMA TestOtherMemory ==
  ASSUME Memory, TestDamage \/ \E t \in Times : TestEncode(t)
  PROVE  TestMemory'
<1>1. /\ TestMemory /\ pkt1 \in Packets /\ phase # "gone"
      /\ UNCHANGED <<user, live, mem, pkt2, buffer, table>>
  BY ForTest DEF Memory, TypeOK, TestDamage, TestEncode, UNCHANGEDmemory
<1>2. pkt1'.PAYLOAD = pkt1.PAYLOAD
  BY <1>1 DEF TestDamage, TestEncode, SetTimestamp, Packets
<1> QED
  BY <1>1, <1>2 DEF TestMemory, DeletesOnce, FirstOwnsOne

-----------------------------------------------------------------------------
(***************************************************************************)
(* Memory: every step.                                                     *)
(***************************************************************************)
LEMMA SenderNextMemory ==
  ASSUME Memory, SenderNext
  PROVE  user = "sender" /\ user' = "sender" /\ SenderMemory'
<1>1. ASSUME NEW t \in Clock, NEW i \in Slots, Retransmit(i, t)
      PROVE  user = "sender" /\ user' = "sender" /\ SenderMemory'
  BY <1>1, RetransmitMemory DEF Retransmit
<1>2. ASSUME NEW t \in Clock, NEW i \in Slots, NEW s \in SeqNums, NEW n \in SegLengths,
             NEW c \in Cells, SendSegment(s, n, i, c, t)
      PROVE  user = "sender" /\ user' = "sender" /\ SenderMemory'
  BY <1>2, SendSegmentMemory DEF SendSegment
<1>3. ASSUME ReplyReadFails PROVE user = "sender" /\ user' = "sender" /\ SenderMemory'
  BY <1>3, ReplyReadFailsMemory DEF ReplyReadFails
<1>4. ASSUME NEW t \in Clock, NEW s \in SeqNums, Finish(s, t)
      PROVE  user = "sender" /\ user' = "sender" /\ SenderMemory'
  BY <1>4, FinishMemory DEF Finish
<1>5. ASSUME NEW r \in Reads, NEW c \in Targets(r[1], r[2]), ReceiveReply(r[1], r[2], c)
      PROVE  user = "sender" /\ user' = "sender" /\ SenderMemory'
  BY <1>5, ReceiveReplyMemory DEF ReceiveReply
<1>6. ASSUME NEW w \in Frames, NEW n \in Nat, NEW c \in Targets(w, n), EndReply(w, n, c)
      PROVE  user = "sender" /\ user' = "sender" /\ SenderMemory'
  BY <1>6, EndReplyMemory DEF EndReply
<1>7. buf \in Frames /\ BUFFER_SIZE \in Nat
  BY BufferSize DEF Memory, TypeOK
<1>8. \A r \in Reads : r[1] \in Frames /\ r[2] \in Nat
  BY ReadsType DEF Memory
<1> QED
  BY <1>1, <1>2, <1>3, <1>4, <1>5, <1>6, <1>7, <1>8 DEF SenderNext

LEMMA ReceiverNextMemory ==
  ASSUME Memory, ReceiverNext
  PROVE  user = "receiver" /\ user' = "receiver" /\ ReceiverMemory'
<1>1. ASSUME NEW s \in SeqNums, NEW c \in Cells, NEW t \in Clock, SendAck(s, c, t)
      PROVE  user = "receiver" /\ user' = "receiver" /\ ReceiverMemory'
  BY <1>1, SendAckMemory DEF SendAck
<1>2. ASSUME NEW i \in Slots, WriteSlot(i)
      PROVE  user = "receiver" /\ user' = "receiver" /\ ReceiverMemory'
  BY <1>2, WriteSlotMemory DEF WriteSlot
<1>3. ASSUME NEW r \in Reads, NEW c \in Targets(r[1], r[2]), NEW slots \in SUBSET Slots,
             Receive(r[1], r[2], c, slots)
      PROVE  user = "receiver" /\ user' = "receiver" /\ ReceiverMemory'
  BY <1>3, ReceiveMemory DEF Receive
<1>4. {} \in SUBSET Slots /\ \A i \in Slots : {i} \in SUBSET Slots
  OBVIOUS
<1> QED
  BY <1>1, <1>2, <1>3, <1>4 DEF ReceiverNext

LEMMA TestNextMemory ==
  ASSUME Memory, TestNext
  PROVE  Testing /\ user' = user /\ TestMemory'
<1>1. Testing /\ user' = user
  BY DEF TestNext, TestSet, TestSetPayload, TestEncode, TestDamage, TestDecode
<1>2. TestMemory'
  BY TestSetMemory, TestSetPayloadMemory, TestDecodeMemory, TestOtherMemory DEF TestNext
<1> QED
  BY <1>1, <1>2

LEMMA InitMemory == ASSUME Init PROVE Memory
<1>1. TypeOK
  BY InitType
<1>2. \A x \in Cells \cup {NULL} : NewPacket(x).PAYLOAD = x /\ NewPacket(x).TR = 0
  BY DEF NewPacket
<1>3. user # "first" => pkt1.PAYLOAD = NULL /\ pkt2.PAYLOAD = NULL /\ live = {} /\ pkt1.TR = 0
  BY DEF Init, NewPacket
<1>4. user = "first" => \E c1, c2 \in Cells :
        c1 # c2 /\ pkt1.PAYLOAD = c1 /\ pkt2.PAYLOAD = c2 /\ live = {c1, c2}
  BY <1>2 DEF Init
<1>5. \A i \in Slots : buffer[i] = NULL /\ table[i] = NULL
  BY DEF Init
<1>6. Separate /\ BufferIntact /\ TableIntact
  BY <1>3, <1>5 DEF Separate, BufferIntact, TableIntact
<1>7. DeletesOnce /\ FirstOwnsOne
  BY <1>3, <1>4, Constants DEF DeletesOnce, FirstOwnsOne
<1> QED
  BY <1>1, <1>6, <1>7 DEF Memory, MemoryInvariant

LEMMA NextMemory == ASSUME Memory, [Next]_vars PROVE Memory'
<1>1. TypeOK /\ BufferIntact
  BY DEF Memory, MemoryInvariant
<1>2. TypeOK'
  BY <1>1, NextType
<1>3. CASE SenderNext
  <2>1. user' = "sender" /\ SenderMemory'
    BY <1>3, SenderNextMemory
  <2>2. MemoryInvariant'
    BY <2>1 DEF MemoryInvariant, SenderMemory, Separate, BufferIntact, TableIntact, FirstOwnsOne
  <2> QED
    BY <1>2, <2>2 DEF Memory
<1>4. CASE ReceiverNext
  <2>1. user' = "receiver" /\ ReceiverMemory'
    BY <1>4, ReceiverNextMemory
  <2>2. MemoryInvariant'
    BY <2>1 DEF MemoryInvariant, ReceiverMemory, Separate, BufferIntact, TableIntact,
                FirstOwnsOne
  <2> QED
    BY <1>2, <2>2 DEF Memory
<1>5. CASE TestNext
  <2>1. user' \in {"test", "first"} /\ TestMemory'
    BY <1>5, TestNextMemory DEF Testing
  <2>2. MemoryInvariant'
    BY <2>1 DEF MemoryInvariant, TestMemory, Separate, BufferIntact, TableIntact
  <2> QED
    BY <1>2, <2>2 DEF Memory
<1>6. CASE Delete
  <2>1. phase' = "gone" /\ UNCHANGED <<user, pkt1, buffer, table>>
    BY <1>6 DEF Delete
  <2>2. MemoryInvariant'
    BY <2>1 DEF Memory, MemoryInvariant, Separate, BufferIntact, TableIntact, DeletesOnce,
                FirstOwnsOne
  <2> QED
    BY <1>2, <2>2 DEF Memory
<1>7. CASE UNCHANGED vars
  <2>1. MemoryInvariant'
    BY <1>7 DEF vars, Memory, MemoryInvariant, Separate, BufferIntact, TableIntact,
                DeletesOnce, FirstOwnsOne
  <2> QED
    BY <1>2, <2>1 DEF Memory
<1> QED
  BY <1>3, <1>4, <1>5, <1>6, <1>7 DEF Next

LEMMA MemorySound == Spec => []Memory
<1>1. Init => Memory
  BY InitMemory
<1>2. Memory /\ [Next]_vars => Memory'
  BY NextMemory
<1> QED
  BY <1>1, <1>2, PTL DEF Spec

-----------------------------------------------------------------------------
(***************************************************************************)
(* Theorems.                                                               *)
(***************************************************************************)
\* No setter and no pkt_decode of either version leaves a field out of its
\* range (packet_implem.c:56-138, 227-312).
THEOREM PacketTypeCorrect == Spec => []TypeOK
<1>1. Memory => TypeOK
  BY DEF Memory
<1> QED
  BY <1>1, MemorySound, PTL

\* Every copy in the sender's buffer keeps pointing to the bytes of its
\* segment: what is retransmitted is what was sent (client.c:172-179, 338-362).
THEOREM RetransmissionsIntact == Spec => []BufferIntact
<1>1. Memory => BufferIntact
  BY DEF Memory, MemoryInvariant
<1> QED
  BY <1>1, MemorySound, PTL

\* The payloads waiting in the receiver's table are those decoded, unless a
\* truncated packet freed them (server.c:117, 147, 212).
THEOREM PayloadsIntact == Spec => []TableIntact
<1>1. Memory => TableIntact
  BY DEF Memory, MemoryInvariant
<1> QED
  BY <1>1, MemorySound, PTL

\* Neither pkt_set_payload nor pkt_del frees a payload twice
\* (packet_implem.c:50-54, 298-312).
THEOREM NoDoubleFree == Spec => []DeletesOnce
<1>1. Memory => DeletesOnce
  BY DEF Memory, MemoryInvariant
<1> QED
  BY <1>1, MemorySound, PTL

\* The first version never leaks a payload (packet_implem.c:51-55, 318-329 of
\* the first version).
THEOREM FirstLeaksNothing == Spec => []FirstOwnsOne
<1>1. Memory => FirstOwnsOne
  BY DEF Memory, MemoryInvariant
<1> QED
  BY <1>1, MemorySound, PTL

-----------------------------------------------------------------------------
(***************************************************************************)
(* Frames: what is written fits, and what is read is what module Datagram  *)
(* says.                                                                   *)
(***************************************************************************)
\* Replies have no payload.
ShortReplies == user = "receiver" => pkt2.LENGTH = 0

LEMMA ShortRepliesInductive ==
  /\ Init => ShortReplies
  /\ TypeOK /\ ShortReplies /\ [Next]_vars => ShortReplies'
<1>1. Init => ShortReplies
  BY DEF Init, ShortReplies, NewPacket
<1>2. ASSUME TypeOK, ShortReplies, [Next]_vars PROVE ShortReplies'
  <2>1. CASE SenderNext
    <3>1. user' = "sender"
      BY <2>1 DEF SenderNext, Retransmit, SendSegment, ReplyReadFails, Finish, ReceiveReply,
                  EndReply
    <3> QED
      BY <3>1 DEF ShortReplies
  <2>2. CASE TestNext
    <3>1. user' \in {"test", "first"}
      BY <2>2 DEF TestNext, Testing, TestSet, TestSetPayload, TestEncode, TestDamage, TestDecode
    <3> QED
      BY <3>1 DEF ShortReplies
  <2>3. ASSUME NEW s \in SeqNums, NEW c \in Cells, NEW t \in Clock, SendAck(s, c, t)
        PROVE  ShortReplies'
    <3> DEFINE reply == SetWindow(SetType(SetSeqnum(pkt2, s),
                          IF phase = "nack" THEN PTYPE_NACK ELSE PTYPE_ACK), RCV_WINDOW)
               empty == SetLength(reply, 0)
    <3>1. reply \in Packets
      BY <1>2, ReplyPacket DEF PTYPE_NACK, PTYPE_ACK
    <3>2. pkt2' = SetTimestamp(SetPayload(reply, 0, c), t)
      BY <2>3 DEF SendAck
    <3> HIDE DEF reply
    <3>3. ValidLength(0) /\ empty \in Packets /\ empty.LENGTH = 0
      BY <3>1, Constants DEF ValidLength, SetLength, Packets, Lengths
    <3>4. SetPayload(reply, 0, c) = [empty EXCEPT !.PAYLOAD = c]
      BY <3>3 DEF SetPayload
    <3> HIDE DEF empty
    <3>5. SetPayload(reply, 0, c).LENGTH = 0
      BY <3>3, <3>4 DEF Packets
    <3> QED
      BY <3>2, <3>5 DEF SetTimestamp, ShortReplies
  <2>4. CASE ReceiverNext
    <3>1. \/ \E s \in SeqNums, c \in Cells, t \in Clock : SendAck(s, c, t)
          \/ UNCHANGED <<user, pkt2>>
      BY <2>4 DEF ReceiverNext, Receive, WriteSlot
    <3> QED
      BY <1>2, <2>3, <3>1 DEF ShortReplies
  <2>5. CASE Delete \/ UNCHANGED vars
    BY <1>2, <2>5 DEF Delete, vars, ShortReplies
  <2> QED
    BY <1>2, <2>1, <2>2, <2>4, <2>5 DEF Next
<1> QED
  BY <1>1, <1>2

\* pkt_encode stays within packet_encoded and the buffer of send_ack
\* (packet_implem.c:140-183, server.c:258).
THEOREM EncodesWithinBuffers == Spec => []EncodeFits
<1>1. TypeOK /\ ShortReplies => EncodeFits
  <2> SUFFICES ASSUME TypeOK, ShortReplies PROVE EncodeFits
    OBVIOUS
  <2>1. pkt1.LENGTH \in 0 .. MAX_PAYLOAD_SIZE /\ pkt2.LENGTH \in 0 .. MAX_PAYLOAD_SIZE
    BY DEF TypeOK, Packets, Lengths
  <2> QED
    BY <2>1, Constants DEF ShortReplies, EncodeFits, BytesWritten, GetLength, BUFFER_SIZE,
                           ACK_BUFFER_SIZE
<1>2. Init => ShortReplies
  BY ShortRepliesInductive
<1>3. TypeOK /\ ShortReplies /\ [Next]_vars => ShortReplies'
  BY ShortRepliesInductive
<1> QED
  BY <1>1, <1>2, <1>3, PacketTypeCorrect, PTL DEF Spec

LEMMA DecodedFields ==
  ASSUME NEW p \in Packets, NEW w \in Frames, NEW n \in Nat, NEW c, n > 3
  PROVE  LET q == Decoded(p, w, n, c)
         IN  q.TYPE = w.TYPE /\ q.SEQNUM = w.SEQNUM /\ q.WINDOW = w.WINDOW
<1> DEFINE first == [p EXCEPT !.TYPE = w.TYPE, !.TR = w.TR, !.WINDOW = w.WINDOW,
                              !.SEQNUM = w.SEQNUM]
           h == DecodedHeader(p, w, n)
           Fields(q) == /\ q.TYPE = w.TYPE /\ q.SEQNUM = w.SEQNUM /\ q.WINDOW = w.WINDOW
                        /\ q \in Packets
<1>1. Fields(first)
  BY DEF Packets, Frames
<1>2. w.LENGTH \in Nat /\ w.TIMESTAMP \in Times
  BY DEF Frames
<1>3. ASSUME NEW q, Fields(q), ValidLength(w.LENGTH)
      PROVE  /\ Fields(SetLength(q, w.LENGTH)) /\ Fields(SetTimestamp(q, w.TIMESTAMP))
             /\ SetPayload(q, w.LENGTH, c).TYPE = w.TYPE
             /\ SetPayload(q, w.LENGTH, c).SEQNUM = w.SEQNUM
             /\ SetPayload(q, w.LENGTH, c).WINDOW = w.WINDOW
  <2>1. Fields(SetLength(q, w.LENGTH))
    BY <1>2, <1>3, Constants DEF SetLength, ValidLength, Packets, Lengths
  <2>2. Fields(SetTimestamp(q, w.TIMESTAMP))
    BY <1>2, <1>3 DEF SetTimestamp, Packets
  <2> QED
    BY <1>3, <2>1, <2>2 DEF SetPayload
<1> HIDE DEF first, Fields
<1>4. Fields(h)
  BY <1>1, <1>3 DEF DecodedHeader, first
<1>5. Decoded(p, w, n, c) = h \/ (ValidLength(w.LENGTH)
                                  /\ Decoded(p, w, n, c) = SetPayload(h, w.LENGTH, c))
  BY DEF Decoded, StoresPayload
<1> HIDE DEF h
<1> QED
  BY <1>3, <1>4, <1>5 DEF Fields

\* A datagram whose header is intact has the payload its header says.
LEMMA WholeBody ==
  ASSUME NEW w \in WholeWires, w.CRC1 = HeaderOf(w)
  PROVE  w.LENGTH \in Lengths /\ w.BODY.len = w.LENGTH
<1>1. PICK v \in Wires : w \in {v} \cup Marked(v) \cup DamagedWires(v)
  BY WholeCases
<1>2. v \in Frames /\ v.LENGTH \in Lengths
  BY WireTypes
<1>3. v.BODY.len = v.LENGTH /\ v.CRC1 = HeaderOf(v)
  <2>1. ASSUME NEW s \in SeqNums, NEW n \in SegLengths \cup {0}, NEW t \in Clock
        PROVE  /\ DataWire(s, n, t).BODY.len = DataWire(s, n, t).LENGTH
               /\ DataWire(s, n, t).CRC1 = HeaderOf(DataWire(s, n, t))
    <3>1. n \in Nat
      BY UseAssumption, Constants DEF UseAssumption
    <3>2. DataWire(s, n, t).LENGTH = n
      BY DEF DataWire, Encode, NewPacket
    <3>3. DataWire(s, n, t).BODY.len = n
      BY <3>1 DEF DataWire, Encode, NewPacket, GetLength, FirstBytes, Bytes, NoBytes
    <3>4. DataWire(s, n, t).CRC1 = HeaderOf(DataWire(s, n, t))
      BY DEF DataWire, Encode, NewPacket, HeaderOf
    <3> QED
      BY <3>2, <3>3, <3>4
  <2>2. ASSUME NEW type, NEW s, NEW t
        PROVE  /\ AckWire(type, s, t).BODY.len = AckWire(type, s, t).LENGTH
               /\ AckWire(type, s, t).CRC1 = HeaderOf(AckWire(type, s, t))
    BY DEF AckWire, Encode, NewPacket, GetLength, NoBytes, Bytes, HeaderOf
  <2> QED
    BY <2>1, <2>2 DEF Wires, SentReplies, SentData
<1>4. CASE w \in {v} \cup Marked(v)
  BY <1>2, <1>3, <1>4 DEF Marked, Frames
<1>5. CASE w \in DamagedWires(v)
  <2>1. ASSUME NEW n \in {0, MAX_PAYLOAD_SIZE + 1}, w = [v EXCEPT !.LENGTH = n]
        PROVE  w.LENGTH = v.LENGTH /\ w.BODY = v.BODY
    <3>1. w.LENGTH = n /\ w.CRC1 = v.CRC1 /\ w.BODY = v.BODY
      BY <1>2, <2>1 DEF Frames
    <3>2. HeaderOf(w)[5] = w.LENGTH /\ HeaderOf(v)[5] = v.LENGTH
      BY DEF HeaderOf
    <3> QED
      BY <1>3, <3>1, <3>2
  <2>2. ASSUME NEW s, w = [v EXCEPT !.TYPE = PTYPE_NACK, !.SEQNUM = s, !.WINDOW = 1]
        PROVE  w.LENGTH = v.LENGTH /\ w.BODY = v.BODY
    BY <1>2, <2>2 DEF Frames
  <2>3. ASSUME w = [v EXCEPT !.BODY.data = Junk]
        PROVE  w.LENGTH = v.LENGTH /\ w.BODY.len = v.BODY.len
    BY <1>2, <2>3 DEF Frames, Blocks
  <2> QED
    BY <1>2, <1>3, <1>5, <2>1, <2>2, <2>3 DEF DamagedWires
<1> QED
  BY <1>1, <1>4, <1>5

\* What is in the buffer once w was read whole.
LEMMA WholeReceived ==
  ASSUME TypeOK, NEW w \in WholeWires
  PROVE  LET n == EncodedLength(w)
             b == Received(w, n)
         IN  /\ w \in Frames /\ b \in Frames /\ n \in Nat /\ n > 3
             /\ b.TYPE = w.TYPE /\ b.TR = w.TR /\ b.WINDOW = w.WINDOW
             /\ b.SEQNUM = w.SEQNUM /\ b.LENGTH = w.LENGTH
             /\ HeaderMatches(b) <=> w.CRC1 = HeaderOf(w)
             /\ w.TR = 0 /\ w.LENGTH > 0 => b.BODY = w.BODY /\ b.CRC2 = w.CRC2
<1> DEFINE n == EncodedLength(w)
           b == Received(w, n)
<1>1. w \in Frames
  BY WholeTypes
<1>2. /\ n \in Nat /\ n >= HEADER_SIZE
      /\ w.TR = 0 /\ w.LENGTH > 0 => n > HEADER_SIZE
  BY <1>1, Constants DEF EncodedLength, GetLength, Frames
<1> HIDE DEF n
<1>3. n > 0 /\ n > 1 /\ n > 3 /\ n > 7 /\ n >= HEADER_SIZE
  BY <1>2, Constants
<1>4. /\ b.TYPE = w.TYPE /\ b.TR = w.TR /\ b.WINDOW = w.WINDOW
      /\ b.SEQNUM = w.SEQNUM /\ b.LENGTH = w.LENGTH /\ b.TIMESTAMP = w.TIMESTAMP
      /\ b.CRC1 = w.CRC1
  BY <1>3 DEF Received
<1>5. HeaderMatches(b) <=> w.CRC1 = HeaderOf(w)
  BY <1>4 DEF HeaderMatches, HeaderOf
<1>6. w.TR = 0 /\ w.LENGTH > 0 => b.BODY = w.BODY /\ b.CRC2 = w.CRC2
  BY <1>2 DEF Received
<1>7. b \in Frames
  BY <1>1, <1>2, ReceivedType
<1> QED
  BY <1>1, <1>2, <1>3, <1>4, <1>5, <1>6, <1>7 DEF n

\* Whatever was in the buffer and in the packet before, pkt_decode makes of a
\* datagram that comes whole what modules Sender and Receiver take it to make:
\* the same datagrams pass, with their payload, and the header is stored even of
\* those that do not (packet_implem.c:56-138).
THEOREM CodecIsDatagram == Spec => []DecodesAsDatagram
<1>1. ASSUME TypeOK, NEW w \in WholeWires, NEW q \in Packets
      PROVE  LET n  == EncodedLength(w)
                 b  == Received(w, n)
                 p  == Decoded(q, b, n, NULL)
                 d  == AsDatagram(w)
                 ok == DecodeResult(b, n) = "PKT_OK"
             IN  /\ ok <=> DecodesOK(d)
                 /\ Header(d) = [TYPE |-> p.TYPE, SEQNUM |-> p.SEQNUM,
                                 WINDOW |-> p.WINDOW]
                 /\ ok => /\ Length(d) = 0 <=> GetLength(p) = 0
                          /\ Length(d) > 0 => StoresPayload(b, n) /\ BodyOf(b) = w.BODY
  <2> DEFINE n == EncodedLength(w)
             b == Received(w, n)
             p == Decoded(q, b, n, NULL)
             d == AsDatagram(w)
             sound == w.CRC1 = HeaderOf(w)
             whole == w.BODY = w.CRC2
  <2>1. /\ w \in Frames /\ b \in Frames /\ n \in Nat /\ n > 3 /\ n # 0 /\ n \notin 1 .. 3
        /\ b.TYPE = w.TYPE /\ b.TR = w.TR /\ b.WINDOW = w.WINDOW
        /\ b.SEQNUM = w.SEQNUM /\ b.LENGTH = w.LENGTH
        /\ HeaderMatches(b) <=> sound
        /\ w.TR = 0 /\ w.LENGTH > 0 => b.BODY = w.BODY /\ b.CRC2 = w.CRC2
    BY <1>1, WholeReceived
  <2>2. sound => w.LENGTH \in Lengths /\ w.BODY.len = w.LENGTH
    BY WholeBody
  <2>3. p.TYPE = w.TYPE /\ p.SEQNUM = w.SEQNUM /\ p.WINDOW = w.WINDOW
    BY <2>1, DecodedFields
  <2>4. ValidLength(w.LENGTH) => p.TR = w.TR /\ p.LENGTH = w.LENGTH
    BY <2>1, DecodedTr
  <2>5. /\ w.LENGTH \in Nat /\ w.TR \in {0, 1} /\ w.BODY \in Blocks
        /\ sound => ValidLength(w.LENGTH)
    BY <2>1, <2>2, Constants DEF Frames, ValidLength, Lengths
  <2>6. sound /\ w.TR = 0 /\ w.LENGTH > 0 => BodyOf(b) = w.BODY
    <3>1. ASSUME w.BODY.len = w.LENGTH PROVE FirstBytes(w.BODY, w.LENGTH) = w.BODY
      BY <2>5, <3>1 DEF FirstBytes, Bytes, Blocks
    <3> QED
      BY <2>1, <2>2, <3>1 DEF BodyOf
  <2>7. /\ d.TYPE = w.TYPE /\ d.TR = w.TR /\ d.SEQNUM = w.SEQNUM /\ d.WINDOW = w.WINDOW
        /\ d.CRC = "hdr" <=> ~sound
        /\ d.CRC = "payload" <=> sound /\ ~whole
        /\ d.PAYLOAD = NoData <=> w.BODY.len = 0
    <3>1. w.BODY.data \in Int /\ w.BODY.len \in Nat
      BY <2>5 DEF Blocks
    <3>2. d.PAYLOAD = NoData <=> w.BODY.len = 0
      <4>1. CASE w.BODY.data = Junk
        BY <3>1, <4>1 DEF AsDatagram, NoData, Junk
      <4>2. CASE w.BODY.data # Junk
        BY <3>1, <4>2 DEF AsDatagram, NoData, Junk
      <4> QED
        BY <4>1, <4>2
    <3> QED
      BY <3>2 DEF AsDatagram
  <2> HIDE DEF n, b, p, d
  <2>8. DecodeResult(b, n) = "PKT_OK" <=>
          sound /\ (w.LENGTH > 0 /\ w.TR = 0 => whole)
    <3>1. CASE ~ValidLength(w.LENGTH)
      BY <2>1, <2>5, <3>1 DEF DecodeResult
    <3>2. CASE ValidLength(w.LENGTH)
      <4>1. DecodeResult(b, n) = "PKT_OK" <=>
              HeaderMatches(b) /\ (w.LENGTH > 0 /\ w.TR = 0 => PayloadMatches(b))
        BY <2>1, <3>2 DEF DecodeResult
      <4>2. sound /\ w.LENGTH > 0 /\ w.TR = 0 => (PayloadMatches(b) <=> whole)
        BY <2>1, <2>6 DEF PayloadMatches
      <4> QED
        BY <2>1, <4>1, <4>2
    <3> QED
      BY <3>1, <3>2
  <2>9. DecodesOK(d) <=> sound /\ (w.TR = 0 /\ w.BODY.len # 0 => whole)
    BY <2>7 DEF DecodesOK, DecodeStatus
  <2>10. DecodeResult(b, n) = "PKT_OK" <=> DecodesOK(d)
    BY <2>2, <2>5, <2>8, <2>9
  <2>11. Header(d) = [TYPE |-> p.TYPE, SEQNUM |-> p.SEQNUM, WINDOW |-> p.WINDOW]
    BY <2>3, <2>7 DEF Header
  <2>12. ASSUME DecodeResult(b, n) = "PKT_OK"
         PROVE  /\ Length(d) = 0 <=> GetLength(p) = 0
                /\ Length(d) > 0 => StoresPayload(b, n) /\ BodyOf(b) = w.BODY
    <3>1. /\ sound /\ ValidLength(w.LENGTH) /\ w.BODY.len = w.LENGTH
          /\ p.TR = w.TR /\ p.LENGTH = w.LENGTH
      BY <2>2, <2>4, <2>5, <2>8, <2>12
    <3>2. Length(d) = (IF w.TR = 0 /\ w.LENGTH # 0 THEN 1 ELSE 0)
      BY <2>7, <3>1 DEF Length
    <3>3. Length(d) = 0 <=> GetLength(p) = 0
      BY <2>5, <3>1, <3>2 DEF GetLength
    <3>4. w.TR = 0 /\ w.LENGTH # 0 => StoresPayload(b, n) /\ BodyOf(b) = w.BODY
      BY <2>1, <2>5, <2>6, <3>1 DEF StoresPayload
    <3> QED
      BY <3>2, <3>3, <3>4
  <2> QED
    BY <2>10, <2>11, <2>12 DEF n, b, p, d
<1>2. TypeOK => DecodesAsDatagram
  <2> SUFFICES ASSUME TypeOK PROVE DecodesAsDatagram
    OBVIOUS
  <2>1. pkt1 \in Packets /\ pkt2 \in Packets
    BY DEF TypeOK
  <2>2. CASE user = "sender"
    BY <1>1, <2>1, <2>2 DEF DecodesAsDatagram
  <2>3. CASE user # "sender"
    BY <1>1, <2>1, <2>3 DEF DecodesAsDatagram
  <2> QED
    BY <2>2, <2>3
<1> QED
  BY <1>2, PacketTypeCorrect, PTL
-----------------------------------------------------------------------------
(***************************************************************************)
(* The tests: what was encoded is decoded.                                 *)
(***************************************************************************)
\* What a test has encoded, and not damaged.
Intact ==
  /\ HeaderOf(buf) = HeaderOf(pkt1) /\ buf.CRC1 = HeaderOf(buf)
  /\ GetLength(pkt1) > 0 =>
       /\ pkt1.PAYLOAD # NULL /\ buf.BODY = FirstBytes(mem[pkt1.PAYLOAD], buf.LENGTH)
       /\ buf.CRC2 = buf.BODY /\ buf.BODY.data # Junk

\* What it has damaged: one of the checksums that are looked at shows it.
Refused ==
  HeaderMatches(buf) => buf.LENGTH > 0 /\ buf.TR = 0 /\ ~PayloadMatches(buf)

TestPhases == {"encoded", "damaged", "decoded", "damage decoded"}

\* Makes RoundTrip inductive.
RoundTripSound ==
  /\ phase \in TestPhases => Testing
  /\ Testing /\ phase = "loop" /\ pkt1.PAYLOAD # NULL => mem[pkt1.PAYLOAD].data # Junk
  /\ phase = "encoded" => Intact
  /\ phase = "damaged" => Refused
  /\ RoundTrip

LEMMA Headers6 ==
  ASSUME NEW p, NEW q, HeaderOf(p) = HeaderOf(q)
  PROVE  /\ p.TYPE = q.TYPE /\ p.TR = q.TR /\ p.WINDOW = q.WINDOW
         /\ p.SEQNUM = q.SEQNUM /\ p.LENGTH = q.LENGTH /\ p.TIMESTAMP = q.TIMESTAMP
BY DEF HeaderOf

\* The fields of a packet that was encoded.
LEMMA EncodedFields ==
  ASSUME NEW p \in Packets, NEW b
  PROVE  LET w == Overwritten(p, b)
         IN  /\ HeaderOf(w) = HeaderOf(p) /\ w.CRC1 = HeaderOf(p)
             /\ GetLength(p) > 0 => w.BODY = FirstBytes(b, GetLength(p)) /\ w.CRC2 = w.BODY
<1> DEFINE w == Encode(p, b)
           older == [w EXCEPT !.BODY = buf.BODY, !.CRC2 = buf.CRC2]
           zeroed == [older EXCEPT !.BODY.data = Junk]
<1>1. /\ HeaderOf(w) = HeaderOf(p) /\ w.CRC1 = HeaderOf(p)
      /\ GetLength(p) > 0 => w.BODY = FirstBytes(b, GetLength(p)) /\ w.CRC2 = w.BODY
  BY DEF Encode, HeaderOf
<1>2. HeaderOf(older) = HeaderOf(p) /\ older.CRC1 = HeaderOf(p)
  BY DEF Encode, HeaderOf
<1>3. HeaderOf(zeroed) = HeaderOf(p) /\ zeroed.CRC1 = HeaderOf(p)
  BY DEF Encode, HeaderOf
<1>4. p.TR \in {0, 1} /\ GetLength(p) \in Nat
  BY Constants DEF Packets, GetLength
<1>5. Overwritten(p, b) = CASE GetLength(p) > 0 -> w
                            [] GetLength(p) = 0 /\ p.TR = 0 -> zeroed
                            [] p.TR # 0 -> older
  BY DEF Overwritten
<1> HIDE DEF w, older, zeroed
<1>6. CASE GetLength(p) > 0
  <2>1. p.TR = 0
    BY <1>4, <1>6 DEF GetLength
  <2> QED
    BY <1>1, <1>5, <1>6, <2>1
<1>7. CASE GetLength(p) = 0
  BY <1>2, <1>3, <1>4, <1>5, <1>7
<1> QED
  BY <1>4, <1>6, <1>7

LEMMA TestEncodeSound ==
  ASSUME Memory, RoundTripSound, NEW t \in Times, TestEncode(t)
  PROVE  RoundTripSound'
<1> DEFINE block == IF GetLength(pkt1) > 0 THEN mem[pkt1.PAYLOAD] ELSE NoBytes
           next == IF user = "first" THEN pkt1 ELSE SetTimestamp(pkt1, t)
<1>1. /\ pkt1 \in Packets /\ mem \in [Cells -> Blocks] /\ buf \in Frames
      /\ Testing /\ user' = user /\ mem' = mem /\ phase = "loop" /\ phase' = "encoded"
      /\ pkt1' = next /\ buf' = Overwritten(pkt1', block)
      /\ GetLength(pkt1) > 0 =>
           pkt1.PAYLOAD # NULL /\ GetLength(pkt1) <= mem[pkt1.PAYLOAD].len
  BY DEF Memory, TypeOK, TestEncode, UNCHANGEDmemory
<1>2. /\ next \in Packets /\ next.PAYLOAD = pkt1.PAYLOAD /\ next.TR = pkt1.TR
      /\ next.LENGTH = pkt1.LENGTH
  BY <1>1 DEF SetTimestamp, Packets
<1>3. GetLength(next) = GetLength(pkt1)
  BY <1>2 DEF GetLength
<1>4. /\ HeaderOf(buf') = HeaderOf(next) /\ buf'.CRC1 = HeaderOf(next)
      /\ GetLength(next) > 0 =>
           buf'.BODY = FirstBytes(block, GetLength(next)) /\ buf'.CRC2 = buf'.BODY
  <2>1. buf' = Overwritten(next, block)
    BY <1>1
  <2> HIDE DEF next, block
  <2> QED
    BY <1>2, <2>1, EncodedFields
<1>5. ASSUME GetLength(next) > 0
      PROVE  /\ next.PAYLOAD # NULL /\ buf'.BODY = FirstBytes(mem[next.PAYLOAD], buf'.LENGTH)
             /\ buf'.CRC2 = buf'.BODY /\ buf'.BODY.data # Junk
  <2>1. /\ next.PAYLOAD # NULL /\ block = mem[next.PAYLOAD]
        /\ GetLength(next) <= mem[next.PAYLOAD].len
    BY <1>1, <1>2, <1>3, <1>5
  <2>2. mem[next.PAYLOAD].data # Junk
    BY <1>1, <1>2, <2>1 DEF RoundTripSound
  <2>3. GetLength(next) = next.LENGTH
    BY <1>2, <1>5, Constants DEF GetLength
  <2>4. buf'.LENGTH = next.LENGTH
    BY <1>4, Headers6
  <2> HIDE DEF next, block
  <2> QED
    BY <1>4, <1>5, <2>1, <2>2, <2>3, <2>4 DEF FirstBytes, Bytes
<1> HIDE DEF next, block
<1>6. Intact'
  BY <1>1, <1>4, <1>5 DEF Intact
<1> QED
  BY <1>1, <1>6 DEF RoundTripSound, RoundTrip, Testing

LEMMA TestDamageSound ==
  ASSUME Memory, RoundTripSound, TestDamage
  PROVE  RoundTripSound'
<1>1. /\ pkt1 \in Packets /\ mem \in [Cells -> Blocks] /\ buf \in Frames
      /\ Testing /\ user' = user /\ phase = "encoded" /\ phase' = "damaged"
  BY DEF Memory, TypeOK, TestDamage
<1>2. Intact
  BY <1>1 DEF RoundTripSound
<1>3. ASSUME NEW t \in Times, buf' = [buf EXCEPT !.TIMESTAMP = t], buf' # buf
      PROVE  Refused'
  <2>1. t # buf.TIMESTAMP
    BY <1>1, <1>3 DEF Frames
  <2>2. buf'.TIMESTAMP = t /\ buf'.CRC1 = buf.CRC1
    BY <1>1, <1>3 DEF Frames
  <2>3. HeaderOf(buf') # HeaderOf(buf)
    BY <2>1, <2>2, Headers6
  <2> QED
    BY <1>2, <2>2, <2>3 DEF Intact, Refused, HeaderMatches
<1>4. ASSUME buf' = [buf EXCEPT !.CRC1 = <<>>] PROVE Refused'
  <2>1. buf'.CRC1 = <<>>
    BY <1>1, <1>4 DEF Frames
  <2>2. HeaderOf(buf') # <<>>
    BY DEF HeaderOf
  <2> QED
    BY <2>1, <2>2 DEF Refused, HeaderMatches
<1>5. ASSUME GetLength(pkt1) > 0, buf' = [buf EXCEPT !.BODY.data = Junk] PROVE Refused'
  <2>1. /\ buf'.BODY = [buf.BODY EXCEPT !.data = Junk] /\ buf'.CRC2 = buf.CRC2
        /\ buf'.LENGTH = buf.LENGTH /\ buf'.TR = buf.TR /\ buf.BODY \in Blocks
        /\ buf.LENGTH \in Nat
    BY <1>1, <1>5 DEF Frames
  <2>2. buf.LENGTH = pkt1.LENGTH /\ buf.TR = pkt1.TR
    BY <1>2, Headers6 DEF Intact
  <2>3. buf.LENGTH > 0 /\ buf.TR = 0
    BY <1>1, <1>5, <2>2 DEF GetLength
  <2>4. buf.CRC2.data # Junk
    BY <1>2, <1>5 DEF Intact
  <2>5. buf'.BODY.data = Junk
    BY <2>1 DEF Blocks
  <2>6. BodyOf(buf').data = Junk
    BY <2>5 DEF BodyOf, FirstBytes, Bytes
  <2> QED
    BY <2>1, <2>3, <2>4, <2>6 DEF Refused, PayloadMatches
<1>6. Refused'
  BY <1>3, <1>4, <1>5 DEF TestDamage
<1> QED
  BY <1>1, <1>6 DEF RoundTripSound, RoundTrip, Testing
\* A packet decoded from a whole header with a valid length.
LEMMA DecodedTime ==
  ASSUME NEW p \in Packets, NEW w \in Frames, NEW n \in Nat,
         NEW c, n > 3, ValidLength(w.LENGTH)
  PROVE  Decoded(p, w, n, c).TIMESTAMP = w.TIMESTAMP
<1> DEFINE h == DecodedHeader(p, w, n)
           first == [p EXCEPT !.TYPE = w.TYPE, !.TR = w.TR, !.WINDOW = w.WINDOW,
                              !.SEQNUM = w.SEQNUM]
           sized == SetLength(first, w.LENGTH)
<1>1. first \in Packets
  BY DEF Packets, Frames
<1> HIDE DEF first
<1>2. w.LENGTH \in Lengths /\ sized = [first EXCEPT !.LENGTH = w.LENGTH]
  BY Constants DEF SetLength, ValidLength, Lengths, Frames
<1>3. sized \in Packets
  BY <1>1, <1>2 DEF Packets
<1>4. h = SetTimestamp(sized, w.TIMESTAMP)
  BY DEF DecodedHeader, first
<1> HIDE DEF sized
<1>5. h \in Packets /\ h.TIMESTAMP = w.TIMESTAMP
  BY <1>3, <1>4 DEF SetTimestamp, Packets, Frames
<1>6. Decoded(p, w, n, c) = h \/ Decoded(p, w, n, c) = SetPayload(h, w.LENGTH, c)
  BY DEF Decoded
<1> HIDE DEF h
<1>7. SetLength(h, w.LENGTH) \in Packets /\ SetLength(h, w.LENGTH).TIMESTAMP = w.TIMESTAMP
  BY <1>2, <1>5 DEF SetLength, Packets
<1>8. SetPayload(h, w.LENGTH, c).TIMESTAMP = w.TIMESTAMP
  BY <1>7 DEF SetPayload, Packets
<1> QED
  BY <1>5, <1>6, <1>8

\* What the first version makes of data that is whole.
LEMMA FirstDecodedFields ==
  ASSUME NEW p \in Packets, NEW w \in Frames, NEW n \in Nat, NEW c \in Cells,
         n > 3, ValidLength(w.LENGTH), w.TYPE = PTYPE_DATA
  PROVE  LET q == FirstDecoded(p, w, n, c)
         IN  /\ q.TYPE = w.TYPE /\ q.TR = 0 /\ q.SEQNUM = w.SEQNUM /\ q.WINDOW = w.WINDOW
             /\ q.LENGTH = w.LENGTH /\ q.TIMESTAMP = LowByte(w.TIMESTAMP)
             /\ FirstStoresPayload(w, n) => q.PAYLOAD = c
<1> DEFINE typed == SetType(p, w.TYPE)
           zero == SetTr(typed, 0)
           filled == [zero EXCEPT !.WINDOW = w.WINDOW, !.SEQNUM = w.SEQNUM]
           timed == SetTimestamp(SetLength(filled, w.LENGTH), LowByte(w.TIMESTAMP))
           Fields(q) == /\ q.TYPE = w.TYPE /\ q.TR = 0 /\ q.SEQNUM = w.SEQNUM
                        /\ q.WINDOW = w.WINDOW /\ q.LENGTH = w.LENGTH
                        /\ q.TIMESTAMP = LowByte(w.TIMESTAMP)
<1>1. /\ w.LENGTH \in Lengths /\ LowByte(w.TIMESTAMP) \in Times /\ ValidType(w.TYPE)
      /\ w.WINDOW \in 0 .. MAX_WINDOW_SIZE /\ w.SEQNUM \in SeqNums
  BY TimeBytes, Constants DEF Frames, ValidLength, Lengths, ValidType
<1>2. typed \in Packets /\ typed.TYPE = PTYPE_DATA
  BY <1>1 DEF Packets, SetType, Frames
<1> HIDE DEF typed
<1>3. zero \in Packets /\ zero.TYPE = PTYPE_DATA /\ zero.TR = 0
  BY <1>2 DEF Packets, SetTr, ValidTr
<1> HIDE DEF zero
<1>4. /\ filled \in Packets /\ filled.TYPE = PTYPE_DATA /\ filled.TR = 0
      /\ filled.WINDOW = w.WINDOW /\ filled.SEQNUM = w.SEQNUM
  BY <1>1, <1>3 DEF Packets
<1> HIDE DEF filled
<1>5. timed \in Packets /\ Fields(timed)
  BY <1>1, <1>4 DEF Packets, SetTimestamp, SetLength
<1> HIDE DEF timed
<1>6. FirstDecodedHeader(p, w, n) = timed
  BY <1>1 DEF FirstDecodedHeader, typed, zero, filled, timed
<1>7. SetLength(timed, w.LENGTH) \in Packets /\ Fields(SetLength(timed, w.LENGTH))
  BY <1>1, <1>5 DEF SetLength, Packets
<1>8. /\ Fields(FirstSetPayload(timed, w.LENGTH, c))
      /\ w.LENGTH # 0 => FirstSetPayload(timed, w.LENGTH, c).PAYLOAD = c
  BY <1>7 DEF FirstSetPayload, Packets
<1>9. FirstStoresPayload(w, n) => w.LENGTH # 0
  BY <1>1, Constants DEF FirstStoresPayload, StoresPayload
<1> QED
  BY <1>5, <1>6, <1>8, <1>9 DEF FirstDecoded

\* A whole buffer decodes, and what is stored is what was encoded.
LEMMA IntactDecodes ==
  ASSUME Memory, Intact
  PROVE  /\ HeaderMatches(buf) /\ ValidLength(buf.LENGTH) /\ BUFFER_SIZE > 3
         /\ BUFFER_SIZE # 0 /\ BUFFER_SIZE \notin 1 .. 3 /\ BUFFER_SIZE \in Nat
         /\ buf.TYPE = pkt1.TYPE /\ buf.TR = pkt1.TR /\ buf.WINDOW = pkt1.WINDOW
         /\ buf.SEQNUM = pkt1.SEQNUM /\ buf.LENGTH = pkt1.LENGTH
         /\ buf.TIMESTAMP = pkt1.TIMESTAMP
         /\ GetLength(pkt1) > 0 =>
              /\ pkt1.PAYLOAD # NULL /\ GetLength(pkt1) = buf.LENGTH /\ PayloadMatches(buf)
              /\ BodyOf(buf) = FirstBytes(mem[pkt1.PAYLOAD], GetLength(pkt1))
         /\ buf.LENGTH > 0 /\ buf.TR = 0 => GetLength(pkt1) > 0
<1>1. pkt1 \in Packets /\ buf \in Frames
  BY DEF Memory, TypeOK
<1>2. HeaderMatches(buf)
  BY DEF Intact, HeaderMatches
<1>3. /\ buf.TYPE = pkt1.TYPE /\ buf.TR = pkt1.TR /\ buf.WINDOW = pkt1.WINDOW
      /\ buf.SEQNUM = pkt1.SEQNUM /\ buf.LENGTH = pkt1.LENGTH
      /\ buf.TIMESTAMP = pkt1.TIMESTAMP
  BY Headers6 DEF Intact
<1>4. buf.LENGTH \in Lengths /\ ValidLength(buf.LENGTH)
  BY <1>1, <1>3, Constants DEF Packets, ValidLength, Lengths
<1>5. BUFFER_SIZE \in Nat /\ BUFFER_SIZE > 3 /\ BUFFER_SIZE # 0 /\ BUFFER_SIZE \notin 1 .. 3
  BY BufferSize
<1>6. buf.LENGTH > 0 /\ buf.TR = 0 => GetLength(pkt1) > 0
  BY <1>3 DEF GetLength
<1>7. ASSUME GetLength(pkt1) > 0
      PROVE  /\ pkt1.PAYLOAD # NULL /\ GetLength(pkt1) = buf.LENGTH /\ PayloadMatches(buf)
             /\ BodyOf(buf) = FirstBytes(mem[pkt1.PAYLOAD], GetLength(pkt1))
  <2>1. GetLength(pkt1) = buf.LENGTH
    BY <1>3, <1>7 DEF GetLength
  <2>2. /\ pkt1.PAYLOAD # NULL /\ buf.BODY = FirstBytes(mem[pkt1.PAYLOAD], buf.LENGTH)
        /\ buf.CRC2 = buf.BODY
    BY <1>7 DEF Intact
  <2>3. buf.BODY = Bytes(buf.BODY.data, buf.LENGTH)
    BY <2>2 DEF FirstBytes, Bytes
  <2>4. buf.LENGTH <= buf.BODY.len
    <3>1. buf.BODY.len = buf.LENGTH
      BY <2>2 DEF FirstBytes, Bytes
    <3>2. buf.LENGTH \in Nat
      BY <1>1 DEF Frames
    <3> QED
      BY <3>1, <3>2
  <2>5. BodyOf(buf) = Bytes(buf.BODY.data, buf.LENGTH)
    BY <2>4 DEF BodyOf, FirstBytes
  <2> QED
    BY <2>1, <2>2, <2>3, <2>5 DEF PayloadMatches
<1> QED
  BY <1>2, <1>3, <1>4, <1>5, <1>6, <1>7
LEMMA SameFields ==
  ASSUME NEW p \in Packets, NEW q \in Packets, p.TYPE = q.TYPE, p.TR = q.TR,
         p.WINDOW = q.WINDOW, p.SEQNUM = q.SEQNUM, p.LENGTH = q.LENGTH
  PROVE  [p EXCEPT !.PAYLOAD = NULL, !.TIMESTAMP = 0]
           = [q EXCEPT !.PAYLOAD = NULL, !.TIMESTAMP = 0]
BY DEF Packets

LEMMA TestDecodeSound ==
  ASSUME Memory, RoundTripSound, NEW c \in Cells, TestDecode(c)
  PROVE  RoundTripSound'
<1>1. /\ TypeOK /\ pkt1 \in Packets /\ pkt2 \in Packets /\ buf \in Frames
      /\ BUFFER_SIZE \in Nat /\ BUFFER_SIZE > 3 /\ BUFFER_SIZE # 0 /\ BUFFER_SIZE \notin 1 .. 3
      /\ Testing /\ user' = user /\ pkt1' = pkt1 /\ buf' = buf /\ phase # "gone"
      /\ Reachable = {pkt1.PAYLOAD, pkt2.PAYLOAD}
  <2>1. TypeOK /\ pkt1 \in Packets /\ pkt2 \in Packets /\ buf \in Frames
    BY DEF Memory, TypeOK
  <2>2. Testing /\ user' = user /\ pkt1' = pkt1 /\ buf' = buf /\ phase # "gone"
    BY DEF TestDecode
  <2> QED
    BY <2>1, <2>2, TestReachable, BufferSize
<1>2. /\ {pkt1.PAYLOAD, pkt2.PAYLOAD} \subseteq live \cup {NULL}
      /\ pkt1.PAYLOAD = pkt2.PAYLOAD => pkt1.PAYLOAD = NULL
      /\ NULL \notin live
  BY <1>1, Constants DEF Memory, MemoryInvariant, DeletesOnce, TypeOK
<1>3. CASE phase = "damaged"
  <2>1. Refused /\ phase' = "damage decoded"
    BY <1>3 DEF RoundTripSound, TestDecode
  <2>2. CASE user = "test"
    <3>1. DecodeResult(buf, BUFFER_SIZE) # "PKT_OK"
      BY <1>1, <2>1 DEF Refused, DecodeResult
    <3> QED
      BY <1>1, <2>1, <2>2, <3>1 DEF TestDecode, RoundTripSound, RoundTrip, Testing
  <2>3. CASE user = "first"
    <3>1. FirstDecodeResult(buf, BUFFER_SIZE) # "PKT_OK"
      BY <1>1, <2>1 DEF Refused, FirstDecodeResult, ValidType
    <3> QED
      BY <1>1, <2>1, <2>3, <3>1 DEF TestDecode, RoundTripSound, RoundTrip, Testing
  <2> QED
    BY <1>1, <2>2, <2>3 DEF Testing
<1>4. CASE phase = "encoded"
  <2>1. Intact /\ phase' = "decoded"
    BY <1>4 DEF RoundTripSound, TestDecode
  <2>2. /\ HeaderMatches(buf) /\ ValidLength(buf.LENGTH)
        /\ buf.TYPE = pkt1.TYPE /\ buf.TR = pkt1.TR /\ buf.WINDOW = pkt1.WINDOW
        /\ buf.SEQNUM = pkt1.SEQNUM /\ buf.LENGTH = pkt1.LENGTH
        /\ buf.TIMESTAMP = pkt1.TIMESTAMP
        /\ GetLength(pkt1) > 0 =>
             /\ pkt1.PAYLOAD # NULL /\ GetLength(pkt1) = buf.LENGTH /\ PayloadMatches(buf)
             /\ BodyOf(buf) = FirstBytes(mem[pkt1.PAYLOAD], GetLength(pkt1))
        /\ buf.LENGTH > 0 /\ buf.TR = 0 => GetLength(pkt1) > 0
    BY <2>1, IntactDecodes
  <2>3. pkt2' \in Packets
    BY TestDecodeType, <1>1 DEF TypeOK
  <2>4. CASE user = "test"
    <3>1. /\ status' = DecodeResult(buf, BUFFER_SIZE) /\ StorePayload(pkt2, buf, BUFFER_SIZE, c)
          /\ pkt2' = Decoded(pkt2, buf, BUFFER_SIZE, c)
      BY <2>4 DEF TestDecode
    <3>2. status' = "PKT_OK"
      BY <1>1, <2>2, <3>1 DEF DecodeResult
    <3>3. /\ pkt2'.TYPE = buf.TYPE /\ pkt2'.SEQNUM = buf.SEQNUM /\ pkt2'.WINDOW = buf.WINDOW
          /\ pkt2'.TR = buf.TR /\ pkt2'.LENGTH = buf.LENGTH
          /\ pkt2'.TIMESTAMP = buf.TIMESTAMP
      BY <1>1, <2>2, <3>1, DecodedFields, DecodedTr, DecodedTime
    <3>4. ASSUME GetLength(pkt1) > 0
          PROVE  mem'[pkt2'.PAYLOAD] = FirstBytes(mem'[pkt1.PAYLOAD], GetLength(pkt1))
      <4>1. StoresPayload(buf, BUFFER_SIZE) /\ c \in Targets(buf, BUFFER_SIZE)
        BY <1>1, <2>2, <3>4 DEF StoresPayload, Targets
      <4>2. pkt1.PAYLOAD \in live \cap Reachable /\ pkt1.PAYLOAD # pkt2.PAYLOAD
        BY <1>1, <1>2, <2>2, <3>4
      <4>3. mem'[pkt1.PAYLOAD] = mem[pkt1.PAYLOAD] /\ mem'[pkt2'.PAYLOAD] = BodyOf(buf)
        BY <1>1, <1>2, <3>1, <4>1, <4>2, Stored
      <4> QED
        BY <2>2, <3>4, <4>3
    <3>5. [pkt1 EXCEPT !.PAYLOAD = NULL, !.TIMESTAMP = 0]
            = [pkt2' EXCEPT !.PAYLOAD = NULL, !.TIMESTAMP = 0]
      <4> DEFINE q == pkt2'
      <4>1. /\ q \in Packets /\ pkt1.TYPE = q.TYPE /\ pkt1.TR = q.TR
            /\ pkt1.WINDOW = q.WINDOW /\ pkt1.SEQNUM = q.SEQNUM /\ pkt1.LENGTH = q.LENGTH
        BY <2>2, <2>3, <3>3
      <4> HIDE DEF q
      <4>2. [pkt1 EXCEPT !.PAYLOAD = NULL, !.TIMESTAMP = 0]
              = [q EXCEPT !.PAYLOAD = NULL, !.TIMESTAMP = 0]
        BY <1>1, <4>1, SameFields
      <4> QED
        BY <4>2 DEF q
    <3>6. pkt1.TIMESTAMP = pkt2'.TIMESTAMP
      BY <2>2, <3>3
    <3>7. Same(pkt1, pkt2)'
      BY <1>1, <2>4, <3>4, <3>5, <3>6 DEF Same
    <3> QED
      BY <1>1, <2>1, <3>2, <3>7 DEF RoundTripSound, RoundTrip, Testing
  <2>5. CASE user = "first" /\ pkt1.TYPE = PTYPE_DATA /\ pkt1.TR = 0
    <3>1. /\ status' = FirstDecodeResult(buf, BUFFER_SIZE)
          /\ pkt2' = FirstDecoded(pkt2, buf, BUFFER_SIZE, c)
      BY <2>5 DEF TestDecode
    <3>2. status' = "PKT_OK"
      <4>1. buf.LENGTH \in Nat /\ ValidType(buf.TYPE) /\ buf.TYPE \notin {PTYPE_ACK, PTYPE_NACK}
        BY <1>1, <2>2, <2>5 DEF Frames, ValidType, PTYPE_DATA, PTYPE_ACK, PTYPE_NACK
      <4> QED
        BY <1>1, <2>2, <2>5, <3>1, <4>1 DEF FirstDecodeResult
    <3>3. /\ pkt2'.TYPE = buf.TYPE /\ pkt2'.SEQNUM = buf.SEQNUM /\ pkt2'.WINDOW = buf.WINDOW
          /\ pkt2'.TR = 0 /\ pkt2'.LENGTH = buf.LENGTH
          /\ pkt2'.TIMESTAMP = LowByte(buf.TIMESTAMP)
          /\ FirstStoresPayload(buf, BUFFER_SIZE) => pkt2'.PAYLOAD = c
      BY <1>1, <2>2, <2>5, <3>1, FirstDecodedFields
    <3>4. ASSUME GetLength(pkt1) > 0
          PROVE  mem'[pkt2'.PAYLOAD] = FirstBytes(mem'[pkt1.PAYLOAD], GetLength(pkt1))
      <4>1. FirstStoresPayload(buf, BUFFER_SIZE)
        BY <1>1, <2>2, <2>5, <3>4 DEF FirstStoresPayload, StoresPayload
      <4>2. pkt1.PAYLOAD \in live \cap Reachable /\ pkt1.PAYLOAD # pkt2.PAYLOAD
        BY <1>1, <1>2, <2>2, <3>4
      <4>3. buf.LENGTH \in Lengths
        BY <1>1, <2>2, Constants DEF Frames, ValidLength, Lengths
      <4> DEFINE freed == FirstFreedBy(pkt2, buf.LENGTH)
      <4>4. freed = {pkt2.PAYLOAD} \ {NULL}
        BY <1>1, <4>3, FirstSet
      <4>5. Reallocate(freed, c, {c}, BodyOf(buf))
        BY <2>5, <4>1 DEF TestDecode
      <4> HIDE DEF freed
      <4>6. {c} \in SUBSET {c} /\ {c} \subseteq Cells /\ c \in {c}
        OBVIOUS
      <4>7. mem'[c] = BodyOf(buf) /\ mem'[pkt1.PAYLOAD] = mem[pkt1.PAYLOAD]
        BY <1>1, <4>2, <4>4, <4>5, <4>6, Kept
      <4> QED
        BY <2>2, <3>3, <3>4, <4>1, <4>7
    <3>5. pkt1.TIMESTAMP < TIME_BYTE \div 2 => pkt1.TIMESTAMP = pkt2'.TIMESTAMP
      BY <1>1, <2>2, <3>3, TimeBytes DEF Packets
    <3>6. [pkt1 EXCEPT !.PAYLOAD = NULL, !.TIMESTAMP = 0]
            = [pkt2' EXCEPT !.PAYLOAD = NULL, !.TIMESTAMP = 0]
      <4> DEFINE q == pkt2'
      <4>1. /\ q \in Packets /\ pkt1.TYPE = q.TYPE /\ pkt1.TR = q.TR
            /\ pkt1.WINDOW = q.WINDOW /\ pkt1.SEQNUM = q.SEQNUM /\ pkt1.LENGTH = q.LENGTH
        BY <2>2, <2>3, <2>5, <3>3
      <4> HIDE DEF q
      <4>2. [pkt1 EXCEPT !.PAYLOAD = NULL, !.TIMESTAMP = 0]
              = [q EXCEPT !.PAYLOAD = NULL, !.TIMESTAMP = 0]
        BY <1>1, <4>1, SameFields
      <4> QED
        BY <4>2 DEF q
    <3>7. Same(pkt1, pkt2)'
      BY <1>1, <2>5, <3>4, <3>5, <3>6 DEF Same
    <3> QED
      BY <1>1, <2>1, <3>2, <3>7 DEF RoundTripSound, RoundTrip, Testing
  <2>6. CASE user = "first" /\ ~(pkt1.TYPE = PTYPE_DATA /\ pkt1.TR = 0)
    BY <1>1, <2>1, <2>6 DEF RoundTripSound, RoundTrip, Testing
  <2> QED
    BY <1>1, <2>4, <2>5, <2>6 DEF Testing
<1> QED
  BY <1>3, <1>4 DEF TestDecode

LEMMA TestSetSound ==
  ASSUME Memory, RoundTripSound, NEW p \in Set(pkt1), TestSet(p)
  PROVE  RoundTripSound'
<1>1. pkt1 \in Packets /\ UNCHANGED <<user, phase, mem>> /\ Testing /\ phase = "loop" /\ pkt1' = p
  BY DEF Memory, TypeOK, TestSet, UNCHANGEDmemory
<1>2. p.PAYLOAD = pkt1.PAYLOAD
  BY <1>1 DEF Set, SetType, SetTr, SetWindow, SetSeqnum, SetTimestamp, SetLength, Packets
<1> QED
  BY <1>1, <1>2 DEF RoundTripSound, RoundTrip, Testing

LEMMA TestSetPayloadSound ==
  ASSUME Memory, RoundTripSound, NEW n \in Lengths, NEW c \in Cells, TestSetPayload(n, c)
  PROVE  RoundTripSound'
<1> DEFINE freed == IF user = "first" THEN FirstFreedBy(pkt1, n) ELSE FreedBy(pkt1, n)
           new == {c} \cap {pkt1'.PAYLOAD}
<1>1. /\ TypeOK /\ pkt1 \in Packets /\ Testing /\ UNCHANGED <<user, phase>> /\ phase = "loop"
      /\ Reallocate(freed, c, new, Bytes(1, n)) /\ new \in SUBSET {c} /\ new \subseteq Cells
  BY DEF Memory, TypeOK, TestSetPayload
<1>2. pkt1'.PAYLOAD = IF user = "first" /\ n = 0 THEN NULL ELSE c
  BY <1>1, FirstSet, SetAllocates DEF TestSetPayload
<1> HIDE DEF freed
<1>3. pkt1'.PAYLOAD # NULL => pkt1'.PAYLOAD = c /\ c \in new
  BY <1>2
<1> HIDE DEF new
<1>4. pkt1'.PAYLOAD # NULL => mem'[pkt1'.PAYLOAD] = Bytes(1, n)
  BY <1>1, <1>3, Kept
<1>5. Bytes(1, n).data # Junk
  BY DEF Bytes, Junk
<1> QED
  BY <1>1, <1>4, <1>5 DEF RoundTripSound, RoundTrip, Testing

LEMMA RoundTripInductive ==
  /\ Init => RoundTripSound
  /\ Memory /\ RoundTripSound /\ [Next]_vars => RoundTripSound'
<1>1. ASSUME Init PROVE RoundTripSound
  <2>1. phase = "loop"
    BY <1>1 DEF Init
  <2>2. ASSUME pkt1.PAYLOAD # NULL PROVE mem[pkt1.PAYLOAD].data # Junk
    <3>1. \A x \in Cells \cup {NULL} : NewPacket(x).PAYLOAD = x
      BY DEF NewPacket
    <3>2. pkt1.PAYLOAD \in live /\ live \subseteq Cells
      BY <1>1, <2>2, <3>1 DEF Init, NewPacket
    <3>3. mem = [c \in Cells |-> IF c \in live THEN Bytes(0, MAX_PAYLOAD_SIZE) ELSE NoBytes]
      BY <1>1 DEF Init
    <3>4. mem[pkt1.PAYLOAD] = Bytes(0, MAX_PAYLOAD_SIZE)
      BY <3>2, <3>3
    <3> QED
      BY <3>4 DEF Bytes, Junk
  <2> QED
    BY <2>1, <2>2 DEF RoundTripSound, RoundTrip, TestPhases
<1>2. ASSUME Memory, RoundTripSound, [Next]_vars PROVE RoundTripSound'
  <2>1. CASE SenderNext
    <3>1. user' = "sender" /\ phase' \in {"loop", "end", "exit"}
      BY <2>1 DEF SenderNext, Retransmit, SendSegment, ReplyReadFails, Finish, ReceiveReply,
                  EndReply
    <3> QED
      BY <3>1 DEF RoundTripSound, RoundTrip, TestPhases, Testing
  <2>2. CASE ReceiverNext
    <3>1. user' = "receiver" /\ phase' \in {"loop", "nack", "write", "end"}
      <4>1. ASSUME NEW r \in Reads, NEW c, NEW slots, Receive(r[1], r[2], c, slots)
            PROVE  user' = "receiver" /\ phase' \in {"loop", "nack", "write", "end"}
        BY <4>1 DEF Receive
      <4> QED
        BY <2>2, <4>1 DEF ReceiverNext, SendAck, WriteSlot
    <3> QED
      BY <3>1 DEF RoundTripSound, RoundTrip, TestPhases, Testing
  <2>3. CASE TestNext
    BY <1>2, <2>3, TestSetSound, TestSetPayloadSound, TestEncodeSound, TestDamageSound,
       TestDecodeSound DEF TestNext
  <2>4. CASE Delete
    BY <2>4 DEF Delete, RoundTripSound, RoundTrip, TestPhases
  <2>5. CASE UNCHANGED vars
    <3>1. RoundTrip' = RoundTrip
      BY <2>5 DEF vars, RoundTrip, Same
    <3> QED
      BY <1>2, <2>5, <3>1 DEF vars, RoundTripSound, Testing, Intact, Refused
  <2> QED
    BY <1>2, <2>1, <2>2, <2>3, <2>4, <2>5 DEF Next
<1> QED
  BY <1>1, <1>2

\* What the tests of both versions say of every packet they could make: it is
\* decoded as it was encoded, and not at all once it was damaged (test.c:103-192
\* of src/Projet1, test.c:130-150 of the first version).
THEOREM RoundTripCorrect == Spec => []RoundTrip
<1>1. Init => RoundTripSound
  BY RoundTripInductive
<1>2. Memory /\ RoundTripSound /\ [Next]_vars => RoundTripSound'
  BY RoundTripInductive
<1>3. RoundTripSound => RoundTrip
  BY DEF RoundTripSound
<1> QED
  BY <1>1, <1>2, <1>3, MemorySound, PTL DEF Spec
=============================================================================
