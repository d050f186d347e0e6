--------------------------- MODULE TransferProofs ---------------------------
(***************************************************************************)
(* Proofs about Transfer, for every file, window, sequence number space,   *)
(* queue capacity and number of faults.                                    *)
(***************************************************************************)
EXTENDS Transfer, ModularArithmetic

USE SeqModAssumption, WindowAssumption, NetworkAssumption, SenderAssumption,
    ReceiverAssumption
DEF SeqModAssumption, WindowAssumption, NetworkAssumption, SenderAssumption,
    ReceiverAssumption

-----------------------------------------------------------------------------
(***************************************************************************)
(* Queues.  What a write leaves in a queue is what was there, the datagram *)
(* written and its alterations; sets of datagrams closed under alteration  *)
(* are therefore invariants of a queue.                                    *)
(***************************************************************************)

\* Appending unless full keeps the elements in a set.
LEMMA PushIn ==
  ASSUME NEW S, NEW ch \in Seq(S), NEW d \in S
  PROVE  Push(ch, d) \in Seq(S)
BY DEF Push

\* So does inserting at any place.
LEMMA InsertAtIn ==
  ASSUME NEW S, NEW ch \in Seq(S), NEW d \in S, NEW i \in 1 .. Len(ch)
  PROVE  InsertAt(ch, i, d) \in Seq(S)
<1>1. SubSeq(ch, 1, i - 1) \in Seq(S) /\ SubSeq(ch, i, Len(ch)) \in Seq(S)
  OBVIOUS
<1>2. <<d>> \in Seq(S)
  OBVIOUS
<1> QED
  BY <1>1, <1>2 DEF InsertAt

\* A write keeps the queue in every set that has the datagram and its
\* alterations, and counts its fault.
LEMMA TransmitIn ==
  ASSUME NEW S, NEW ch \in Seq(S), NEW d \in S, NEW ch1,
         Altered(d) \subseteq S, faults \in 0 .. MaxFaults,
         Transmit(ch, ch1, d)
  PROVE  ch1 \in Seq(S) /\ faults' \in 0 .. MaxFaults
<1>1. CASE ch1 = Push(ch, d) /\ UNCHANGED faults
  BY <1>1, PushIn
<1>2. CASE /\ faults < MaxFaults /\ ch1 \in Misdelivered(ch, d)
           /\ faults' = faults + 1
  <2>1. faults' \in 0 .. MaxFaults
    BY <1>2
  <2>2. Push(Push(ch, d), d) \in Seq(S)
    BY PushIn
  <2>3. \A a \in Altered(d) : Push(ch, a) \in Seq(S)
    BY PushIn
  <2>4. \A i \in 1 .. Len(ch) : InsertAt(ch, i, d) \in Seq(S)
    BY InsertAtIn
  <2> QED
    BY <1>2, <2>1, <2>2, <2>3, <2>4 DEF Misdelivered
<1> QED
  BY <1>1, <1>2 DEF Transmit

\* Reading takes the first element of a queue.
LEMMA HeadTailIn ==
  ASSUME NEW S, NEW ch \in Seq(S), ch # <<>>
  PROVE  Head(ch) \in S /\ Tail(ch) \in Seq(S)
OBVIOUS

\* A queue within a set is within every larger set.
LEMMA SeqMonotone ==
  ASSUME NEW S, NEW T, S \subseteq T, NEW ch \in Seq(S)
  PROVE  ch \in Seq(T)
OBVIOUS

-----------------------------------------------------------------------------
(***************************************************************************)
(* Types.                                                                  *)
(***************************************************************************)

\* The types and the windows the two programs use fit their fields.
LEMMA FieldTypes ==
  /\ {0, PTYPE_DATA, PTYPE_ACK, PTYPE_NACK} \subseteq Types
  /\ {0, 1, RCV_WINDOW} \subseteq WindowSizes
BY DEF Types, WindowSizes, PTYPE_DATA, PTYPE_ACK, PTYPE_NACK

\* Damage shows in a checksum; a data packet whose header is damaged is not seen
\* as anything else.
LEMMA DamagedCases ==
  ASSUME NEW d \in DatagramSet, NEW e \in Damaged(d)
  PROVE  /\ e \in DatagramSet
         /\ \/ /\ e.CRC = "hdr" /\ e.PAYLOAD = d.PAYLOAD
               /\ d.TYPE = PTYPE_DATA => e.TYPE = PTYPE_DATA
            \/ Length(d) > 0 /\ e = [d EXCEPT !.CRC = "payload"]
<1>1. CASE e \in DamagedHeader(d)
  <2>1. PICK h \in IF d.TYPE = PTYPE_DATA
                     THEN {[Header(d) EXCEPT !.SEQNUM = s] : s \in SeqNums} ELSE Headers :
          e = [d EXCEPT !.TYPE = h.TYPE, !.SEQNUM = h.SEQNUM, !.WINDOW = h.WINDOW,
                        !.CRC = "hdr"]
    BY <1>1 DEF DamagedHeader
  <2>2. h \in Headers /\ (d.TYPE = PTYPE_DATA => h.TYPE = PTYPE_DATA)
    BY DEF Header, Headers, DatagramSet
  <2>3. h.TYPE \in Types /\ h.SEQNUM \in SeqNums /\ h.WINDOW \in WindowSizes
    BY <2>2 DEF Headers
  <2> QED
    BY <2>1, <2>2, <2>3 DEF DatagramSet
<1>2. CASE e \notin DamagedHeader(d)
  <2>1. Length(d) > 0 /\ e = [d EXCEPT !.CRC = "payload"]
    BY <1>2 DEF Damaged
  <2> QED
    BY <2>1 DEF DatagramSet
<1> QED
  BY <1>1, <1>2

\* Any alteration of a datagram is a datagram.
LEMMA AlteredType ==
  ASSUME NEW d \in DatagramSet
  PROVE  Altered(d) \subseteq DatagramSet
<1>1. Damaged(d) \subseteq DatagramSet
  BY DamagedCases
<1>2. \A crc \in {"hdr", "ok"} : Truncated(d, crc) \subseteq DatagramSet
  <2>1. \A crc \in {"hdr", "ok"} : [d EXCEPT !.TR = 1, !.CRC = crc] \in DatagramSet
    BY DEF DatagramSet
  <2> QED
    BY <2>1 DEF Truncated
<1> QED
  BY <1>1, <1>2 DEF Altered

\* The datagrams the two programs make have the fields they should.
LEMMA DataDatagramType ==
  ASSUME NEW seq \in SeqNums, NEW p \in Payloads
  PROVE  DataDatagram(Segment(seq, p)) \in DatagramSet
BY FieldTypes DEF DataDatagram, Segment, DatagramSet

LEMMA AckDatagramType ==
  ASSUME NEW type \in {PTYPE_ACK, PTYPE_NACK}, NEW seq \in SeqNums
  PROVE  AckDatagram(type, seq) \in DatagramSet
BY FieldTypes DEF AckDatagram, DatagramSet, Payloads

\* A stored segment is sent as a datagram.
LEMMA SegmentType ==
  ASSUME NEW seg \in Segments
  PROVE  DataDatagram(seg) \in DatagramSet
BY FieldTypes DEF DataDatagram, Segments, DatagramSet, Payloads

LEMMA TypeInit == Init => TypeOK
<1> SUFFICES ASSUME Init PROVE TypeOK
  OBVIOUS
<1>1. NetworkTypeOK
  <2>1. <<>> \in Seq(DatagramSet)
    OBVIOUS
  <2>2. 0 \in 0 .. MaxFaults
    OBVIOUS
  <2>3. toRcv = <<>> /\ toSnd = <<>> /\ s_err = FALSE /\ r_err = FALSE
    BY DEF Init, NetworkInit
  <2>4. faults = 0
    BY DEF Init, NetworkInit
  <2> QED
    BY <2>1, <2>2, <2>3, <2>4 DEF NetworkTypeOK
<1>2. SenderTypeOK
  <2>1. Uninit = Segment(0, NoData) /\ 0 \in SeqNums /\ NoData \in Payloads
    BY DEF Uninit, SeqNums, Payloads
  <2>2. DataDatagram(Uninit) \in DatagramSet
    BY <2>1, DataDatagramType
  <2>3. 0 \in SndSlots
    BY DEF SndSlots
  <2>4. s_pkt_ack \in Headers
    BY <2>1, FieldTypes DEF Init, SenderInit, Headers
  <2>5. buffer \in [SndSlots -> Segments \cup {Uninit}]
    BY DEF Init, SenderInit
  <2>6. /\ s_pc = "select" /\ s_sfd = FALSE /\ sent = 0
        /\ endFile = 0 /\ buffer_empty = 0 /\ undef = FALSE
        /\ small_seq = 0 /\ small_ind = 0 /\ seq_ind = 0 /\ s_seq_exp = 0
        /\ s_window = 1 /\ packet_encoded = DataDatagram(Uninit)
    BY DEF Init, SenderInit
  <2>7. small_seq \in SeqNums /\ s_seq_exp \in SeqNums /\ small_ind \in SndSlots
    BY <2>1, <2>3, <2>6
  <2>8. packet_encoded \in DatagramSet
    BY <2>2, <2>6
  <2>9. seq_ind \in 0 .. NSegments /\ s_window \in WindowSizes \ {0}
    BY <2>6 DEF WindowSizes
  <2>10. /\ s_pc \in {"select", "file", "socket", "nack_raw", "timer", "end_encode",
               "end_select", "end_write", "end_read"} \cup Done
        /\ s_sfd \in BOOLEAN /\ sent \in {0, 1}
        /\ endFile \in {0, 1} /\ buffer_empty \in {0, 1} /\ undef \in BOOLEAN
    BY <2>6
  <2> QED
    BY <2>4, <2>5, <2>7, <2>8, <2>9, <2>10 DEF SenderTypeOK
<1>3. ReceiverTypeOK
  BY DEF Init, ReceiverInit, ReceiverTypeOK, Slots, SeqNums, Payloads, Ended
<1> QED
  BY <1>1, <1>2, <1>3 DEF TypeOK

\* What the sender's control operators return are places of its program.
LEMMA ControlType ==
  ASSUME NEW end, NEW new
  PROVE  /\ LoopHead(end) \in {"select", "end_encode"}
         /\ AfterSocket(end, new) \in {"select", "end_encode", "timer"}
         /\ AfterReply(end) \in {"select", "end_encode"}
         /\ AfterFile(end, new) \in {"select", "end_encode", "timer", "socket"}
BY DEF LoopHead, AfterSocket, AfterReply, AfterFile

\* Slots from any modulus the sender may use, and from the two it should.
LEMMA SenderSlot ==
  ASSUME NEW w \in WindowSizes \ {0}, NEW x \in Int
  PROVE  x % w \in SndSlots
<1>1. w \in Nat \ {0} /\ w <= MAX_WINDOW_SIZE
  BY DEF WindowSizes
<1>2. x % w \in 0 .. w - 1
  BY <1>1, ModRange
<1> QED
  BY <1>1, <1>2 DEF SndSlots

LEMMA WindowSlot ==
  ASSUME NEW w \in {1, RCV_WINDOW}, NEW x \in Int
  PROVE  x % w \in Slots /\ x % w \in 0 .. w - 1
<1>1. w \in Nat \ {0} /\ w <= RCV_WINDOW
  OBVIOUS
<1>2. x % w \in 0 .. w - 1
  BY <1>1, ModRange
<1> QED
  BY <1>1, <1>2 DEF Slots

\* What a datagram leaves in a packet, whether it decodes or not.
LEMMA HeaderType ==
  ASSUME NEW d \in DatagramSet
  PROVE  Header(d) \in Headers
BY DEF Header, DatagramSet, Headers

\* The reply a handler works on is a header, whether read or stale.
LEMMA ReplyType ==
  ASSUME TypeOK, NEW type, ReadReply(type)
  PROVE  /\ toSnd' \in Seq(DatagramSet)
         /\ s_err' \in BOOLEAN
         /\ Reply.SEQNUM \in SeqNums
         /\ s_pkt_ack' \in Headers
         /\ s_window' \in WindowSizes \ {0}
<1>1. Reply \in Headers /\ toSnd' \in Seq(DatagramSet)
  <2>1. CASE s_err
    BY <2>1 DEF TypeOK, NetworkTypeOK, SenderTypeOK, ReadReply, Reply
  <2>2. CASE ~s_err
    <3>1. toSnd # <<>> /\ toSnd' = Tail(toSnd)
      BY <2>2 DEF ReadReply
    <3>2. Head(toSnd) \in DatagramSet /\ Tail(toSnd) \in Seq(DatagramSet)
      BY <3>1, HeadTailIn DEF TypeOK, NetworkTypeOK
    <3> QED
      BY <2>2, <3>1, <3>2, HeaderType DEF Reply
  <2> QED
    BY <2>1, <2>2
<1>2. Reply.WINDOW \in WindowSizes /\ Reply.SEQNUM \in SeqNums
  BY <1>1 DEF Headers
<1>3. s_window' \in WindowSizes \ {0}
  BY <1>2 DEF ReadReply, TypeOK, SenderTypeOK, WindowSizes
<1> QED
  BY <1>1, <1>2, <1>3 DEF ReadReply

\* A write of the sender keeps the network's types.
LEMMA WriteType ==
  ASSUME NetworkTypeOK, NEW d \in DatagramSet, Write(d),
         toSnd' \in Seq(DatagramSet), s_err' \in BOOLEAN, r_err' = r_err
  PROVE  NetworkTypeOK'
<1>1. Altered(d) \subseteq DatagramSet
  BY AlteredType
<1>2. toRcv \in Seq(DatagramSet) /\ faults \in 0 .. MaxFaults
  BY DEF NetworkTypeOK
<1>3. Transmit(toRcv, toRcv', d)
  BY DEF Write
<1>4. toRcv' \in Seq(DatagramSet) /\ faults' \in 0 .. MaxFaults
  BY <1>1, <1>2, <1>3, TransmitIn
<1> QED
  BY <1>4 DEF NetworkTypeOK

LEMMA NetworkTypeUnchanged == NetworkTypeOK /\ UNCHANGED netVars => NetworkTypeOK'
BY DEF NetworkTypeOK, netVars

LEMMA SenderTypeUnchanged == SenderTypeOK /\ UNCHANGED sndVars => SenderTypeOK'
BY DEF SenderTypeOK, sndVars, protocolVars

LEMMA ReceiverTypeUnchanged == ReceiverTypeOK /\ UNCHANGED rcvVars => ReceiverTypeOK'
BY DEF ReceiverTypeOK, rcvVars

\* Steps of the sender that leave the network alone.
LEMMA SelectType ==
  ASSUME TypeOK,
         \/ \E sfd \in BOOLEAN : Select(sfd) \/ EndSelect(sfd)
         \/ SelectTimeout \/ ReadEndOfFile \/ EncodeEndOfFile
  PROVE  NetworkTypeOK' /\ SenderTypeOK'
<1>1. ASSUME NEW sfd \in BOOLEAN, Select(sfd) PROVE UNCHANGED netVars /\ SenderTypeOK'
  BY <1>1 DEF TypeOK, SenderTypeOK, Select, protocolVars
<1>2. ASSUME NEW sfd \in BOOLEAN, EndSelect(sfd) PROVE UNCHANGED netVars /\ SenderTypeOK'
  BY <1>2 DEF TypeOK, SenderTypeOK, EndSelect, protocolVars
<1>3. ASSUME SelectTimeout PROVE UNCHANGED netVars /\ SenderTypeOK'
  BY <1>3, ControlType DEF TypeOK, SenderTypeOK, SelectTimeout, protocolVars
<1>4. ASSUME ReadEndOfFile PROVE UNCHANGED netVars /\ SenderTypeOK'
  BY <1>4, ControlType DEF TypeOK, SenderTypeOK, ReadEndOfFile, Go
<1>5. ASSUME EncodeEndOfFile PROVE UNCHANGED netVars /\ SenderTypeOK'
  <2>1. packet_encoded' \in DatagramSet
    BY <1>5, DataDatagramType DEF EncodeEndOfFile, TypeOK, SenderTypeOK, Payloads
  <2> QED
    BY <1>5, <2>1 DEF TypeOK, SenderTypeOK, EncodeEndOfFile, protocolVars
<1> QED
  BY <1>1, <1>2, <1>3, <1>4, <1>5, NetworkTypeUnchanged DEF TypeOK

\* The file is read.
LEMMA ReadSegmentType ==
  ASSUME TypeOK, ReadSegment
  PROVE  NetworkTypeOK' /\ SenderTypeOK'
<1> DEFINE seg == Segment(s_seq_exp, seq_ind + 1)
<1>1. seg \in Segments
  BY DEF TypeOK, SenderTypeOK, ReadSegment, Segments, Segment
<1>2. buffer' = [buffer EXCEPT ![seq_ind % s_window] = seg] /\ Write(DataDatagram(seg))
  BY DEF ReadSegment
<1>3. NetworkTypeOK'
  BY <1>1, <1>2, SegmentType, WriteType DEF ReadSegment, TypeOK, NetworkTypeOK
<1>4. buffer' \in [SndSlots -> Segments \cup {Uninit}]
  BY <1>1, <1>2 DEF TypeOK, SenderTypeOK
<1>5. s_seq_exp' \in SeqNums /\ seq_ind' \in 0 .. NSegments
  <2>1. s_seq_exp + 1 \in Int
    BY DEF TypeOK, SenderTypeOK, SeqNums
  <2> QED
    BY <2>1, ModRange DEF ReadSegment, TypeOK, SenderTypeOK, SeqNums
<1>6. SenderTypeOK'
  BY <1>4, <1>5, ControlType DEF TypeOK, SenderTypeOK, ReadSegment, Go
<1> QED
  BY <1>3, <1>6

LEMMA AbortType ==
  ASSUME TypeOK, ReadFileError \/ WriteRefused
  PROVE  NetworkTypeOK' /\ SenderTypeOK'
<1>1. CASE ReadFileError
  <2>1. NetworkTypeOK'
    BY <1>1 DEF TypeOK, NetworkTypeOK, ReadFileError, MayFail
  <2>2. SenderTypeOK'
    BY <1>1 DEF TypeOK, SenderTypeOK, ReadFileError, protocolVars, Done
  <2> QED
    BY <2>1, <2>2
<1>2. CASE WriteRefused
  <2>1. NetworkTypeOK'
    BY <1>2 DEF TypeOK, NetworkTypeOK, WriteRefused
  <2>2. SenderTypeOK'
    BY <1>2 DEF TypeOK, SenderTypeOK, WriteRefused, protocolVars, Done
  <2> QED
    BY <2>1, <2>2
<1> QED
  BY <1>1, <1>2

\* The socket is read.
LEMMA ReadBadReplyType ==
  ASSUME TypeOK, ReadBadReply
  PROVE  NetworkTypeOK' /\ SenderTypeOK'
<1>1. Head(toSnd) \in DatagramSet /\ toSnd' \in Seq(DatagramSet)
  BY HeadTailIn DEF ReadBadReply, TypeOK, NetworkTypeOK
<1>2. NetworkTypeOK'
  BY <1>1 DEF ReadBadReply, TypeOK, NetworkTypeOK
<1>3. s_pkt_ack' \in Headers
  BY <1>1, HeaderType DEF ReadBadReply
<1>4. SenderTypeOK'
  BY <1>3, ControlType DEF ReadBadReply, TypeOK, SenderTypeOK, Go, protocolVars
<1> QED
  BY <1>2, <1>4

LEMMA HandleAckType ==
  ASSUME TypeOK, HandleAck
  PROVE  NetworkTypeOK' /\ SenderTypeOK'
<1>1. ReadReply(PTYPE_ACK)
  BY DEF HandleAck
<1>2. /\ toSnd' \in Seq(DatagramSet) /\ s_err' \in BOOLEAN
      /\ Reply.SEQNUM \in SeqNums
      /\ s_pkt_ack' \in Headers
      /\ s_window' \in WindowSizes \ {0}
  BY <1>1, ReplyType
<1>3. NetworkTypeOK'
  BY <1>2 DEF HandleAck, TypeOK, NetworkTypeOK
<1>4. small_ind' \in SndSlots
  <2> DEFINE d == (Reply.SEQNUM - small_seq) % SEQ_MOD
  <2>1. Reply.SEQNUM - small_seq \in Int /\ small_ind \in Int
    BY <1>2 DEF TypeOK, SenderTypeOK, SeqNums, SndSlots
  <2>2. d \in Int
    BY <2>1, ModRange
  <2>3. small_ind + d \in Int
    BY <2>1, <2>2
  <2>4. small_ind' = (small_ind + d) % s_window'
    BY DEF HandleAck, AckedInd
  <2> HIDE DEF d
  <2> QED
    BY <1>2, <2>3, <2>4, SenderSlot
<1>5. SenderTypeOK'
  BY <1>2, <1>4, ControlType DEF HandleAck, TypeOK, SenderTypeOK, Go
<1> QED
  BY <1>3, <1>5

LEMMA HandleOtherType ==
  ASSUME TypeOK, HandleOther
  PROVE  NetworkTypeOK' /\ SenderTypeOK'
<1>1. \E type \in Types : ReadReply(type)
  BY DEF HandleOther
<1>2. /\ toSnd' \in Seq(DatagramSet) /\ s_err' \in BOOLEAN
      /\ s_pkt_ack' \in Headers
      /\ s_window' \in WindowSizes \ {0}
  BY <1>1, ReplyType
<1>3. NetworkTypeOK'
  BY <1>2 DEF HandleOther, TypeOK, NetworkTypeOK
<1>4. SenderTypeOK'
  BY <1>2, ControlType DEF HandleOther, TypeOK, SenderTypeOK, Go
<1> QED
  BY <1>3, <1>4

LEMMA HandleNackType ==
  ASSUME TypeOK, HandleNack
  PROVE  NetworkTypeOK' /\ SenderTypeOK'
<1>1. ReadReply(PTYPE_NACK)
  BY DEF HandleNack
<1>2. /\ toSnd' \in Seq(DatagramSet) /\ s_err' \in BOOLEAN
      /\ s_pkt_ack' \in Headers
      /\ s_window' \in WindowSizes \ {0}
  BY <1>1, ReplyType
<1>3. packet_encoded' \in DatagramSet
  <2>1. buffer[NackIndex] \in Segments
    BY DEF HandleNack, TypeOK, SenderTypeOK
  <2> QED
    BY <2>1, SegmentType DEF HandleNack
<1>4. NetworkTypeOK'
  BY <1>2, <1>3, WriteType DEF HandleNack, TypeOK
<1>5. SenderTypeOK'
  BY <1>2, <1>3 DEF HandleNack, TypeOK, SenderTypeOK, Go
<1> QED
  BY <1>4, <1>5

LEMMA WriteRawStructType ==
  ASSUME TypeOK, WriteRawStruct
  PROVE  NetworkTypeOK' /\ SenderTypeOK'
<1>1. [packet_encoded EXCEPT !.CRC = "payload"] \in DatagramSet
  BY DEF TypeOK, SenderTypeOK, DatagramSet
<1>2. NetworkTypeOK'
  BY <1>1, WriteType DEF WriteRawStruct, TypeOK, NetworkTypeOK
<1>3. SenderTypeOK'
  BY ControlType DEF WriteRawStruct, TypeOK, SenderTypeOK, Go, protocolVars
<1> QED
  BY <1>2, <1>3

\* A segment is sent again, or memory that was never written is.
LEMMA RetransmissionType ==
  ASSUME TypeOK, RetransmissionTimer
  PROVE  NetworkTypeOK' /\ SenderTypeOK'
<1>1. buffer[small_ind % s_window] \in Segments
  <2>1. small_ind \in Int /\ s_window \in WindowSizes \ {0}
    BY DEF TypeOK, SenderTypeOK, SndSlots
  <2>2. small_ind % s_window \in SndSlots
    BY <2>1, SenderSlot
  <2> QED
    BY <2>2 DEF RetransmissionTimer, TypeOK, SenderTypeOK
<1>2. NetworkTypeOK'
  BY <1>1, SegmentType, WriteType DEF RetransmissionTimer, TypeOK, NetworkTypeOK
<1>3. SenderTypeOK'
  BY ControlType DEF RetransmissionTimer, TypeOK, SenderTypeOK, Go, protocolVars
<1> QED
  BY <1>2, <1>3

LEMMA UninitialisedType ==
  ASSUME NetworkTypeOK, UseOfUninitialised,
         toSnd' \in Seq(DatagramSet), s_err' \in BOOLEAN, r_err' = r_err
  PROVE  /\ NetworkTypeOK'
         /\ s_pc' \in {"select", "end_encode"} \cup Done
         /\ sent' \in {sent, 0}
<1>1. CASE s_pc' \in {"crashed", "aborted"} /\ UNCHANGED <<toRcv, faults, sent>>
  BY <1>1 DEF NetworkTypeOK, Done
<1>2. CASE (\E d \in JunkDatagrams : Write(d)) /\ Go(LoopHead(endFile), 0)
  <2>1. JunkDatagrams \subseteq DatagramSet
    BY FieldTypes DEF JunkDatagrams, DatagramSet, Payloads
  <2>2. NetworkTypeOK'
    BY <1>2, <2>1, WriteType
  <2> QED
    BY <1>2, <2>2, ControlType DEF Go
<1> QED
  BY <1>1, <1>2 DEF UseOfUninitialised

LEMMA UndefinedType ==
  ASSUME TypeOK, RetransmitUninitialised \/ NackUninitialised
  PROVE  NetworkTypeOK' /\ SenderTypeOK'
<1>1. CASE RetransmitUninitialised
  <2>1. /\ NetworkTypeOK'
        /\ s_pc' \in {"select", "end_encode"} \cup Done
        /\ sent' \in {sent, 0}
    BY <1>1, UninitialisedType DEF RetransmitUninitialised, TypeOK, NetworkTypeOK
  <2>2. SenderTypeOK'
    BY <1>1, <2>1 DEF RetransmitUninitialised, TypeOK, SenderTypeOK, protocolVars
  <2> QED
    BY <2>1, <2>2
<1>2. CASE NackUninitialised
  <2>1. /\ toSnd' \in Seq(DatagramSet) /\ s_err' \in BOOLEAN
        /\ s_pkt_ack' \in Headers
        /\ s_window' \in WindowSizes \ {0}
    BY <1>2, ReplyType DEF NackUninitialised
  <2>2. /\ NetworkTypeOK'
        /\ s_pc' \in {"select", "end_encode"} \cup Done
        /\ sent' \in {sent, 0}
    BY <1>2, <2>1, UninitialisedType DEF NackUninitialised, TypeOK
  <2>3. SenderTypeOK'
    BY <1>2, <2>1, <2>2 DEF NackUninitialised, TypeOK, SenderTypeOK
  <2> QED
    BY <2>2, <2>3
<1> QED
  BY <1>1, <1>2

\* The second loop.
LEMMA EndLoopType ==
  ASSUME TypeOK, EndWrite \/ EndRead
  PROVE  NetworkTypeOK' /\ SenderTypeOK'
<1>1. CASE EndWrite
  <2>1. NetworkTypeOK'
    BY <1>1, WriteType DEF EndWrite, TypeOK, NetworkTypeOK, SenderTypeOK
  <2>2. SenderTypeOK'
    BY <1>1 DEF EndWrite, TypeOK, SenderTypeOK, protocolVars
  <2> QED
    BY <2>1, <2>2
<1>2. CASE EndRead
  <2>1. packet_encoded' \in DatagramSet /\ toSnd' \in Seq(DatagramSet)
    <3>1. CASE UNCHANGED <<toSnd, packet_encoded>>
      BY <3>1 DEF TypeOK, NetworkTypeOK, SenderTypeOK
    <3>2. CASE /\ toSnd # <<>>
               /\ packet_encoded' = Head(toSnd) /\ toSnd' = Tail(toSnd)
      BY <3>2, HeadTailIn DEF TypeOK, NetworkTypeOK
    <3> QED
      BY <1>2, <3>1, <3>2 DEF EndRead
  <2>2. NetworkTypeOK'
    BY <1>2, <2>1 DEF EndRead, TypeOK, NetworkTypeOK
  <2>3. s_pkt_ack' \in Headers
    BY <1>2, <2>1, HeaderType DEF EndRead
  <2>4. SenderTypeOK'
    BY <1>2, <2>1, <2>3 DEF EndRead, TypeOK, SenderTypeOK, protocolVars, Done
  <2> QED
    BY <2>2, <2>4
<1> QED
  BY <1>1, <1>2

LEMMA SenderStepType ==
  ASSUME TypeOK, SenderStep
  PROVE  NetworkTypeOK' /\ SenderTypeOK'
BY SelectType, ReadSegmentType, AbortType, ReadBadReplyType, HandleAckType,
   HandleOtherType, HandleNackType, WriteRawStructType, RetransmissionType,
   UndefinedType, EndLoopType DEF SenderStep

\* The receiver's answers keep the network's types.
LEMMA SendAckType ==
  ASSUME NetworkTypeOK, NEW type \in {PTYPE_ACK, PTYPE_NACK}, NEW seq \in SeqNums,
         SendAck(type, seq), toRcv' \in Seq(DatagramSet), s_err' = s_err
  PROVE  NetworkTypeOK'
<1>1. CASE r_err' = FALSE /\ UNCHANGED <<toSnd, faults>>
  BY <1>1 DEF NetworkTypeOK
<1>2. CASE Transmit(toSnd, toSnd', AckDatagram(type, seq)) /\ UNCHANGED r_err
  <2>1. /\ AckDatagram(type, seq) \in DatagramSet
        /\ Altered(AckDatagram(type, seq)) \subseteq DatagramSet
    BY AckDatagramType, AlteredType
  <2>2. toSnd' \in Seq(DatagramSet) /\ faults' \in 0 .. MaxFaults
    BY <1>2, <2>1, TransmitIn DEF NetworkTypeOK
  <2> QED
    BY <1>2, <2>2 DEF NetworkTypeOK
<1> QED
  BY <1>1, <1>2 DEF SendAck

\* A datagram is taken from the receiver's queue.
LEMMA ReceiveType ==
  ASSUME TypeOK, Receive
  PROVE  Incoming \in DatagramSet /\ toRcv' \in Seq(DatagramSet)
BY HeadTailIn DEF Receive, Incoming, TypeOK, NetworkTypeOK

\* Slots of the receiver's table, and the numbers after one.
LEMMA SlotOfType ==
  ASSUME TypeOK, NEW seq \in SeqNums
  PROVE  SlotOf(seq) \in Slots
<1> DEFINE unwrapped == IF seq < r_seq_exp THEN seq + SEQ_MOD ELSE seq
<1>1. index + (unwrapped - r_seq_exp) \in Int
  BY DEF TypeOK, ReceiverTypeOK, SeqNums, Slots
<1>2. RCV_WINDOW \in Nat \ {0}
  OBVIOUS
<1>3. (index + (unwrapped - r_seq_exp)) % RCV_WINDOW \in 0 .. RCV_WINDOW - 1
  BY <1>1, <1>2, ModRange
<1> QED
  BY <1>3 DEF SlotOf, Slots

LEMMA NextSeqType ==
  ASSUME NEW seq \in SeqNums
  PROVE  (seq + 1) % SEQ_MOD \in SeqNums
<1>1. seq + 1 \in Int
  BY DEF SeqNums
<1> QED
  BY <1>1, ModRange DEF SeqNums

LEMMA ReceiverStepType ==
  ASSUME TypeOK, ReceiverStep
  PROVE  NetworkTypeOK' /\ ReceiverTypeOK'
<1>1. CASE Bind \/ WaitForClient \/ Close
  <2>1. UNCHANGED netVars
    BY <1>1 DEF Bind, WaitForClient, Close
  <2>2. ReceiverTypeOK'
    BY <1>1 DEF Bind, WaitForClient, Close, TypeOK, ReceiverTypeOK, Ended
  <2> QED
    BY <2>1, <2>2, NetworkTypeUnchanged DEF TypeOK
<1>2. CASE ReceiveError
  BY <1>2 DEF ReceiveError, TypeOK, NetworkTypeOK, ReceiverTypeOK, Ended
<1>3. CASE ReceiveInvalid
  BY <1>3, ReceiveType DEF ReceiveInvalid, TypeOK, NetworkTypeOK, ReceiverTypeOK
<1>4. CASE ReceiveTruncated
  <2>1. Incoming \in DatagramSet /\ toRcv' \in Seq(DatagramSet)
    BY <1>4, ReceiveType DEF ReceiveTruncated
  <2>2. (Incoming.SEQNUM + 1) % SEQ_MOD \in SeqNums
    BY <2>1, NextSeqType DEF DatagramSet
  <2>3. NetworkTypeOK'
    BY <1>4, <2>1, <2>2, SendAckType DEF ReceiveTruncated, TypeOK
  <2>4. buffer_payload' \in [Slots -> Payloads]
    BY <1>4 DEF ReceiveTruncated, TypeOK, ReceiverTypeOK, Payloads
  <2>5. ReceiverTypeOK'
    BY <1>4, <2>4 DEF ReceiveTruncated, TypeOK, ReceiverTypeOK
  <2> QED
    BY <2>3, <2>5
<1>5. CASE ReceiveEndOfFile
  BY <1>5, ReceiveType DEF ReceiveEndOfFile, TypeOK, NetworkTypeOK, ReceiverTypeOK
<1>6. CASE ReceiveSegment
  <2>1. Incoming \in DatagramSet /\ toRcv' \in Seq(DatagramSet)
    BY <1>6, ReceiveType DEF ReceiveSegment
  <2>2. Incoming.SEQNUM \in SeqNums /\ Incoming.PAYLOAD \in Payloads
    BY <2>1 DEF DatagramSet
  <2>3. SlotOf(Incoming.SEQNUM) \in Slots
    BY <2>2, SlotOfType
  <2>4. NetworkTypeOK'
    BY <1>6, <2>1 DEF ReceiveSegment, TypeOK, NetworkTypeOK
  <2>5. r_held' \in Slots \cup {NoSlot} /\ buffer_payload' \in [Slots -> Payloads]
    BY <1>6, <2>2, <2>3 DEF ReceiveSegment, TypeOK, ReceiverTypeOK
  <2>6. ReceiverTypeOK'
    BY <1>6, <2>5 DEF ReceiveSegment, TypeOK, ReceiverTypeOK
  <2> QED
    BY <2>4, <2>6
<1>7. CASE WriteSlot
  <2>1. index \in Slots /\ index + 1 \in Int /\ RCV_WINDOW \in Nat \ {0}
    BY DEF TypeOK, ReceiverTypeOK, Slots
  <2>2. index' \in Slots
    BY <1>7, <2>1, ModRange DEF WriteSlot, Slots
  <2>3. r_seq_exp' \in SeqNums
    BY <1>7, NextSeqType DEF WriteSlot, TypeOK, ReceiverTypeOK
  <2>4. buffer_payload[index] \in Payloads \ {NoData}
    BY <1>7 DEF WriteSlot, TypeOK, ReceiverTypeOK
  <2>5. written' \in Seq(Payloads \ {NoData})
    BY <1>7, <2>4 DEF WriteSlot, TypeOK, ReceiverTypeOK
  <2>6. buffer_payload' \in [Slots -> Payloads]
    BY <1>7 DEF WriteSlot, TypeOK, ReceiverTypeOK, Payloads
  <2>7. r_held' \in Slots \cup {NoSlot}
    BY <1>7 DEF WriteSlot, TypeOK, ReceiverTypeOK
  <2>8. ReceiverTypeOK'
    BY <1>7, <2>2, <2>3, <2>5, <2>6, <2>7 DEF WriteSlot, TypeOK, ReceiverTypeOK
  <2>9. NetworkTypeOK'
    BY <1>7 DEF WriteSlot, TypeOK, NetworkTypeOK, MayFail
  <2> QED
    BY <2>8, <2>9
<1>8. CASE AcknowledgeSegment
  <2>1. NetworkTypeOK'
    BY <1>8, SendAckType DEF AcknowledgeSegment, TypeOK, ReceiverTypeOK, NetworkTypeOK
  <2> QED
    BY <1>8, <2>1 DEF AcknowledgeSegment, TypeOK, ReceiverTypeOK
<1>9. CASE AcknowledgeEndOfFile
  <2>1. NetworkTypeOK'
    BY <1>9, SendAckType DEF AcknowledgeEndOfFile, TypeOK, ReceiverTypeOK, NetworkTypeOK
  <2> QED
    BY <1>9, <2>1 DEF AcknowledgeEndOfFile, TypeOK, ReceiverTypeOK
<1> QED
  BY <1>1, <1>2, <1>3, <1>4, <1>5, <1>6, <1>7, <1>8, <1>9 DEF ReceiverStep

\* A receiver that is killed keeps everything but its place.
LEMMA KilledType ==
  ASSUME TypeOK, ReceiverKilled
  PROVE  UNCHANGED netVars /\ ReceiverTypeOK'
BY DEF ReceiverKilled, TypeOK, ReceiverTypeOK, Ended

\* Every step keeps the types.
LEMMA TypeNext == TypeOK /\ [Next]_vars => TypeOK'
<1> SUFFICES ASSUME TypeOK, [Next]_vars PROVE TypeOK'
  OBVIOUS
<1>1. CASE SenderSelect \/ SenderTimeout \/ SenderEndSelect
  <2>1. UNCHANGED rcvVars
    BY <1>1 DEF SenderSelect, SenderTimeout, SenderEndSelect
  <2>2. NetworkTypeOK' /\ SenderTypeOK'
    BY <1>1, SelectType DEF SenderSelect, SenderTimeout, SenderEndSelect
  <2> QED
    BY <2>1, <2>2, ReceiverTypeUnchanged DEF TypeOK
<1>2. CASE SenderProceeds
  BY <1>2, SenderStepType, ReceiverTypeUnchanged DEF SenderProceeds, TypeOK
<1>3. CASE ReceiverProceeds
  BY <1>3, ReceiverStepType, SenderTypeUnchanged DEF ReceiverProceeds, TypeOK
<1>4. CASE Unreachable
  <2>1. CASE SenderUnreachable /\ UNCHANGED rcvVars
    <3>1. NetworkTypeOK' /\ UNCHANGED sndVars
      BY <2>1, HeadTailIn DEF SenderUnreachable, TypeOK, NetworkTypeOK
    <3> QED
      BY <2>1, <3>1, SenderTypeUnchanged, ReceiverTypeUnchanged DEF TypeOK
  <2>2. CASE ReceiverUnreachable /\ UNCHANGED sndVars
    <3>1. NetworkTypeOK' /\ UNCHANGED rcvVars
      BY <2>2, HeadTailIn DEF ReceiverUnreachable, TypeOK, NetworkTypeOK
    <3> QED
      BY <2>2, <3>1, SenderTypeUnchanged, ReceiverTypeUnchanged DEF TypeOK
  <2> QED
    BY <1>4, <2>1, <2>2 DEF Unreachable
<1>5. CASE ReceiverDies
  BY <1>5, KilledType, NetworkTypeUnchanged, SenderTypeUnchanged
  DEF ReceiverDies, TypeOK
<1>6. CASE UNCHANGED vars
  BY <1>6, NetworkTypeUnchanged, SenderTypeUnchanged, ReceiverTypeUnchanged
  DEF vars, TypeOK
<1> QED
  BY <1>1, <1>2, <1>3, <1>4, <1>5, <1>6 DEF Next, Terminated

\* Every variable keeps its type, and with it every index its array, in every
\* behaviour: whatever the window, the file and the faults (client.c:179, 345,
\* server.c:209).
THEOREM TypeCorrect == Spec => []TypeOK
BY TypeInit, TypeNext, PTL DEF Spec
=============================================================================
