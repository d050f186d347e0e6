--------------------------- MODULE DeliveryProofs ---------------------------
(***************************************************************************)
(* The file the receiver writes is a prefix of the file the sender reads,  *)
(* for every loss, duplication, reordering and damage the network is       *)
(* capable of, as long as sequence numbers do not wrap.                    *)
(***************************************************************************)
EXTENDS TransferInvariants, TransferProofs

-----------------------------------------------------------------------------
(***************************************************************************)
(* Datagrams stay sound on the network.                                    *)
(***************************************************************************)

\* Damage is always detected: by the header's checksum, or by the payload's.
LEMMA SoundDamaged ==
  ASSUME NEW d \in DatagramSet, NEW e \in Damaged(d)
  PROVE  e.CRC = "hdr" \/ (e.CRC = "payload" /\ e.TR = 0 /\ e.PAYLOAD # NoData)
<1>1. CASE Length(d) > 0 /\ e = [d EXCEPT !.CRC = "payload"]
  <2>1. d.TR = 0 /\ d.PAYLOAD # NoData
    BY <1>1 DEF Length
  <2>2. e.CRC = "payload" /\ e.TR = d.TR /\ e.PAYLOAD = d.PAYLOAD
    BY <1>1 DEF DatagramSet
  <2> QED
    BY <2>1, <2>2
<1> QED
  BY <1>1, DamagedCases

\* Truncation shows, unless the checksum is recomputed, in the TR bit alone.
LEMMA SoundTruncated ==
  ASSUME NEW d \in DatagramSet, NEW crc \in {"hdr", "ok"}, NEW e \in Truncated(d, crc)
  PROVE  e.CRC = crc /\ e.TR = 1
<1>1. e = [d EXCEPT !.TR = 1, !.CRC = crc]
  BY DEF Truncated
<1> QED
  BY <1>1 DEF DatagramSet

LEMMA SoundAltered ==
  ASSUME NEW d \in SoundData
  PROVE  Altered(d) \subseteq SoundData
<1>1. d \in DatagramSet /\ Altered(d) \subseteq DatagramSet
  BY AlteredType DEF SoundData
<1>2. SUFFICES ASSUME NEW e \in Altered(d)
               PROVE  e \in SoundData
  OBVIOUS
<1>3. \/ e \in Damaged(d)
      \/ e \in Truncated(d, "hdr")
      \/ "recrc" \in Faults /\ e \in Truncated(d, "ok")
  BY <1>2 DEF Altered
<1>4. \/ e.CRC = "hdr"
      \/ e.CRC = "payload" /\ e.TR = 0 /\ e.PAYLOAD # NoData
      \/ "recrc" \in Faults /\ e.CRC = "ok" /\ e.TR = 1
  <2>1. CASE e \in Damaged(d)
    BY <1>1, <2>1, SoundDamaged
  <2>2. CASE e \in Truncated(d, "hdr")
    BY <1>1, <2>2, SoundTruncated
  <2>3. CASE "recrc" \in Faults /\ e \in Truncated(d, "ok")
    BY <1>1, <2>3, SoundTruncated
  <2> QED
    BY <1>3, <2>1, <2>2, <2>3
<1>5. e \in DatagramSet
  BY <1>1, <1>2
<1> QED
  BY <1>4, <1>5 DEF SoundData

LEMMA RepliesAltered ==
  ASSUME NEW d \in Replies, d.CRC = "ok"
  PROVE  Altered(d) \subseteq Replies
<1>1. d \in DatagramSet /\ Altered(d) \subseteq DatagramSet
  BY AlteredType DEF Replies
<1>2. \A e \in Damaged(d) : e.CRC = "hdr" \/ e = [d EXCEPT !.CRC = "payload"]
  BY <1>1, DamagedCases
<1>3. [d EXCEPT !.CRC = "payload"].TYPE = d.TYPE
  BY <1>1 DEF DatagramSet
<1>4. \A crc \in {"hdr", "ok"} : [d EXCEPT !.TR = 1, !.CRC = crc].TYPE = d.TYPE
  BY <1>1 DEF DatagramSet
<1>5. \A e \in Altered(d) : e.CRC = "hdr" \/ e.TYPE = d.TYPE
  BY <1>2, <1>3, <1>4 DEF Altered, Truncated
<1> QED
  BY <1>1, <1>5 DEF Replies

LEMMA RepliesAreSound == Replies \subseteq SoundData
BY DEF Replies, SoundData, PTYPE_DATA, PTYPE_ACK, PTYPE_NACK

\* What the sender writes leaves the receiver's queue sound.
LEMMA WriteSound ==
  ASSUME TypeOK, toRcv \in Seq(SoundData),
         NEW d \in SoundData, Write(d)
  PROVE  toRcv' \in Seq(SoundData)
<1>1. Altered(d) \subseteq SoundData
  BY SoundAltered
<1>2. faults \in 0 .. MaxFaults /\ Transmit(toRcv, toRcv', d)
  BY DEF TypeOK, NetworkTypeOK, Write
<1> QED
  BY <1>1, <1>2, TransmitIn

LEMMA SendAckReplies ==
  ASSUME TypeOK, toSnd \in Seq(Replies), NEW type \in {PTYPE_ACK, PTYPE_NACK},
         NEW seq \in SeqNums, SendAck(type, seq)
  PROVE  toSnd' \in Seq(Replies)
<1>1. CASE UNCHANGED toSnd
  BY <1>1
<1>2. CASE Transmit(toSnd, toSnd', AckDatagram(type, seq))
  <2>1. AckDatagram(type, seq).TYPE = type /\ AckDatagram(type, seq).CRC = "ok"
    BY DEF AckDatagram
  <2>2. AckDatagram(type, seq) \in Replies
    BY <2>1, AckDatagramType DEF Replies, PTYPE_DATA, PTYPE_ACK, PTYPE_NACK
  <2>3. Altered(AckDatagram(type, seq)) \subseteq Replies
    BY <2>1, <2>2, RepliesAltered
  <2>4. faults \in 0 .. MaxFaults
    BY DEF TypeOK, NetworkTypeOK
  <2> QED
    BY <1>2, <2>2, <2>3, <2>4, TransmitIn
<1> QED
  BY <1>1, <1>2 DEF SendAck

\* A stored segment, sent, is sound.
LEMMA SegmentSound ==
  ASSUME NEW seg \in Segments, seg.PAYLOAD = seg.SEQNUM + 1
  PROVE  /\ DataDatagram(seg) \in SoundData
         /\ DataDatagram(seg).TR = 0 /\ DataDatagram(seg).PAYLOAD # NoData
<1>1. DataDatagram(seg) \in DatagramSet
  BY SegmentType
<1>2. /\ DataDatagram(seg).TR = 0 /\ DataDatagram(seg).CRC = "ok"
      /\ DataDatagram(seg).SEQNUM = seg.SEQNUM
      /\ DataDatagram(seg).PAYLOAD = seg.PAYLOAD
  BY DEF DataDatagram
<1>3. seg.PAYLOAD # NoData
  BY DEF Segments, NoData
<1> QED
  BY <1>1, <1>2, <1>3 DEF SoundData

\* The constants' assumptions are used from here on.
USE SeqModAssumption, WindowAssumption, NetworkAssumption, SenderAssumption,
    ReceiverAssumption
DEF SeqModAssumption, WindowAssumption, NetworkAssumption, SenderAssumption,
    ReceiverAssumption

-----------------------------------------------------------------------------
(***************************************************************************)
(* Steps of the sender.                                                    *)
(***************************************************************************)

\* Reading a reply only shortens the sender's queue.
LEMMA ReadReplyReplies ==
  ASSUME toSnd \in Seq(Replies), NEW type, ReadReply(type)
  PROVE  toSnd' \in Seq(Replies)
<1>1. CASE UNCHANGED toSnd
  BY <1>1
<1>2. CASE toSnd # <<>> /\ toSnd' = Tail(toSnd)
  BY <1>2, HeadTailIn
<1> QED
  BY <1>1, <1>2 DEF ReadReply

\* Steps that write nothing.
LEMMA QuietStepSound ==
  ASSUME TypeOK, SenderSound,
         \/ \E sfd \in BOOLEAN : Select(sfd) \/ EndSelect(sfd)
         \/ SelectTimeout \/ ReadEndOfFile \/ ReadFileError \/ WriteRefused
         \/ ReadBadReply \/ HandleAck \/ HandleOther \/ EncodeEndOfFile \/ EndRead
  PROVE  SenderSound'
<1>1. ASSUME UNCHANGED <<toRcv, toSnd, packet_encoded, buffer, s_seq_exp, seq_ind>>,
             s_pc' # "nack_raw"
      PROVE  SenderSound'
  BY <1>1 DEF SenderSound
<1>2. CASE \E sfd \in BOOLEAN : Select(sfd) \/ EndSelect(sfd)
  BY <1>1, <1>2 DEF Select, EndSelect, netVars, protocolVars
<1>3. CASE SelectTimeout \/ ReadEndOfFile \/ ReadFileError \/ WriteRefused
  <2>1. s_pc' # "nack_raw"
    BY <1>3, ControlType DEF SelectTimeout, ReadEndOfFile, ReadFileError, WriteRefused, Go
  <2> QED
    BY <1>1, <1>3, <2>1
    DEF SelectTimeout, ReadEndOfFile, ReadFileError, WriteRefused, netVars, protocolVars
<1>4. CASE ReadBadReply \/ HandleAck \/ HandleOther
  <2>1. s_pc' # "nack_raw"
    BY <1>4, ControlType DEF ReadBadReply, HandleAck, HandleOther, Go
  <2>2. toSnd' \in Seq(Replies)
    BY <1>4, ReadReplyReplies, HeadTailIn
    DEF ReadBadReply, HandleAck, HandleOther, SenderSound
  <2>3. UNCHANGED <<toRcv, packet_encoded, buffer, s_seq_exp, seq_ind>>
    BY <1>4 DEF ReadBadReply, HandleAck, HandleOther, protocolVars
  <2> QED
    BY <2>1, <2>2, <2>3 DEF SenderSound
<1>5. CASE EncodeEndOfFile
  <2> DEFINE d == DataDatagram(Segment(s_seq_exp, NoData))
  <2>1. d \in DatagramSet
    BY DataDatagramType DEF TypeOK, SenderTypeOK, Payloads
  <2>2. d.TR = 0 /\ d.CRC = "ok" /\ d.PAYLOAD = NoData
    BY DEF DataDatagram, Segment
  <2>3. packet_encoded' \in SoundData
    BY <1>5, <2>1, <2>2 DEF EncodeEndOfFile, SoundData
  <2> QED
    BY <1>5, <2>3 DEF EncodeEndOfFile, SenderSound, netVars, protocolVars
<1>6. CASE EndRead
  <2>1. s_pc' # "nack_raw" /\ UNCHANGED <<toRcv, buffer, s_seq_exp, seq_ind>>
    BY <1>6 DEF EndRead, protocolVars
  <2>2. CASE UNCHANGED <<toSnd, packet_encoded>>
    BY <2>1, <2>2 DEF SenderSound
  <2>3. CASE /\ toSnd # <<>>
             /\ packet_encoded' = Head(toSnd) /\ toSnd' = Tail(toSnd)
    <3>1. packet_encoded' \in SoundData /\ toSnd' \in Seq(Replies)
      BY <2>3, HeadTailIn, RepliesAreSound DEF SenderSound
    <3> QED
      BY <2>1, <3>1 DEF SenderSound
  <2> QED
    BY <1>6, <2>2, <2>3 DEF EndRead
<1> QED
  BY <1>2, <1>3, <1>4, <1>5, <1>6

\* A new segment: its number is its place in the file.
LEMMA ReadSegmentSound ==
  ASSUME NoWrap, TypeOK, SenderSound, ReadSegment
  PROVE  SenderSound'
<1> DEFINE seg == Segment(s_seq_exp, seq_ind + 1)
<1>0. /\ seq_ind \in 0 .. NSegments /\ seq_ind < NSegments /\ NSegments < SEQ_MOD
      /\ NSegments \in Nat /\ SEQ_MOD \in Nat \ {0}
      /\ s_seq_exp = seq_ind
      /\ s_seq_exp' = (s_seq_exp + 1) % SEQ_MOD /\ seq_ind' = seq_ind + 1
  <2>1. seq_ind \in 0 .. NSegments
    BY DEF TypeOK, SenderTypeOK
  <2>2. /\ seq_ind < NSegments
        /\ s_seq_exp' = (s_seq_exp + 1) % SEQ_MOD /\ seq_ind' = seq_ind + 1
    BY DEF ReadSegment
  <2>3. NSegments < SEQ_MOD
    BY DEF NoWrap
  <2>4. s_seq_exp = seq_ind
    BY DEF SenderSound
  <2> QED
    BY <2>1, <2>2, <2>3, <2>4
<1>1. seg \in Segments /\ seg.PAYLOAD = seg.SEQNUM + 1
  <2>1. s_seq_exp \in SeqNums /\ seq_ind + 1 \in 1 .. NSegments
    BY <1>0 DEF SeqNums
  <2> QED
    BY <1>0, <2>1 DEF Segments, Segment
<1>2. buffer' = [buffer EXCEPT ![seq_ind % s_window] = seg] /\ Write(DataDatagram(seg))
  BY DEF ReadSegment
<1>3. toRcv' \in Seq(SoundData)
  BY <1>1, <1>2, SegmentSound, WriteSound DEF SenderSound
<1>4. \A i \in SndSlots : buffer'[i] # Uninit => buffer'[i].PAYLOAD = buffer'[i].SEQNUM + 1
  BY <1>1, <1>2 DEF SenderSound, TypeOK, SenderTypeOK
<1>5. s_seq_exp' = seq_ind'
  <2>1. seq_ind + 1 \in 0 .. SEQ_MOD - 1
    BY <1>0
  <2>2. (seq_ind + 1) % SEQ_MOD = seq_ind + 1
    BY <1>0, <2>1, ModSmall
  <2> QED
    BY <1>0, <2>2
<1>6. s_pc' # "nack_raw" /\ UNCHANGED <<toSnd, packet_encoded>>
  BY ControlType DEF ReadSegment, Go
<1> QED
  BY <1>3, <1>4, <1>5, <1>6 DEF SenderSound

\* Segments sent again are those stored.
LEMMA ResendSound ==
  ASSUME TypeOK, SenderSound,
         RetransmissionTimer \/ HandleNack \/ WriteRawStruct \/ EndWrite
  PROVE  SenderSound'
<1>1. \A i \in SndSlots : buffer[i] # Uninit =>
        /\ DataDatagram(buffer[i]) \in SoundData
        /\ DataDatagram(buffer[i]).TR = 0 /\ DataDatagram(buffer[i]).PAYLOAD # NoData
  BY SegmentSound DEF SenderSound, TypeOK, SenderTypeOK
<1>2. CASE RetransmissionTimer
  <2>1. small_ind \in Int /\ s_window \in WindowSizes \ {0}
    BY DEF TypeOK, SenderTypeOK, SndSlots
  <2>2. small_ind % s_window \in SndSlots
    BY <2>1, SenderSlot
  <2>3. toRcv' \in Seq(SoundData)
    BY <1>1, <1>2, <2>2, WriteSound DEF RetransmissionTimer, SenderSound
  <2>4. s_pc' # "nack_raw" /\ UNCHANGED <<toSnd, packet_encoded, protocolVars>>
    BY <1>2, ControlType DEF RetransmissionTimer, Go
  <2> QED
    BY <2>3, <2>4 DEF SenderSound, protocolVars
<1>3. CASE HandleNack
  <2>1. /\ packet_encoded' \in SoundData
        /\ packet_encoded'.TR = 0 /\ packet_encoded'.PAYLOAD # NoData
    BY <1>1, <1>3 DEF HandleNack
  <2>2. toRcv' \in Seq(SoundData)
    BY <1>3, <2>1, WriteSound DEF HandleNack, SenderSound
  <2>3. toSnd' \in Seq(Replies)
    BY <1>3, ReadReplyReplies DEF HandleNack, SenderSound
  <2> QED
    BY <1>3, <2>1, <2>2, <2>3 DEF HandleNack, SenderSound
<1>4. CASE WriteRawStruct
  <2> DEFINE d == [packet_encoded EXCEPT !.CRC = "payload"]
  <2>1. packet_encoded \in DatagramSet
    BY DEF TypeOK, SenderTypeOK
  <2>2. d \in DatagramSet /\ d.CRC = "payload"
        /\ d.TR = packet_encoded.TR /\ d.PAYLOAD = packet_encoded.PAYLOAD
    BY <2>1 DEF DatagramSet
  <2>3. packet_encoded.TR = 0 /\ packet_encoded.PAYLOAD # NoData
    BY <1>4 DEF WriteRawStruct, SenderSound
  <2>4. d \in SoundData
    BY <2>2, <2>3 DEF SoundData
  <2>5. toRcv' \in Seq(SoundData)
    BY <1>4, <2>4, WriteSound DEF WriteRawStruct, SenderSound
  <2>6. s_pc' # "nack_raw" /\ UNCHANGED <<toSnd, packet_encoded, protocolVars>>
    BY <1>4, ControlType DEF WriteRawStruct, Go
  <2> QED
    BY <2>5, <2>6 DEF SenderSound, protocolVars
<1>5. CASE EndWrite
  <2>1. toRcv' \in Seq(SoundData)
    BY <1>5, WriteSound DEF EndWrite, SenderSound
  <2>2. s_pc' # "nack_raw" /\ UNCHANGED <<toSnd, packet_encoded, protocolVars>>
    BY <1>5 DEF EndWrite
  <2> QED
    BY <2>1, <2>2 DEF SenderSound, protocolVars
<1> QED
  BY <1>2, <1>3, <1>4, <1>5

\* All the steps of the sender, but those that use memory never written.
LEMMA SenderStepSound ==
  ASSUME NoWrap, TypeOK, SenderSound, SenderStep, ~undef'
  PROVE  SenderSound'
<1>1. ~(RetransmitUninitialised \/ NackUninitialised)
  BY DEF RetransmitUninitialised, NackUninitialised
<1> QED
  BY <1>1, QuietStepSound, ReadSegmentSound, ResendSound DEF SenderStep

-----------------------------------------------------------------------------
(***************************************************************************)
(* Steps of the receiver.                                                  *)
(***************************************************************************)

\* What the receiver takes for data is the segment its number says, or empty,
\* or truncated.
LEMMA IncomingSound ==
  ASSUME toRcv \in Seq(SoundData), toRcv # <<>>, IsData(Incoming)
  PROVE  /\ "recrc" \notin Faults => Incoming.TR = 0
         /\ Incoming.SEQNUM \in SeqNums
         /\ Length(Incoming) > 0 =>
              /\ Incoming.PAYLOAD = Incoming.SEQNUM + 1
              /\ Incoming.PAYLOAD \in 1 .. NSegments
<1>1. Incoming \in SoundData
  BY HeadTailIn DEF Incoming
<1>2. Incoming \in DatagramSet
  BY <1>1 DEF SoundData
<1>3. Incoming.TYPE = PTYPE_DATA /\ Incoming.CRC # "hdr"
  BY DEF IsData, DecodesOK, DecodeStatus
<1>4. "recrc" \notin Faults => Incoming.TR = 0
  BY <1>1, <1>3 DEF SoundData
<1>5. Incoming.SEQNUM \in SeqNums /\ Incoming.PAYLOAD \in Payloads
      /\ Incoming.CRC \in {"ok", "hdr", "payload"}
  BY <1>2 DEF DatagramSet
<1>6. ASSUME Length(Incoming) > 0
      PROVE  Incoming.TR = 0 /\ Incoming.PAYLOAD # NoData /\ Incoming.CRC = "ok"
  BY <1>3, <1>5, <1>6 DEF Length, IsData, DecodesOK, DecodeStatus
<1>7. ASSUME Length(Incoming) > 0
      PROVE  Incoming.PAYLOAD = Incoming.SEQNUM + 1
  BY <1>1, <1>3, <1>6, <1>7 DEF SoundData
<1>8. ASSUME Length(Incoming) > 0
      PROVE  Incoming.PAYLOAD \in 1 .. NSegments
  BY <1>5, <1>7, <1>8 DEF Payloads, Junk, NoData, SeqNums
<1> QED
  BY <1>4, <1>5, <1>7, <1>8

\* A prefix of the file is no longer than the file.
LEMMA WrittenBound ==
  ASSUME TypeOK, ReceiverSound
  PROVE  Len(written) \in 0 .. NSegments
<1>1. written \in Seq(Payloads \ {NoData})
  BY DEF TypeOK, ReceiverTypeOK
<1>2. \A i \in 1 .. Len(written) : written[i] = i
  BY DEF ReceiverSound
<1>3. CASE Len(written) = 0
  BY <1>3
<1>4. CASE Len(written) > 0
  <2>1. Len(written) \in 1 .. Len(written)
    BY <1>1, <1>4
  <2>2. written[Len(written)] \in Payloads /\ written[Len(written)] = Len(written)
    BY <1>1, <1>2, <2>1
  <2> QED
    BY <1>4, <2>2 DEF Payloads, Junk, NoData
<1> QED
  BY <1>1, <1>3, <1>4

\* Where the numbers wrap, the comparisons of add_buffer count modulo SEQ_MOD.
LEMMA InWindowAhead ==
  ASSUME TypeOK, NEW seq \in SeqNums, NEW ahead, ahead = (seq - r_seq_exp) % SEQ_MOD
  PROVE  /\ InWindow(seq) <=>
              ahead < RCV_WINDOW /\ ~(seq = 0 /\ ahead # 0 /\ ahead = RCV_WINDOW - 1)
         /\ SlotOf(seq) = (index + ahead) % RCV_WINDOW
<1>1. /\ SEQ_MOD \in Nat \ {0} /\ RCV_WINDOW \in 1 .. 7 /\ RCV_WINDOW <= SEQ_MOD
      /\ r_seq_exp \in 0 .. SEQ_MOD - 1 /\ seq \in 0 .. SEQ_MOD - 1
  BY SeqModAssumption, WindowAssumption
  DEF SeqModAssumption, WindowAssumption, TypeOK, ReceiverTypeOK, SeqNums
<1>2. PICK unwrapped \in Int :
        unwrapped = IF seq < r_seq_exp THEN seq + SEQ_MOD ELSE seq
  BY <1>1
<1>3. ahead = unwrapped - r_seq_exp
  <2>1. PICK gap \in Int : gap = seq - r_seq_exp
    BY <1>1
  <2>2. /\ unwrapped - r_seq_exp \in 0 .. SEQ_MOD - 1
        /\ gap = unwrapped - r_seq_exp \/ gap + SEQ_MOD = unwrapped - r_seq_exp
    BY <1>1, <1>2, <2>1
  <2>3. gap % SEQ_MOD = unwrapped - r_seq_exp
    BY <1>1, <2>2, ModAcross
  <2> QED
    BY <2>1, <2>3
<1>4. SlotOf(seq) = (index + ahead) % RCV_WINDOW
  <2>1. SlotOf(seq) = (index + (unwrapped - r_seq_exp)) % RCV_WINDOW
    BY <1>2, Zenon DEF SlotOf
  <2> QED
    BY <1>3, <2>1
<1>5. PICK last \in Int : last = r_seq_exp + RCV_WINDOW - 1
  BY <1>1
<1>6. last > SEQ_MOD => last % SEQ_MOD = last - SEQ_MOD
  <2> SUFFICES ASSUME last > SEQ_MOD PROVE last % SEQ_MOD = last - SEQ_MOD
    OBVIOUS
  <2>1. last - SEQ_MOD \in 0 .. SEQ_MOD - 1
    BY <1>1, <1>5
  <2> QED
    BY <1>1, <2>1, ModAcross
<1>7. InWindow(seq) <=> \/ r_seq_exp <= seq /\ seq <= last
                        \/ last > SEQ_MOD /\ seq <= last % SEQ_MOD
  BY <1>5, Zenon DEF InWindow
<1>8. InWindow(seq) <=> \/ r_seq_exp <= seq /\ seq <= last
                        \/ last > SEQ_MOD /\ seq <= last - SEQ_MOD
  BY <1>6, <1>7
<1>9. CASE r_seq_exp <= seq
  <2>1. ahead = seq - r_seq_exp
    BY <1>1, <1>2, <1>3, <1>9
  <2> QED
    BY <1>1, <1>4, <1>5, <1>8, <1>9, <2>1
<1>10. CASE seq < r_seq_exp
  <2>1. ahead = seq + SEQ_MOD - r_seq_exp
    BY <1>1, <1>2, <1>3, <1>10
  <2> QED
    BY <1>1, <1>4, <1>5, <1>8, <1>10, <2>1
<1> QED
  BY <1>1, <1>9, <1>10

\* No number outside the window is taken, and the only one inside it that is not
\* is 0, when it is the last (server.c:195-213).
THEOREM WindowExact == Spec => []WindowExtent
<1>1. TypeOK => WindowExtent
  BY InWindowAhead DEF WindowExtent
<1> QED
  BY <1>1, TypeCorrect, PTL

\* Without wrapping, the window and the slot of a number are what they should.
LEMMA WindowNumbers ==
  ASSUME NoWrap, r_seq_exp \in 0 .. NSegments, index = r_seq_exp % RCV_WINDOW,
         NEW seq \in SeqNums, InWindow(seq)
  PROVE  /\ r_seq_exp <= seq /\ seq <= r_seq_exp + RCV_WINDOW - 1
         /\ SlotOf(seq) = seq % RCV_WINDOW
<1>1. NSegments + RCV_WINDOW - 1 <= SEQ_MOD
  BY DEF NoWrap
<1>2. ~(r_seq_exp + RCV_WINDOW - 1 > SEQ_MOD)
  BY <1>1
<1>3. r_seq_exp <= seq /\ seq <= r_seq_exp + RCV_WINDOW - 1
  BY <1>2 DEF InWindow
<1>4. SlotOf(seq) = ((r_seq_exp % RCV_WINDOW) + (seq - r_seq_exp)) % RCV_WINDOW
  <2>1. ~(seq < r_seq_exp)
    BY <1>3 DEF SeqNums
  <2>2. SlotOf(seq) = (index + (seq - r_seq_exp)) % RCV_WINDOW
    BY <2>1, Zenon DEF SlotOf
  <2> QED
    BY <2>2, Zenon
<1>5. /\ RCV_WINDOW \in Nat \ {0} /\ r_seq_exp \in Int /\ seq \in Int
      /\ seq - r_seq_exp \in Int
  BY DEF SeqNums
<1>6. ((r_seq_exp % RCV_WINDOW) + (seq - r_seq_exp)) % RCV_WINDOW
        = (r_seq_exp + (seq - r_seq_exp)) % RCV_WINDOW
  BY <1>5, ModAdd
<1>7. r_seq_exp + (seq - r_seq_exp) = seq
  BY <1>5
<1> QED
  BY <1>3, <1>4, <1>6, <1>7

LEMMA WindowNoWrap ==
  ASSUME NoWrap, TypeOK, ReceiverSound, NEW seq \in SeqNums, InWindow(seq)
  PROVE  /\ Len(written) <= seq /\ seq <= Len(written) + RCV_WINDOW - 1
         /\ SlotOf(seq) = seq % RCV_WINDOW
<1>1. r_seq_exp = Len(written) /\ index = r_seq_exp % RCV_WINDOW
  BY DEF ReceiverSound
<1>2. r_seq_exp \in 0 .. NSegments
  BY <1>1, WrittenBound
<1> QED
  BY <1>1, <1>2, WindowNumbers

\* The receiver's writes leave what concerns the sender sound.
LEMMA ReceiverKeepsSenderSound ==
  ASSUME TypeOK, SenderSound, ReceiverStep, UNCHANGED sndVars
  PROVE  SenderSound'
<1>1. toRcv' \in Seq(SoundData)
  <2>1. CASE Receive
    BY <2>1, HeadTailIn DEF Receive, SenderSound
  <2>2. CASE UNCHANGED toRcv
    BY <2>2 DEF SenderSound
  <2> QED
    BY <2>1, <2>2
    DEF ReceiverStep, Bind, WaitForClient, ReceiveError, ReceiveInvalid,
        ReceiveTruncated, ReceiveEndOfFile, ReceiveSegment, WriteSlot,
        AcknowledgeSegment, AcknowledgeEndOfFile, Close, netVars
<1>2. toSnd' \in Seq(Replies)
  <2>1. CASE UNCHANGED toSnd
    BY <2>1 DEF SenderSound
  <2>2. CASE ReceiveTruncated
    <3>1. Head(toRcv) \in DatagramSet
      BY <2>2, HeadTailIn DEF ReceiveTruncated, Receive, TypeOK, NetworkTypeOK
    <3>2. Incoming.SEQNUM \in SeqNums
      BY <3>1 DEF Incoming, DatagramSet
    <3>3. (Incoming.SEQNUM + 1) % SEQ_MOD \in SeqNums
      <4>1. Incoming.SEQNUM + 1 \in Int
        BY <3>2 DEF SeqNums
      <4> QED
        BY <4>1, ModRange DEF SeqNums
    <3> QED
      BY <2>2, <3>3, SendAckReplies DEF ReceiveTruncated, SenderSound
  <2>3. CASE AcknowledgeSegment \/ AcknowledgeEndOfFile
    BY <2>3, SendAckReplies
    DEF AcknowledgeSegment, AcknowledgeEndOfFile, SenderSound, TypeOK, ReceiverTypeOK
  <2> QED
    BY <2>1, <2>2, <2>3
    DEF ReceiverStep, Bind, WaitForClient, ReceiveError, ReceiveInvalid,
        ReceiveEndOfFile, ReceiveSegment, WriteSlot, Close, netVars
<1> QED
  BY <1>1, <1>2 DEF SenderSound, sndVars, protocolVars

\* A segment goes to its own slot, or nowhere.
LEMMA ReceiveSegmentSound ==
  ASSUME NoWrap, TypeOK, toRcv \in Seq(SoundData), ReceiverSound, ReceiveSegment
  PROVE  ReceiverSound'
<1> DEFINE seq == Incoming.SEQNUM
           L == Len(written)
<1>1. L \in 0 .. NSegments
  BY WrittenBound
<1>2. UNCHANGED <<r_seq_exp, index, written>>
  BY DEF ReceiveSegment
<1>3. CASE ~InWindow(seq) /\ UNCHANGED buffer_payload
  BY <1>2, <1>3 DEF ReceiverSound
<1>4. CASE /\ InWindow(seq)
           /\ buffer_payload' = [buffer_payload EXCEPT ![SlotOf(seq)] = Incoming.PAYLOAD]
  <2>1. seq \in SeqNums /\ Incoming.PAYLOAD = seq + 1
    BY IncomingSound DEF ReceiveSegment, Receive
  <2>2. L <= seq /\ seq <= L + RCV_WINDOW - 1 /\ SlotOf(seq) = seq % RCV_WINDOW
    BY <1>4, <2>1, WindowNoWrap
  <2>3. ASSUME NEW i \in Slots, buffer_payload'[i] # NoData
        PROVE  /\ (buffer_payload'[i] - 1) % RCV_WINDOW = i
               /\ L < buffer_payload'[i] /\ buffer_payload'[i] <= L + RCV_WINDOW
    <3>1. CASE i = SlotOf(seq)
      <4>1. buffer_payload'[i] = seq + 1
        BY <1>4, <2>1, <3>1 DEF TypeOK, ReceiverTypeOK
      <4>2. (seq + 1) - 1 = seq /\ L < seq + 1 /\ seq + 1 <= L + RCV_WINDOW
        BY <1>1, <2>1, <2>2 DEF SeqNums
      <4>3. buffer_payload'[i] - 1 = seq
        BY <4>1, <4>2
      <4>4. (buffer_payload'[i] - 1) % RCV_WINDOW = i
        BY <2>2, <3>1, <4>3
      <4> QED
        BY <4>1, <4>2, <4>4
    <3>2. CASE i # SlotOf(seq)
      <4>1. buffer_payload'[i] = buffer_payload[i]
        BY <1>4, <3>2 DEF TypeOK, ReceiverTypeOK
      <4> QED
        BY <2>3, <4>1 DEF ReceiverSound
    <3> QED
      BY <3>1, <3>2
  <2> QED
    BY <1>2, <2>3 DEF ReceiverSound
<1> QED
  BY <1>3, <1>4 DEF ReceiveSegment

\* The slot the receiver writes holds the segment that comes next.
LEMMA NextSlot ==
  ASSUME TypeOK, ReceiverSound, buffer_payload[index] # NoData
  PROVE  /\ buffer_payload[index] = Len(written) + 1
         /\ Len(written) + 1 \in 1 .. NSegments
<1> DEFINE p == buffer_payload[index]
           L == Len(written)
<1>1. L \in 0 .. NSegments
  BY WrittenBound
<1>2. index \in Slots /\ p \in Payloads
  BY DEF TypeOK, ReceiverTypeOK
<1>3. index = L % RCV_WINDOW
  BY DEF ReceiverSound
<1>4. (p - 1) % RCV_WINDOW = index /\ L < p /\ p <= L + RCV_WINDOW
  BY <1>2 DEF ReceiverSound
<1>5. p \in 1 .. NSegments
  BY <1>1, <1>2, <1>4 DEF Payloads, Junk, NoData
<1>6. L <= p - 1 /\ p - 1 < L + RCV_WINDOW /\ p - 1 \in Int /\ L \in Int
  BY <1>1, <1>4, <1>5
<1>7. (p - 1) % RCV_WINDOW = L % RCV_WINDOW
  BY <1>3, <1>4
<1>8. p - 1 = L
  <2>1. RCV_WINDOW \in Nat \ {0}
    OBVIOUS
  <2> HIDE DEF p, L
  <2> QED
    BY <1>6, <1>7, <2>1, ModClose
<1> QED
  BY <1>5, <1>6, <1>8

\* A write appends the next segment and moves the table along.
LEMMA WriteSlotSound ==
  ASSUME NoWrap, SafeReceiver, TypeOK, ReceiverSound, WriteSlot
  PROVE  ReceiverSound'
<1> DEFINE L == Len(written)
<1>1. buffer_payload[index] = L + 1 /\ L + 1 \in 1 .. NSegments
  BY NextSlot DEF WriteSlot
<1>2. L \in 0 .. NSegments
  BY WrittenBound
<1>3. /\ written' = Append(written, L + 1)
      /\ buffer_payload' = [buffer_payload EXCEPT ![index] = NoData]
      /\ index' = (index + 1) % RCV_WINDOW
      /\ r_seq_exp' = (r_seq_exp + 1) % SEQ_MOD
  <2>1. ~MayFail("io")
    BY DEF SafeReceiver, MayFail
  <2> QED
    BY <1>1, <2>1 DEF WriteSlot
<1>4. written \in Seq(Payloads \ {NoData})
  BY DEF TypeOK, ReceiverTypeOK
<1>5. Len(written') = L + 1
  BY <1>3, <1>4
<1>6. \A i \in 1 .. Len(written') : written'[i] = i
  <2>1. \A i \in 1 .. L : written[i] = i
    BY DEF ReceiverSound
  <2> QED
    BY <1>2, <1>3, <1>4, <1>5, <2>1
<1>7. r_seq_exp' = L + 1
  <2>1. L + 1 \in 0 .. SEQ_MOD - 1
    BY <1>1 DEF NoWrap
  <2>2. (L + 1) % SEQ_MOD = L + 1
    BY <2>1, ModSmall
  <2> QED
    BY <1>3, <2>2 DEF ReceiverSound
<1>8. index' = (L + 1) % RCV_WINDOW
  <2>1. L \in Int /\ 1 \in Int /\ RCV_WINDOW \in Nat \ {0}
    BY <1>2
  <2>2. ((L % RCV_WINDOW) + 1) % RCV_WINDOW = (L + 1) % RCV_WINDOW
    BY <2>1, ModAdd
  <2> QED
    BY <1>3, <2>2 DEF ReceiverSound
<1>9. ASSUME NEW i \in Slots, buffer_payload'[i] # NoData
      PROVE  /\ (buffer_payload'[i] - 1) % RCV_WINDOW = i
             /\ L + 1 < buffer_payload'[i] /\ buffer_payload'[i] <= L + 1 + RCV_WINDOW
  <2> DEFINE p == buffer_payload[i]
  <2>1. i # index /\ buffer_payload'[i] = p
    BY <1>3, <1>9 DEF TypeOK, ReceiverTypeOK
  <2>2. (p - 1) % RCV_WINDOW = i /\ L < p /\ p <= L + RCV_WINDOW
    BY <1>9, <2>1 DEF ReceiverSound
  <2>3. p \in Int
    <3>1. p \in Payloads
      BY DEF TypeOK, ReceiverTypeOK
    <3> QED
      BY <3>1 DEF Payloads, Junk, NoData
  <2>4. p # L + 1
    <3>1. SUFFICES ASSUME p = L + 1 PROVE FALSE
      OBVIOUS
    <3>2. p - 1 = L
      BY <1>2, <3>1
    <3>3. i = L % RCV_WINDOW
      BY <2>2, <3>2
    <3> QED
      BY <2>1, <3>3 DEF ReceiverSound
  <2> QED
    BY <1>2, <2>1, <2>2, <2>3, <2>4
<1> QED
  BY <1>5, <1>6, <1>7, <1>8, <1>9 DEF ReceiverSound

\* All the steps of the receiver; a truncated packet is never taken.
LEMMA ReceiverStepSound ==
  ASSUME NoWrap, SafeReceiver, TypeOK, SenderSound, ReceiverSound, ReceiverStep
  PROVE  ReceiverSound'
<1>1. CASE UNCHANGED <<r_seq_exp, index, buffer_payload, written>>
  BY <1>1 DEF ReceiverSound
<1>2. CASE ReceiveSegment
  BY <1>2, ReceiveSegmentSound DEF SenderSound
<1>3. CASE WriteSlot
  BY <1>3, WriteSlotSound
<1>4. CASE ReceiveTruncated
  BY <1>4, IncomingSound DEF ReceiveTruncated, Receive, SenderSound, SafeReceiver
<1> QED
  BY <1>1, <1>2, <1>3, <1>4
  DEF ReceiverStep, Bind, WaitForClient, ReceiveError, ReceiveInvalid,
      ReceiveEndOfFile, AcknowledgeSegment, AcknowledgeEndOfFile, Close

-----------------------------------------------------------------------------
(***************************************************************************)
(* The receiver when writes fail and payloads are freed too early: what a  *)
(* slot stands for, its witness, takes the place of what it holds.         *)
(***************************************************************************)

\* A segment goes to the slot of its number, or nowhere.
LEMMA ReceiveSegmentOrder ==
  ASSUME NoWrap, TypeOK, toRcv \in Seq(SoundData), OrderSound, ReceiveSegment
  PROVE  OrderSound'
<1> DEFINE seq == Incoming.SEQNUM
<1>1. r_seq_exp \in 0 .. NSegments /\ index = r_seq_exp % RCV_WINDOW
  BY DEF OrderSound, TypeOK, ReceiverTypeOK, SeqNums
<1>2. UNCHANGED <<r_seq_exp, index, written>>
  BY DEF ReceiveSegment
<1>3. CASE ~InWindow(seq) /\ UNCHANGED buffer_payload /\ r_held' = NoSlot
  BY <1>2, <1>3 DEF OrderSound
<1>4. CASE /\ InWindow(seq) /\ r_held' = SlotOf(seq)
           /\ buffer_payload' = [buffer_payload EXCEPT ![SlotOf(seq)] = Incoming.PAYLOAD]
  <2>1. /\ seq \in SeqNums /\ Incoming.PAYLOAD = seq + 1
        /\ seq + 1 \in 1 .. NSegments
    BY IncomingSound DEF ReceiveSegment, Receive
  <2>2. /\ r_seq_exp <= seq /\ seq <= r_seq_exp + RCV_WINDOW - 1
        /\ SlotOf(seq) = seq % RCV_WINDOW
    BY <1>1, <1>4, <2>1, WindowNumbers
  <2>3. SlotOf(seq) \in Slots
    <3>1. seq \in Int /\ RCV_WINDOW \in Nat \ {0}
      BY <2>1 DEF SeqNums
    <3> QED
      BY <2>2, <3>1, ModRange DEF Slots
  <2>4. buffer_payload'[SlotOf(seq)] = seq + 1
    BY <1>4, <2>1, <2>3 DEF TypeOK, ReceiverTypeOK
  <2>5. ASSUME NEW i \in Slots, buffer_payload'[i] # NoData
        PROVE  \E p \in 1 .. NSegments :
                 /\ (p - 1) % RCV_WINDOW = i
                 /\ r_seq_exp < p /\ p <= r_seq_exp + RCV_WINDOW
                 /\ buffer_payload'[i] \in {p, Junk}
    <3>1. CASE i = SlotOf(seq)
      <4>1. (seq + 1) - 1 = seq /\ r_seq_exp < seq + 1 /\ seq + 1 <= r_seq_exp + RCV_WINDOW
        BY <1>1, <2>1, <2>2 DEF SeqNums
      <4>2. ((seq + 1) - 1) % RCV_WINDOW = i
        BY <2>2, <3>1, <4>1
      <4> QED
        BY <2>1, <2>4, <3>1, <4>1, <4>2
    <3>2. CASE i # SlotOf(seq)
      <4>1. buffer_payload'[i] = buffer_payload[i]
        BY <1>4, <3>2 DEF TypeOK, ReceiverTypeOK
      <4> QED
        BY <2>5, <4>1 DEF OrderSound
    <3> QED
      BY <3>1, <3>2
  <2>6. buffer_payload'[r_held'] # NoData
    BY <1>4, <2>1, <2>4 DEF NoData
  <2> QED
    BY <1>2, <2>5, <2>6 DEF OrderSound
<1> QED
  BY <1>3, <1>4 DEF ReceiveSegment

\* A payload that is freed leaves its slot taken.
LEMMA ReceiveTruncatedOrder ==
  ASSUME TypeOK, OrderSound, ReceiveTruncated
  PROVE  OrderSound'
<1>1. /\ UNCHANGED <<r_seq_exp, index, written>> /\ r_held' = NoSlot
      /\ buffer_payload' = [i \in Slots |-> IF i = r_held THEN Junk ELSE buffer_payload[i]]
  BY DEF ReceiveTruncated
<1>2. ASSUME NEW i \in Slots, buffer_payload'[i] # NoData
      PROVE  buffer_payload[i] # NoData /\ buffer_payload'[i] \in {buffer_payload[i], Junk}
  <2>1. CASE i = r_held
    <3>1. r_held # NoSlot
      BY <2>1 DEF Slots, NoSlot
    <3> QED
      BY <1>1, <2>1, <3>1 DEF OrderSound
  <2>2. CASE i # r_held
    BY <1>1, <1>2, <2>2
  <2> QED
    BY <2>1, <2>2
<1>3. ASSUME NEW i \in Slots, buffer_payload'[i] # NoData
      PROVE  \E p \in 1 .. NSegments :
               /\ (p - 1) % RCV_WINDOW = i
               /\ r_seq_exp < p /\ p <= r_seq_exp + RCV_WINDOW
               /\ buffer_payload'[i] \in {p, Junk}
  <2>1. buffer_payload[i] # NoData /\ buffer_payload'[i] \in {buffer_payload[i], Junk}
    BY <1>2, <1>3
  <2>2. PICK p \in 1 .. NSegments :
          /\ (p - 1) % RCV_WINDOW = i
          /\ r_seq_exp < p /\ p <= r_seq_exp + RCV_WINDOW
          /\ buffer_payload[i] \in {p, Junk}
    BY <2>1 DEF OrderSound
  <2>3. buffer_payload'[i] \in {p, Junk}
    BY <2>1, <2>2
  <2> QED
    BY <2>2, <2>3
<1> QED
  BY <1>1, <1>3 DEF OrderSound

\* What the slot to be written stands for is the segment that comes next.
LEMMA NextWitness ==
  ASSUME TypeOK, OrderSound, NEW i \in Slots, i = index, NEW p \in 1 .. NSegments,
         (p - 1) % RCV_WINDOW = i, r_seq_exp < p, p <= r_seq_exp + RCV_WINDOW
  PROVE  p = r_seq_exp + 1
<1>1. r_seq_exp \in Int /\ index = r_seq_exp % RCV_WINDOW
  BY DEF OrderSound, TypeOK, ReceiverTypeOK, SeqNums
<1>2. /\ r_seq_exp <= p - 1 /\ p - 1 < r_seq_exp + RCV_WINDOW /\ p - 1 \in Int
      /\ (p - 1) % RCV_WINDOW = r_seq_exp % RCV_WINDOW
  BY <1>1
<1>3. RCV_WINDOW \in Nat \ {0}
  OBVIOUS
<1>4. p - 1 = r_seq_exp
  BY <1>1, <1>2, <1>3, ModClose
<1> QED
  BY <1>1, <1>4

\* What is written, if anything, comes after all that was.
LEMMA WriteSlotOrder ==
  ASSUME NoWrap, TypeOK, OrderSound, WriteSlot
  PROVE  OrderSound'
<1>1. index \in Slots /\ buffer_payload[index] # NoData
  BY DEF WriteSlot, TypeOK, ReceiverTypeOK
<1>2. /\ r_seq_exp \in Nat /\ index = r_seq_exp % RCV_WINDOW
      /\ written \in Seq(Payloads \ {NoData})
  BY DEF OrderSound, TypeOK, ReceiverTypeOK, SeqNums
<1>3. PICK q \in 1 .. NSegments :
        /\ (q - 1) % RCV_WINDOW = index
        /\ r_seq_exp < q /\ q <= r_seq_exp + RCV_WINDOW
        /\ buffer_payload[index] \in {q, Junk}
  BY <1>1 DEF OrderSound
<1>4. q = r_seq_exp + 1
  BY <1>1, <1>3, NextWitness
<1>5. r_seq_exp' = r_seq_exp + 1 /\ r_seq_exp' <= NSegments
  <2>1. r_seq_exp + 1 \in 0 .. SEQ_MOD - 1
    BY <1>2, <1>3, <1>4 DEF NoWrap
  <2>2. (r_seq_exp + 1) % SEQ_MOD = r_seq_exp + 1
    BY <2>1, ModSmall
  <2> QED
    BY <1>3, <1>4, <2>2 DEF WriteSlot
<1>6. index' = r_seq_exp' % RCV_WINDOW
  <2>1. r_seq_exp \in Int /\ 1 \in Int /\ RCV_WINDOW \in Nat \ {0}
    BY <1>2
  <2>2. ((r_seq_exp % RCV_WINDOW) + 1) % RCV_WINDOW = (r_seq_exp + 1) % RCV_WINDOW
    BY <2>1, ModAdd
  <2> QED
    BY <1>2, <1>5, <2>2 DEF WriteSlot
<1>7. buffer_payload' = [buffer_payload EXCEPT ![index] = NoData]
  BY DEF WriteSlot
<1>8. ASSUME NEW i \in Slots, buffer_payload'[i] # NoData
      PROVE  \E p \in 1 .. NSegments :
               /\ (p - 1) % RCV_WINDOW = i
               /\ r_seq_exp' < p /\ p <= r_seq_exp' + RCV_WINDOW
               /\ buffer_payload'[i] \in {p, Junk}
  <2>1. i # index /\ buffer_payload'[i] = buffer_payload[i]
    BY <1>7, <1>8 DEF TypeOK, ReceiverTypeOK
  <2>2. PICK p \in 1 .. NSegments :
          /\ (p - 1) % RCV_WINDOW = i
          /\ r_seq_exp < p /\ p <= r_seq_exp + RCV_WINDOW
          /\ buffer_payload[i] \in {p, Junk}
    BY <1>8, <2>1 DEF OrderSound
  <2>3. p # q
    BY <1>3, <2>1, <2>2
  <2>4. r_seq_exp' < p /\ p <= r_seq_exp' + RCV_WINDOW
    BY <1>2, <1>4, <1>5, <2>2, <2>3
  <2> QED
    BY <2>1, <2>2, <2>4
<1>9. r_held' # NoSlot => buffer_payload'[r_held'] # NoData
  BY <1>7 DEF WriteSlot, OrderSound, TypeOK, ReceiverTypeOK, NoSlot
<1>10. /\ \A i \in 1 .. Len(written') : written'[i] <= r_seq_exp'
       /\ \A i, j \in 1 .. Len(written') :
            i < j /\ written'[i] # Junk /\ written'[j] # Junk => written'[i] < written'[j]
  <2>0. /\ \A i \in 1 .. Len(written) : written[i] \in Int /\ written[i] <= r_seq_exp
        /\ \A i, j \in 1 .. Len(written) :
             i < j /\ written[i] # Junk /\ written[j] # Junk => written[i] < written[j]
    BY <1>2 DEF OrderSound, Payloads, Junk, NoData
  <2>1. CASE UNCHANGED written
    BY <1>2, <1>5, <2>0, <2>1
  <2>2. CASE written' = Append(written, buffer_payload[index])
    <3> DEFINE n == Len(written)
    <3>1. /\ Len(written') = n + 1 /\ n \in Nat
          /\ \A i \in 1 .. n : written'[i] = written[i]
          /\ written'[n + 1] \in {r_seq_exp + 1, Junk}
      BY <1>2, <1>3, <1>4, <2>2
    <3>2. /\ \A i \in 1 .. n : written[i] \in Int /\ written[i] <= r_seq_exp
          /\ \A i, j \in 1 .. n :
               i < j /\ written[i] # Junk /\ written[j] # Junk => written[i] < written[j]
      BY <2>0
    <3> HIDE DEF n
    <3>3. written'[n + 1] \in Int /\ written'[n + 1] <= r_seq_exp + 1
      BY <1>2, <3>1 DEF Junk
    <3>4. \A i \in 1 .. n + 1 : i \in 1 .. n \/ i = n + 1
      BY <3>1
    <3>5. \A i \in 1 .. n + 1 : written'[i] <= r_seq_exp'
      BY <1>2, <1>5, <3>1, <3>2, <3>3, <3>4
    <3>6. ASSUME NEW i \in 1 .. n + 1, NEW j \in 1 .. n + 1, i < j,
                 written'[i] # Junk, written'[j] # Junk
          PROVE  written'[i] < written'[j]
      <4>1. i \in 1 .. n
        BY <3>1, <3>6
      <4>2. CASE j \in 1 .. n
        BY <3>1, <3>2, <3>6, <4>1, <4>2
      <4>3. CASE j = n + 1
        BY <1>2, <3>1, <3>2, <3>6, <4>1, <4>3
      <4> QED
        BY <3>4, <4>2, <4>3
    <3> QED
      BY <3>1, <3>5, <3>6
  <2> QED
    BY <2>1, <2>2 DEF WriteSlot
<1> QED
  BY <1>5, <1>6, <1>8, <1>9, <1>10 DEF OrderSound

LEMMA ReceiverStepOrder ==
  ASSUME NoWrap, TypeOK, SenderSound, OrderSound, ReceiverStep
  PROVE  OrderSound'
<1>1. CASE UNCHANGED <<r_seq_exp, index, buffer_payload, written>> /\ r_held' \in {r_held, NoSlot}
  BY <1>1 DEF OrderSound
<1>2. CASE ReceiveSegment
  BY <1>2, ReceiveSegmentOrder DEF SenderSound
<1>3. CASE WriteSlot
  BY <1>3, WriteSlotOrder
<1>4. CASE ReceiveTruncated
  BY <1>4, ReceiveTruncatedOrder
<1> QED
  BY <1>1, <1>2, <1>3, <1>4
  DEF ReceiverStep, Bind, WaitForClient, ReceiveError, ReceiveInvalid,
      ReceiveEndOfFile, AcknowledgeSegment, AcknowledgeEndOfFile, Close

-----------------------------------------------------------------------------
(***************************************************************************)
(* The invariant and what it implies.                                      *)
(***************************************************************************)
LEMMA SenderSoundInit ==
  ASSUME Init
  PROVE  SenderSound
<1>1. /\ toRcv = <<>> /\ toSnd = <<>> /\ s_pc = "select"
      /\ packet_encoded = DataDatagram(Uninit) /\ s_seq_exp = seq_ind
      /\ buffer = [i \in SndSlots |-> Uninit]
  BY DEF Init, NetworkInit, SenderInit
<1>2. DataDatagram(Uninit) \in DatagramSet
  <2>1. 0 \in SeqNums /\ NoData \in Payloads
    BY DEF SeqNums, Payloads
  <2> QED
    BY <2>1, DataDatagramType DEF Uninit
<1>3. DataDatagram(Uninit).TR = 0 /\ DataDatagram(Uninit).CRC = "ok"
      /\ DataDatagram(Uninit).PAYLOAD = NoData
  BY DEF DataDatagram, Uninit, Segment
<1>4. packet_encoded \in SoundData
  BY <1>1, <1>2, <1>3 DEF SoundData
<1> QED
  BY <1>1, <1>4 DEF SenderSound

LEMMA DeliveryInit == Init => DeliveryInvariant
<1> SUFFICES ASSUME Init PROVE ReceiverSound
  BY SenderSoundInit DEF DeliveryInvariant
<1>1. /\ r_seq_exp = 0 /\ index = 0 /\ written = <<>>
      /\ buffer_payload = [i \in Slots |-> NoData]
  BY DEF Init, ReceiverInit
<1>2. Len(written) = 0 /\ 0 % RCV_WINDOW = 0
  BY <1>1
<1> QED
  BY <1>1, <1>2 DEF ReceiverSound

LEMMA OrderInit == Init => OrderInvariant
<1> SUFFICES ASSUME Init PROVE OrderSound
  BY SenderSoundInit DEF OrderInvariant
<1>1. /\ r_seq_exp = 0 /\ index = 0 /\ written = <<>> /\ r_held = NoSlot
      /\ buffer_payload = [i \in Slots |-> NoData]
  BY DEF Init, ReceiverInit
<1>2. Len(written) = 0 /\ 0 % RCV_WINDOW = 0
  BY <1>1
<1> QED
  BY <1>1, <1>2 DEF OrderSound

\* What was used uninitialised stays used.
LEMMA UndefStays ==
  ASSUME TypeOK, [Next]_vars, ~undef'
  PROVE  ~undef
<1>1. undef \in BOOLEAN
  BY DEF TypeOK, SenderTypeOK
<1>2. undef' = undef \/ undef' = TRUE
  BY DEF Next, vars, SenderSelect, SenderTimeout, SenderEndSelect, SenderProceeds,
         ReceiverProceeds, Unreachable, Terminated, SenderUnreachable,
         ReceiverUnreachable, ReceiverDies, sndVars, SenderStep, Select, SelectTimeout,
         ReadSegment, ReadEndOfFile, ReadFileError, WriteRefused, ReadBadReply,
         HandleAck, HandleNack, WriteRawStruct, HandleOther, RetransmissionTimer,
         RetransmitUninitialised, NackUninitialised, EncodeEndOfFile, EndSelect,
         EndWrite, EndRead
<1> QED
  BY <1>1, <1>2

\* Every step keeps what is said of the sender.
LEMMA SenderSoundNext ==
  ASSUME NoWrap, TypeOK, SenderSound, [Next]_vars, ~undef'
  PROVE  SenderSound'
<1>1. CASE SenderSelect \/ SenderTimeout \/ SenderEndSelect
  BY <1>1, QuietStepSound DEF SenderSelect, SenderTimeout, SenderEndSelect
<1>2. CASE SenderProceeds
  BY <1>2, SenderStepSound DEF SenderProceeds
<1>3. CASE ReceiverProceeds
  BY <1>3, ReceiverKeepsSenderSound DEF ReceiverProceeds
<1>4. CASE Unreachable
  <2>1. toRcv' \in Seq(SoundData) /\ toSnd' \in Seq(Replies)
    BY <1>4, HeadTailIn
    DEF Unreachable, SenderUnreachable, ReceiverUnreachable, SenderSound
  <2>2. UNCHANGED sndVars
    BY <1>4 DEF Unreachable, SenderUnreachable, ReceiverUnreachable
  <2> QED
    BY <2>1, <2>2 DEF SenderSound, sndVars, protocolVars
<1>5. CASE ReceiverDies \/ UNCHANGED vars
  <2>1. UNCHANGED sndVars /\ UNCHANGED <<toRcv, toSnd>>
    BY <1>5 DEF ReceiverDies, ReceiverKilled, vars, netVars
  <2> QED
    BY <2>1 DEF SenderSound, sndVars, protocolVars
<1> QED
  BY <1>1, <1>2, <1>3, <1>4, <1>5 DEF Next, Terminated

\* Only the receiver's own steps change what is said of it.
LEMMA ReceiverOrNot ==
  ASSUME [Next]_vars
  PROVE  UNCHANGED rcvVars \/ ReceiverStep \/ ReceiverKilled
BY DEF Next, vars, SenderSelect, SenderTimeout, SenderEndSelect, SenderProceeds,
       ReceiverProceeds, Unreachable, SenderUnreachable, ReceiverUnreachable,
       ReceiverDies, Terminated

LEMMA DeliveryNext ==
  NoWrap /\ SafeReceiver /\ TypeOK /\ DeliveryInvariant /\ [Next]_vars
    => DeliveryInvariant'
<1> SUFFICES ASSUME NoWrap, SafeReceiver, TypeOK, DeliveryInvariant, [Next]_vars,
                    ~undef'
             PROVE  SenderSound' /\ ReceiverSound'
  BY DEF DeliveryInvariant
<1>1. SenderSound /\ ReceiverSound
  BY UndefStays DEF DeliveryInvariant
<1>2. CASE UNCHANGED rcvVars
  BY <1>1, <1>2, SenderSoundNext DEF ReceiverSound, rcvVars
<1>3. CASE ReceiverStep
  BY <1>1, <1>3, SenderSoundNext, ReceiverStepSound
<1>4. CASE ReceiverKilled
  BY <1>1, <1>4, SenderSoundNext DEF ReceiverKilled, ReceiverSound
<1> QED
  BY <1>2, <1>3, <1>4, ReceiverOrNot

LEMMA OrderNext ==
  NoWrap /\ TypeOK /\ OrderInvariant /\ [Next]_vars => OrderInvariant'
<1> SUFFICES ASSUME NoWrap, TypeOK, OrderInvariant, [Next]_vars, ~undef'
             PROVE  SenderSound' /\ OrderSound'
  BY DEF OrderInvariant
<1>1. SenderSound /\ OrderSound
  BY UndefStays DEF OrderInvariant
<1>2. CASE UNCHANGED rcvVars
  BY <1>1, <1>2, SenderSoundNext DEF OrderSound, rcvVars
<1>3. CASE ReceiverStep
  BY <1>1, <1>3, SenderSoundNext, ReceiverStepOrder
<1>4. CASE ReceiverKilled
  BY <1>1, <1>4, SenderSoundNext DEF ReceiverKilled, OrderSound
<1> QED
  BY <1>2, <1>3, <1>4, ReceiverOrNot

\* Every number, slot and payload between the file and the receiver's file
\* agree at every moment (client.c:171-179, server.c:145-158, 195-213).
THEOREM DeliverySound ==
  ASSUME NoWrap, SafeReceiver
  PROVE  Spec => []DeliveryInvariant
BY DeliveryInit, DeliveryNext, TypeCorrect, PTL DEF Spec

\* The receiver's file is a prefix of the sender's, whatever the network does
\* short of recomputing the checksums of what it truncates
\* (server.c:142-158), for a file too short for its numbers to wrap.
THEOREM DeliveryCorrect ==
  ASSUME NoWrap, SafeReceiver
  PROVE  Spec => []DeliveredPrefix
<1>1. DeliveryInvariant => DeliveredPrefix
  BY DEF DeliveryInvariant, ReceiverSound, DeliveredPrefix
<1> QED
  BY <1>1, DeliverySound, PTL

\* The receiver's table is aligned on what it has written (server.c:209-212).
THEOREM TableAligned ==
  ASSUME NoWrap, SafeReceiver
  PROVE  Spec => []ReceiverAligned
<1>1. DeliveryInvariant => ReceiverAligned
  BY DEF DeliveryInvariant, ReceiverSound, ReceiverAligned, NoData
<1> QED
  BY <1>1, DeliverySound, PTL

\* The order of the file survives whatever fails, writes and the memory of
\* payloads included (server.c:145-158, packet_implem.c:304-305).
THEOREM OrderCorrect ==
  ASSUME NoWrap
  PROVE  Spec => []DeliveredInOrder
<1>1. OrderInvariant => DeliveredInOrder
  BY DEF OrderInvariant, OrderSound, DeliveredInOrder
<1>2. Spec => []OrderInvariant
  BY OrderInit, OrderNext, TypeCorrect, PTL DEF Spec
<1> QED
  BY <1>1, <1>2, PTL
=============================================================================
