---------------------------- MODULE WindowProofs ----------------------------
(***************************************************************************)
(* The sender's window and its table of segments: what the receiver has    *)
(* not written can still be sent again.                                    *)
(***************************************************************************)
EXTENDS AckProofs

\* Where an iteration may go on: to another select() only before the end.
LEMMA ControlEnd ==
  ASSUME NEW end \in {0, 1}, NEW new
  PROVE  \A pc \in {LoopHead(end), AfterSocket(end, new), AfterReply(end),
                    AfterFile(end, new)} :
           pc # "file" /\ (pc = "select" => end = 0)
BY DEF LoopHead, AfterSocket, AfterReply, AfterFile

(***************************************************************************)
(* A step that neither stores a segment nor writes the receiver's file.    *)
(***************************************************************************)
LEMMA WindowKept ==
  ASSUME ~undef, WindowSound, UNCHANGED <<seq_ind, buffer, written>>,
         \/ UNCHANGED <<s_window, small_seq>>
         \/ s_window' = RCV_WINDOW,
         endFile' = 0 /\ buffer_empty' = 0 => endFile = 0 /\ buffer_empty = 0,
         s_pc' \in {"select", "file"} => endFile' = 0,
         s_pc' = "file" => FileSelected'
  PROVE  WindowSound'
<1>1. s_window' = RCV_WINDOW \/ (small_seq' = 0 /\ seq_ind' <= 1)
  BY DEF WindowSound
<1>2. UnackedRetained'
  <2>1. \A k \in Len(written) + 1 .. seq_ind :
          buffer[(k - 1) % RCV_WINDOW] = Segment((k - 1) % SEQ_MOD, k)
    BY DEF WindowSound, UnackedRetained
  <2> QED
    BY <2>1 DEF UnackedRetained
<1>3. seq_ind' <= Len(written') + RCV_WINDOW
  BY DEF WindowSound
<1>4. endFile' = 0 /\ buffer_empty' = 0 => seq_ind' = 0
  BY DEF WindowSound
<1> QED
  BY <1>1, <1>2, <1>3, <1>4 DEF WindowSound

\* An answer with one of the two windows leaves the sender's as it was, or makes
\* it the receiver's.
LEMMA ReplyWindow ==
  ASSUME NEW type, ReadReply(type),
         Reply.WINDOW \in {1, RCV_WINDOW}, s_window \in {1, RCV_WINDOW}
  PROVE  /\ s_window' = s_window \/ s_window' = RCV_WINDOW
         /\ Reply.WINDOW = RCV_WINDOW => s_window' = RCV_WINDOW
<1>1. s_window' = IF Reply.WINDOW > s_window THEN Reply.WINDOW ELSE s_window
  BY DEF ReadReply
<1> QED
  BY <1>1, WindowAssumption DEF WindowAssumption

\* An ACK that is handled names the receiver's window.
LEMMA AckReplyWindow ==
  ASSUME SoundAnswers, TypeOK, AckInvariant, ReadReply(PTYPE_ACK)
  PROVE  Reply.WINDOW = RCV_WINDOW
<1>1. Reply.TYPE = PTYPE_ACK
  BY ReplySound
<1> QED
  BY <1>1, ReplySound

-----------------------------------------------------------------------------
(***************************************************************************)
(* The step that stores a segment.                                         *)
(***************************************************************************)

\* The window test keeps the sender within a window of what is written.
LEMMA WindowHolds ==
  ASSUME TypeOK, AckInvariant, WindowSound, s_seq_exp = seq_ind, ReadSegment
  PROVE  /\ seq_ind + 1 <= Len(written) + RCV_WINDOW
         /\ s_window = RCV_WINDOW \/ seq_ind = 0
<1>1. FileSelected /\ endFile = 0
  BY DEF ReadSegment, WindowSound, FileSelected
<1>2. seq_ind = 0 \/ seq_ind < small_seq + s_window
  <2>1. CASE buffer_empty = 0
    BY <1>1, <2>1 DEF WindowSound
  <2>2. CASE isNotFull
    <3>1. seq_ind \in Int /\ small_seq \in Int /\ s_window \in Int
      BY SeqModAssumption, WindowAssumption, SenderAssumption
      DEF TypeOK, SenderTypeOK, SeqNums, WindowSizes, SeqModAssumption,
          WindowAssumption, SenderAssumption
    <3> QED
      BY <2>2, <3>1 DEF isNotFull
  <2> QED
    BY <1>1, <2>1, <2>2 DEF FileSelected
<1>3. /\ seq_ind \in Nat /\ Len(written) \in Nat /\ small_seq \in Nat
      /\ small_seq <= Len(written)
  BY SenderAssumption, SeqModAssumption
  DEF TypeOK, SenderTypeOK, ReceiverTypeOK, SeqNums, AckInvariant,
      SenderAssumption, SeqModAssumption
<1>4. RCV_WINDOW \in Nat \ {0} /\ s_window \in {1, RCV_WINDOW}
  BY WindowAssumption DEF WindowAssumption, AckInvariant
<1>5. s_window = RCV_WINDOW \/ seq_ind = 0
  <2>1. CASE s_window # RCV_WINDOW
    <3>1. s_window = 1 /\ small_seq = 0
      BY <1>4, <2>1 DEF WindowSound
    <3> QED
      BY <1>2, <1>3, <3>1
  <2> QED
    BY <2>1
<1>6. seq_ind + 1 <= Len(written) + RCV_WINDOW
  <2>1. CASE seq_ind = 0
    BY <1>3, <1>4, <2>1
  <2>2. CASE seq_ind # 0
    BY <1>2, <1>3, <1>4, <1>5, <2>2
  <2> QED
    BY <2>1, <2>2
<1> QED
  BY <1>5, <1>6

\* The segment goes to the slot of its number, which none of the segments after
\* number n uses.
LEMMA StoreRetains ==
  ASSUME NoWrap, TypeOK, s_seq_exp = seq_ind, ReadSegment,
         NEW n \in Nat, seq_ind + 1 <= n + RCV_WINDOW,
         s_window = RCV_WINDOW \/ seq_ind = 0, RetainedFrom(n)
  PROVE  \A k \in n + 1 .. seq_ind + 1 :
           buffer'[(k - 1) % RCV_WINDOW] = Segment((k - 1) % SEQ_MOD, k)
<1> DEFINE seg == Segment(seq_ind, seq_ind + 1)
<1>1. RCV_WINDOW \in Nat \ {0} /\ seq_ind \in Nat
  BY WindowAssumption, SenderAssumption
  DEF WindowAssumption, SenderAssumption, TypeOK, SenderTypeOK
<1>2. seq_ind + 1 <= n + RCV_WINDOW /\ (s_window = RCV_WINDOW \/ seq_ind = 0)
  OBVIOUS
<1>3. seq_ind % s_window = seq_ind % RCV_WINDOW
  <2>1. CASE s_window = RCV_WINDOW
    BY <2>1
  <2>2. CASE seq_ind = 0
    <3>1. s_window \in Nat \ {0}
      BY DEF WindowSizes, TypeOK, SenderTypeOK
    <3>2. 0 % s_window = 0 /\ 0 % RCV_WINDOW = 0
      BY <1>1, <3>1, ModSmall
    <3> QED
      BY <2>2, <3>2
  <2> QED
    BY <1>2, <2>1, <2>2
<1>4. buffer' = [buffer EXCEPT ![seq_ind % RCV_WINDOW] = seg]
  <2>1. buffer' = [buffer EXCEPT ![seq_ind % s_window] = Segment(s_seq_exp, seq_ind + 1)]
    BY DEF ReadSegment
  <2> QED
    BY <1>3, <2>1
<1>6. DOMAIN buffer = SndSlots /\ Slots \subseteq SndSlots
  BY WindowAssumption DEF TypeOK, SenderTypeOK, Slots, SndSlots, WindowAssumption
<1>7. ASSUME NEW k \in n + 1 .. seq_ind + 1
      PROVE  buffer'[(k - 1) % RCV_WINDOW] = Segment((k - 1) % SEQ_MOD, k)
  <2>1. k \in Int /\ k - 1 \in Int /\ (k - 1) % RCV_WINDOW \in Slots
    <3>1. k \in Int /\ k - 1 \in Int
      BY <1>1, <1>7
    <3>2. (k - 1) % RCV_WINDOW \in 0 .. RCV_WINDOW - 1
      BY <1>1, <3>1, ModRange
    <3> QED
      BY <3>1, <3>2 DEF Slots
  <2>2. CASE k = seq_ind + 1
    <3>1. k - 1 = seq_ind
      BY <1>1, <2>2
    <3>2. seq_ind % SEQ_MOD = seq_ind
      <4>1. seq_ind \in 0 .. SEQ_MOD - 1
        BY <1>1, SeqModAssumption, SenderAssumption
        DEF NoWrap, ReadSegment, SeqModAssumption, SenderAssumption
      <4> QED
        BY <4>1, SeqModAssumption, ModSmall DEF SeqModAssumption
    <3> QED
      BY <1>4, <1>6, <2>1, <2>2, <3>1, <3>2
  <2>3. CASE k # seq_ind + 1
    <3>1. (k - 1) % RCV_WINDOW # seq_ind % RCV_WINDOW
      <4>1. k - 1 < seq_ind /\ k - 1 <= seq_ind /\ seq_ind < (k - 1) + RCV_WINDOW
        BY <1>1, <1>2, <2>1, <2>3
      <4>2. SUFFICES ASSUME seq_ind % RCV_WINDOW = (k - 1) % RCV_WINDOW PROVE FALSE
        OBVIOUS
      <4>3. seq_ind = k - 1
        <5>1. \A a, b \in Int : a % RCV_WINDOW = b % RCV_WINDOW /\ b <= a
                               /\ a < b + RCV_WINDOW => a = b
          BY <1>1, ModClose
        <5>2. seq_ind \in Int
          BY <1>1
        <5> QED
          BY <2>1, <4>1, <4>2, <5>1, <5>2, Zenon
      <4> QED
        BY <4>1, <4>3, <2>1
    <3>2. k \in n + 1 .. seq_ind
      BY <1>1, <2>1, <2>3
    <3>3. buffer[(k - 1) % RCV_WINDOW] = Segment((k - 1) % SEQ_MOD, k)
      BY <3>2 DEF RetainedFrom
    <3> QED
      BY <1>4, <1>6, <2>1, <3>1, <3>3
  <2> QED
    BY <2>2, <2>3
<1> QED
  BY <1>7

\* No segment that is still to be written is in that slot.
LEMMA ReadSegmentRetains ==
  ASSUME NoWrap, TypeOK, AckInvariant, WindowSound, ~undef,
         s_seq_exp = seq_ind, ReadSegment, UNCHANGED written
  PROVE  UnackedRetained'
<1>1. PICK n \in Nat : n = Len(written)
  BY DEF TypeOK, ReceiverTypeOK
<1>2. seq_ind + 1 <= n + RCV_WINDOW /\ (s_window = RCV_WINDOW \/ seq_ind = 0)
  BY <1>1, WindowHolds
<1>3. RetainedFrom(n)
  BY <1>1 DEF WindowSound, UnackedRetained, RetainedFrom
<1>4. \A k \in n + 1 .. seq_ind + 1 :
        buffer'[(k - 1) % RCV_WINDOW] = Segment((k - 1) % SEQ_MOD, k)
  BY <1>2, <1>3, StoreRetains
<1> QED
  BY <1>1, <1>4 DEF UnackedRetained, ReadSegment

LEMMA ReadSegmentWindow ==
  ASSUME NoWrap, TypeOK, AckInvariant, WindowSound, ~undef,
         s_seq_exp = seq_ind, ReadSegment, UNCHANGED written
  PROVE  WindowSound'
<1>1. UnackedRetained'
  BY ReadSegmentRetains
<1>2. seq_ind + 1 <= Len(written) + RCV_WINDOW /\ (s_window = RCV_WINDOW \/ seq_ind = 0)
  BY WindowHolds
<1>3. /\ seq_ind' = seq_ind + 1 /\ buffer_empty' = 1
      /\ UNCHANGED <<endFile, small_seq, s_window>>
  BY DEF ReadSegment
<1>4. s_pc' # "file" /\ (s_pc' = "select" => endFile' = 0)
  <2>1. s_pc' = AfterFile(endFile, 1) /\ endFile \in {0, 1}
    BY DEF ReadSegment, Go, TypeOK, SenderTypeOK
  <2> QED
    BY <1>3, <2>1, ControlEnd
<1>5. s_window' = RCV_WINDOW \/ (small_seq' = 0 /\ seq_ind' <= 1)
  <2>1. s_window = RCV_WINDOW \/ small_seq = 0
    BY DEF WindowSound
  <2> QED
    BY <1>2, <1>3, <2>1
<1>6. seq_ind' <= Len(written') + RCV_WINDOW
  BY <1>2, <1>3
<1> QED
  BY <1>1, <1>3, <1>4, <1>5, <1>6 DEF WindowSound

-----------------------------------------------------------------------------
(***************************************************************************)
(* All steps.                                                              *)
(***************************************************************************)
LEMMA SenderStepWindow ==
  ASSUME NoWrap, SoundAnswers, TypeOK, AckInvariant, WindowSound, ~undef, ~undef',
         s_seq_exp = seq_ind, UNCHANGED written,
         \/ \E sfd \in BOOLEAN : Select(sfd) \/ EndSelect(sfd)
         \/ SelectTimeout \/ SenderStep
  PROVE  WindowSound'
<1>1. endFile \in {0, 1} /\ buffer_empty \in {0, 1}
  BY DEF TypeOK, SenderTypeOK
<1>2. CASE \E sfd \in BOOLEAN : Select(sfd)
  <2>1. UNCHANGED protocolVars /\ s_pc' \in {"file", "socket"}
        /\ (s_pc' = "file" => FileSelected)
    BY <1>2 DEF Select
  <2>2. s_pc' = "file" => FileSelected'
    BY <2>1 DEF FileSelected, isNotFull, protocolVars
  <2>3. s_pc = "select"
    BY <1>2 DEF Select
  <2> QED
    BY <2>1, <2>2, <2>3, WindowKept DEF WindowSound, protocolVars
<1>3. CASE SelectTimeout
  <2>1. UNCHANGED protocolVars /\ s_pc' = AfterSocket(endFile, 0)
    BY <1>3 DEF SelectTimeout
  <2> QED
    BY <1>1, <2>1, ControlEnd, WindowKept DEF protocolVars
<1>4. CASE (\E sfd \in BOOLEAN : EndSelect(sfd)) \/ WriteRefused \/ ReadFileError
           \/ EncodeEndOfFile \/ EndWrite \/ EndRead
  <2>1. UNCHANGED protocolVars /\ s_pc' \notin {"select", "file"}
    BY <1>4
    DEF EndSelect, WriteRefused, ReadFileError, EncodeEndOfFile, EndWrite, EndRead
  <2> QED
    BY <2>1, WindowKept DEF protocolVars
<1>5. CASE ReadSegment
  BY <1>5, ReadSegmentWindow
<1>6. CASE ReadEndOfFile
  <2>1. /\ UNCHANGED <<seq_ind, buffer, small_seq, s_window>>
        /\ endFile' = 1 /\ s_pc' = AfterFile(1, 0)
    BY <1>6 DEF ReadEndOfFile, Go
  <2>2. s_pc' # "file" /\ s_pc' # "select"
    BY <2>1, ControlEnd
  <2> QED
    BY <2>1, <2>2, WindowKept
<1>7. CASE ReadBadReply
  <2>1. UNCHANGED protocolVars /\ s_pc' = AfterSocket(endFile, sent)
    BY <1>7 DEF ReadBadReply, Go
  <2> QED
    BY <1>1, <2>1, ControlEnd, WindowKept DEF protocolVars
<1>8. CASE RetransmissionTimer \/ WriteRawStruct
  <2>1. UNCHANGED protocolVars /\ s_pc' \in {LoopHead(endFile), AfterReply(endFile)}
    BY <1>8 DEF RetransmissionTimer, WriteRawStruct, Go
  <2> QED
    BY <1>1, <2>1, ControlEnd, WindowKept DEF protocolVars
<1>9. CASE HandleAck
  <2>1. /\ UNCHANGED <<seq_ind, buffer, endFile>> /\ s_pc' = AfterReply(endFile)
        /\ buffer_empty' \in {0, buffer_empty} /\ (buffer_empty' = buffer_empty \/ endFile = 1)
    BY <1>9 DEF HandleAck, Go
  <2>2. s_window' = RCV_WINDOW
    <3>1. ReadReply(PTYPE_ACK)
      BY <1>9 DEF HandleAck
    <3>2. Reply.WINDOW = RCV_WINDOW /\ s_window \in {1, RCV_WINDOW}
      BY <3>1, AckReplyWindow DEF AckInvariant
    <3> QED
      BY <3>1, <3>2, ReplyWindow
  <2> QED
    BY <1>1, <2>1, <2>2, ControlEnd, WindowKept
<1>10. CASE HandleNack \/ HandleOther
  <2>1. /\ UNCHANGED <<seq_ind, buffer, endFile, buffer_empty, small_seq>>
        /\ s_pc' \in {"nack_raw", AfterReply(endFile)}
    BY <1>10 DEF HandleNack, HandleOther, Go
  <2>2. s_window' = s_window \/ s_window' = RCV_WINDOW
    <3>1. PICK type : ReadReply(type)
      BY <1>10 DEF HandleNack, HandleOther
    <3>2. Reply.WINDOW \in {1, RCV_WINDOW} /\ s_window \in {1, RCV_WINDOW}
      BY <3>1, ReplySound DEF AckInvariant
    <3> QED
      BY <3>1, <3>2, ReplyWindow
  <2> QED
    BY <1>1, <2>1, <2>2, ControlEnd, WindowKept
<1>11. CASE RetransmitUninitialised \/ NackUninitialised
  BY <1>11 DEF RetransmitUninitialised, NackUninitialised
<1> QED
  BY <1>2, <1>3, <1>4, <1>5, <1>6, <1>7, <1>8, <1>9, <1>10, <1>11 DEF SenderStep

\* The receiver's file only grows.
LEMMA ReceiverStepWindow ==
  ASSUME TypeOK, WindowSound, ReceiverStep, UNCHANGED sndVars
  PROVE  WindowSound'
<1>1. Len(written) \in Nat /\ Len(written') \in Nat /\ Len(written) <= Len(written')
  <2>1. written \in Seq(Payloads \ {NoData})
    BY DEF TypeOK, ReceiverTypeOK
  <2>2. CASE UNCHANGED written
    BY <2>1, <2>2
  <2>3. CASE WriteSlot
    <3>1. written' = written \/ written' = Append(written, buffer_payload[index])
      BY <2>3 DEF WriteSlot
    <3> QED
      BY <2>1, <3>1
  <2> QED
    BY <2>2, <2>3
    DEF ReceiverStep, Bind, WaitForClient, ReceiveError, ReceiveInvalid,
        ReceiveTruncated, ReceiveEndOfFile, ReceiveSegment, AcknowledgeSegment,
        AcknowledgeEndOfFile, Close
<1>2. UNCHANGED <<s_pc, endFile, buffer_empty, small_seq, seq_ind, s_seq_exp,
                  s_window, buffer, undef>>
  BY DEF sndVars, protocolVars
<1>3. RCV_WINDOW \in Int /\ seq_ind \in Int
  BY WindowAssumption, SenderAssumption
  DEF WindowAssumption, SenderAssumption, TypeOK, SenderTypeOK
<1>4. UnackedRetained'
  BY <1>1, <1>2, <1>3 DEF WindowSound, UnackedRetained
<1>5. seq_ind' <= Len(written') + RCV_WINDOW
  BY <1>1, <1>2, <1>3 DEF WindowSound
<1>6. s_pc' = "file" => FileSelected'
  BY <1>2 DEF WindowSound, FileSelected, isNotFull
<1> QED
  BY <1>2, <1>4, <1>5, <1>6 DEF WindowSound

LEMMA WindowInit == Init => WindowInvariant
<1> SUFFICES ASSUME Init PROVE WindowSound
  BY DEF WindowInvariant
<1>1. /\ s_pc = "select" /\ endFile = 0 /\ small_seq = 0 /\ seq_ind = 0
      /\ written = <<>>
  BY DEF Init, SenderInit, ReceiverInit
<1>2. RCV_WINDOW \in Nat /\ Len(written) = 0
  BY <1>1, WindowAssumption DEF WindowAssumption
<1> QED
  BY <1>1, <1>2 DEF WindowSound, UnackedRetained

LEMMA WindowNext ==
  /\ NoWrap /\ SoundAnswers
  /\ TypeOK /\ DeliveryInvariant /\ AckInvariant /\ WindowInvariant /\ [Next]_vars
  => WindowInvariant'
<1> SUFFICES ASSUME NoWrap, SoundAnswers, TypeOK, DeliveryInvariant, AckInvariant,
                    WindowInvariant, [Next]_vars, ~undef'
             PROVE  WindowSound'
  BY DEF WindowInvariant
<1>1. ~undef
  BY UndefStays
<1>2. WindowSound /\ s_seq_exp = seq_ind
  BY <1>1 DEF WindowInvariant, DeliveryInvariant, SenderSound
<1>3. CASE SenderSelect \/ SenderTimeout \/ SenderEndSelect \/ SenderProceeds
  BY <1>1, <1>2, <1>3, SenderStepWindow
  DEF SenderSelect, SenderTimeout, SenderEndSelect, SenderProceeds, rcvVars
<1>4. CASE ReceiverProceeds
  BY <1>2, <1>4, ReceiverStepWindow DEF ReceiverProceeds
<1>5. CASE UNCHANGED sndVars /\ UNCHANGED written
  <2>1. UNCHANGED <<s_pc, endFile, buffer_empty, small_seq, seq_ind, s_seq_exp,
                    s_window, buffer>>
    BY <1>5 DEF sndVars, protocolVars
  <2>2. s_pc' = "file" => FileSelected'
    BY <1>2, <2>1 DEF WindowSound, FileSelected, isNotFull
  <2> QED
    BY <1>1, <1>2, <1>5, <2>1, <2>2, WindowKept DEF WindowSound
<1> QED
  BY <1>3, <1>4, <1>5
  DEF Next, Unreachable, SenderUnreachable, ReceiverUnreachable, ReceiverDies,
      ReceiverKilled, Terminated, vars, rcvVars

\* The sender is never more than a window ahead of the receiver's file
\* (client.c:125-128).
THEOREM WindowCorrect ==
  ASSUME NoWrap, SafeReceiver, SoundAnswers
  PROVE  Spec => []WindowInvariant
BY WindowInit, WindowNext, TypeCorrect, DeliverySound, AckSound, PTL DEF Spec

\* No segment leaves the sender's table before it is in the receiver's file
\* (client.c:179), whatever is lost, repeated, damaged or late.
THEOREM Retained ==
  ASSUME NoWrap, SafeReceiver, SoundAnswers
  PROVE  Spec => []UnackedRetained
<1>1. WindowInvariant => UnackedRetained
  BY DEF WindowInvariant, WindowSound, UnackedRetained
<1> QED
  BY <1>1, WindowCorrect, PTL

-----------------------------------------------------------------------------
(***************************************************************************)
(* Memory that was never written.                                          *)
(***************************************************************************)
LEMMA UntruncatedAltered ==
  ASSUME "recrc" \notin Faults, NEW d \in DatagramSet
  PROVE  Altered(d) \subseteq Untruncated
<1>1. Altered(d) \subseteq DatagramSet
  BY AlteredType
<1>2. SUFFICES ASSUME NEW e \in Altered(d)
               PROVE  e \in Untruncated
  OBVIOUS
<1>3. CASE e \in Damaged(d)
  BY <1>1, <1>3, SoundDamaged DEF Untruncated
<1>4. CASE e \in Truncated(d, "hdr")
  BY <1>1, <1>4, SoundTruncated DEF Untruncated
<1> QED
  BY <1>3, <1>4 DEF Altered

LEMMA AcksAltered ==
  ASSUME NEW d \in Acks, d.CRC = "ok"
  PROVE  Altered(d) \subseteq Acks
<1>1. /\ d \in DatagramSet /\ Altered(d) \subseteq DatagramSet
      /\ d.TYPE = PTYPE_ACK /\ d.WINDOW = RCV_WINDOW
  BY AlteredType DEF Acks
<1>2. [d EXCEPT !.CRC = "payload"].TYPE = d.TYPE
      /\ [d EXCEPT !.CRC = "payload"].WINDOW = d.WINDOW
  BY <1>1 DEF DatagramSet
<1>3. ASSUME NEW e \in Damaged(d)
      PROVE  e.CRC = "hdr" \/ (e.TYPE = d.TYPE /\ e.WINDOW = d.WINDOW)
  BY <1>1, <1>2, <1>3, DamagedCases
<1>4. ASSUME NEW crc \in {"hdr", "ok"}, NEW e \in Truncated(d, crc)
      PROVE  e.TYPE = d.TYPE /\ e.WINDOW = d.WINDOW
  <2>1. e = [d EXCEPT !.TR = 1, !.CRC = crc]
    BY <1>4 DEF Truncated
  <2> QED
    BY <1>1, <2>1 DEF DatagramSet
<1>5. \A e \in Altered(d) : \/ "corrupt" \in Faults /\ e.CRC = "hdr"
                            \/ e.TYPE = d.TYPE /\ e.WINDOW = d.WINDOW
  BY <1>3, <1>4 DEF Altered
<1> QED
  BY <1>1, <1>5 DEF Acks

LEMMA WriteUntruncated ==
  ASSUME "recrc" \notin Faults, TypeOK, toRcv \in Seq(Untruncated),
         NEW d \in Untruncated, Write(d)
  PROVE  toRcv' \in Seq(Untruncated)
<1>1. Altered(d) \subseteq Untruncated
  BY UntruncatedAltered DEF Untruncated
<1>2. faults \in 0 .. MaxFaults /\ Transmit(toRcv, toRcv', d)
  BY DEF TypeOK, NetworkTypeOK, Write
<1> QED
  BY <1>1, <1>2, TransmitIn

LEMMA SegmentUntruncated ==
  ASSUME NEW d \in DatagramSet, d.TR = 0
  PROVE  d \in Untruncated
BY DEF Untruncated

\* The reply at hand is an ACK, or was never received.
LEMMA AckAtHand ==
  ASSUME NoStaleDamage, AcksOnly, NEW type, ReadReply(type)
  PROVE  /\ toSnd' \in Seq(Acks) /\ s_err' = FALSE
         /\ Reply.TYPE = type /\ s_pkt_ack' = Reply
         /\ type # PTYPE_NACK /\ Reply.WINDOW \in {1, RCV_WINDOW}
         /\ type = PTYPE_ACK => Reply.WINDOW = RCV_WINDOW
<1>1. Reply.TYPE = type /\ s_pkt_ack' = Reply /\ s_err' = FALSE /\ s_pc = "socket"
  BY DEF ReadReply
<1>2. CASE s_err
  <2>1. Reply = s_pkt_ack /\ UNCHANGED toSnd
    BY <1>2 DEF ReadReply, Reply
  <2>2. "corrupt" \notin Faults /\ s_pc \notin EndPhase
    BY <1>1, <1>2 DEF AcksOnly, NoStaleDamage, EndPhase, Done
  <2> QED
    BY <1>1, <2>1, <2>2 DEF AcksOnly
<1>3. CASE ~s_err
  <2>1. /\ toSnd # <<>> /\ toSnd' = Tail(toSnd) /\ DecodesOK(Head(toSnd))
        /\ Reply = Header(Head(toSnd))
    BY <1>3 DEF ReadReply, Reply
  <2>2. Head(toSnd) \in Acks /\ Tail(toSnd) \in Seq(Acks)
    BY <2>1, HeadTailIn DEF AcksOnly
  <2>3. Reply.TYPE = PTYPE_ACK /\ Reply.WINDOW = RCV_WINDOW
    BY <2>1, <2>2 DEF Acks, Header, DecodesOK, DecodeStatus
  <2> QED
    BY <1>1, <2>1, <2>2, <2>3 DEF PTYPE_ACK, PTYPE_NACK
<1> QED
  BY <1>2, <1>3

\* A step that leaves pkt_ack alone.
LEMMA AcksOnlyKept ==
  ASSUME AcksOnly, UNCHANGED s_pkt_ack, s_err' \in {s_err, FALSE},
         toRcv' \in Seq(Untruncated), toSnd' \in Seq(Acks),
         packet_encoded' \in DataOrAcks, s_pc' # "nack_raw",
         s_pc \notin EndPhase \/ s_pc' \in EndPhase
  PROVE  AcksOnly'
<1>1. s_err' => "icmp" \in Faults
  <2>1. CASE s_err' = s_err
    BY <2>1, Zenon DEF AcksOnly
  <2>2. CASE s_err' = FALSE
    BY <2>2, Zenon
  <2> QED
    BY <2>1, <2>2
<1>2. s_pc' \notin EndPhase => s_pc \notin EndPhase
  OBVIOUS
<1> QED
  BY <1>1, <1>2, Zenon DEF AcksOnly

\* Hence nothing uninitialised is used.
LEMMA UseStored ==
  ASSUME NoStaleDamage, TypeOK, TableInvariant
  PROVE  ~RetransmitUninitialised /\ ~NackUninitialised
<1>1. ASSUME NackUninitialised PROVE FALSE
  BY <1>1, AckAtHand DEF NackUninitialised, TableInvariant
<1>2. ASSUME RetransmitUninitialised PROVE FALSE
  <2>1. s_pc = "timer" /\ buffer[small_ind % s_window] = Uninit
    BY <1>2 DEF RetransmitUninitialised
  <2>2. \/ seq_ind >= RCV_WINDOW
        \/ s_window = 1 /\ seq_ind >= 1
    BY <2>1 DEF TableInvariant, TableFilled, TimerReady
  <2>3. /\ s_window \in {1, RCV_WINDOW} /\ small_ind \in SndSlots
        /\ RCV_WINDOW \in 1 .. 7 /\ seq_ind \in Nat
    BY WindowAssumption, SenderAssumption
    DEF WindowAssumption, SenderAssumption, TypeOK, SenderTypeOK, TableInvariant,
        TableFilled
  <2>4. /\ small_ind % s_window \in Slots
        /\ small_ind % s_window < s_window
    <3>1. small_ind \in Int /\ s_window \in Nat \ {0} /\ s_window <= RCV_WINDOW
      BY <2>3 DEF SndSlots
    <3>2. small_ind % s_window \in 0 .. s_window - 1
      BY <3>1, ModRange
    <3> QED
      BY <2>3, <3>1, <3>2 DEF Slots
  <2>5. small_ind % s_window < seq_ind
    <3> DEFINE i == small_ind % s_window
    <3> HIDE DEF i
    <3>1. i < s_window /\ i \in Int
      BY <2>4 DEF i, Slots
    <3>2. i < seq_ind
      BY <2>2, <2>3, <3>1
    <3> QED
      BY <3>2 DEF i
  <2> QED
    BY <2>1, <2>4, <2>5 DEF TableInvariant, TableFilled
<1> QED
  BY <1>1, <1>2

LEMMA AcksOnlySender ==
  ASSUME NoStaleDamage, "recrc" \notin Faults, TypeOK, TableInvariant,
         \/ \E sfd \in BOOLEAN : Select(sfd) \/ EndSelect(sfd)
         \/ SelectTimeout \/ SenderStep
  PROVE  AcksOnly'
<1>0. AcksOnly /\ ~RetransmitUninitialised /\ ~NackUninitialised
  BY UseStored DEF TableInvariant
<1>1. /\ toRcv \in Seq(Untruncated) /\ packet_encoded \in DataOrAcks
      /\ toSnd \in Seq(Acks)
  BY <1>0 DEF AcksOnly
<1>2. CASE \E sfd \in BOOLEAN : Select(sfd) \/ EndSelect(sfd)
  BY <1>0, <1>1, <1>2, AcksOnlyKept DEF Select, EndSelect, EndPhase, Done, netVars
<1>3. CASE SelectTimeout \/ ReadEndOfFile \/ ReadFileError \/ WriteRefused
  <2>1. /\ UNCHANGED <<toRcv, toSnd, s_pkt_ack, packet_encoded>>
        /\ s_err' \in {s_err, FALSE} /\ s_pc' # "nack_raw"
        /\ s_pc \in {"select", "file"} \/ s_pc' = "aborted"
    BY <1>3, ControlType
    DEF SelectTimeout, ReadEndOfFile, ReadFileError, WriteRefused, netVars, Go
  <2> QED
    BY <1>0, <1>1, <2>1, AcksOnlyKept DEF EndPhase, Done
<1>4. CASE ReadSegment
  <2>1. PICK seg : seg = Segment(s_seq_exp, seq_ind + 1)
    OBVIOUS
  <2>2. Write(DataDatagram(seg)) /\ DataDatagram(seg) \in DatagramSet
    <3>1. s_seq_exp \in SeqNums /\ seq_ind + 1 \in Payloads
      BY <1>4, SenderAssumption
      DEF ReadSegment, TypeOK, SenderTypeOK, Payloads, SenderAssumption
    <3> QED
      BY <1>4, <2>1, <3>1, DataDatagramType DEF ReadSegment
  <2>3. DataDatagram(seg) \in Untruncated
    BY <2>2, SegmentUntruncated DEF DataDatagram
  <2>4. toRcv' \in Seq(Untruncated)
    BY <1>1, <2>2, <2>3, WriteUntruncated
  <2>5. /\ UNCHANGED <<toSnd, s_err, s_pkt_ack, packet_encoded>>
        /\ s_pc = "file" /\ s_pc' # "nack_raw"
    BY <1>4, ControlType DEF ReadSegment, Go
  <2> QED
    BY <1>0, <1>1, <2>4, <2>5, AcksOnlyKept DEF EndPhase, Done
<1>5. CASE ReadBadReply
  <2>1. Head(toSnd) \in Acks /\ Tail(toSnd) \in Seq(Acks)
    BY <1>1, <1>5, HeadTailIn DEF ReadBadReply
  <2>2. "corrupt" \notin Faults =>
          s_pkt_ack'.TYPE = PTYPE_ACK /\ s_pkt_ack'.WINDOW = RCV_WINDOW
    BY <1>5, <2>1 DEF ReadBadReply, Header, Acks
  <2>3. /\ UNCHANGED <<toRcv, s_err, packet_encoded>> /\ toSnd' = Tail(toSnd)
        /\ s_pc' # "nack_raw"
    BY <1>5, ControlType DEF ReadBadReply, Go
  <2> QED
    BY <1>0, <2>1, <2>2, <2>3 DEF AcksOnly, PTYPE_ACK, PTYPE_NACK
<1>6. CASE HandleAck \/ HandleOther
  <2>1. PICK type : ReadReply(type)
    BY <1>6 DEF HandleAck, HandleOther
  <2>2. /\ toSnd' \in Seq(Acks) /\ s_err' = FALSE /\ s_pkt_ack'.TYPE # PTYPE_NACK
        /\ s_pkt_ack'.WINDOW \in {1, RCV_WINDOW}
        /\ s_pkt_ack'.TYPE = PTYPE_ACK => s_pkt_ack'.WINDOW = RCV_WINDOW
    BY <1>0, <2>1, AckAtHand
  <2>3. UNCHANGED <<toRcv, packet_encoded>> /\ s_pc' # "nack_raw"
    BY <1>6, ControlType DEF HandleAck, HandleOther, Go
  <2> QED
    BY <1>1, <2>2, <2>3 DEF AcksOnly
<1>7. CASE HandleNack
  BY <1>0, <1>7, AckAtHand DEF HandleNack
<1>8. CASE WriteRawStruct
  BY <1>0, <1>8 DEF WriteRawStruct, AcksOnly
<1>9. CASE RetransmissionTimer
  <2>1. PICK seg : seg = buffer[small_ind % s_window]
    OBVIOUS
  <2>2. seg \in Segments
    <3>1. small_ind \in Int /\ s_window \in WindowSizes \ {0}
      BY DEF TypeOK, SenderTypeOK, SndSlots
    <3>2. small_ind % s_window \in SndSlots
      BY <3>1, SenderSlot
    <3> QED
      BY <1>9, <2>1, <3>2 DEF RetransmissionTimer, TypeOK, SenderTypeOK
  <2>3. DataDatagram(seg) \in Untruncated
    BY <2>2, SegmentType, SegmentUntruncated DEF DataDatagram
  <2>4. toRcv' \in Seq(Untruncated)
    BY <1>1, <1>9, <2>1, <2>3, WriteUntruncated DEF RetransmissionTimer
  <2>5. /\ UNCHANGED <<toSnd, s_err, s_pkt_ack, packet_encoded>>
        /\ s_pc = "timer" /\ s_pc' # "nack_raw"
    BY <1>9, ControlType DEF RetransmissionTimer, Go
  <2> QED
    BY <1>0, <1>1, <2>4, <2>5, AcksOnlyKept DEF EndPhase, Done
<1>10. CASE EncodeEndOfFile
  <2>1. /\ packet_encoded' \in DatagramSet
        /\ packet_encoded'.TR = 0 /\ packet_encoded'.TYPE = PTYPE_DATA
    BY <1>10, DataDatagramType
    DEF EncodeEndOfFile, TypeOK, SenderTypeOK, Payloads, DataDatagram
  <2>2. packet_encoded' \in DataOrAcks
    BY <2>1, SegmentUntruncated DEF DataOrAcks
  <2> QED
    BY <1>0, <1>1, <1>10, <2>2, AcksOnlyKept DEF EncodeEndOfFile, EndPhase, netVars
<1>11. CASE EndWrite
  <2>1. toRcv' \in Seq(Untruncated)
    BY <1>1, <1>11, WriteUntruncated DEF EndWrite, DataOrAcks
  <2> QED
    BY <1>0, <1>1, <1>11, <2>1, AcksOnlyKept DEF EndWrite, EndPhase
<1>12. CASE EndRead
  <2>1. toSnd' \in Seq(Acks) /\ packet_encoded' \in DataOrAcks
    <3>1. CASE UNCHANGED <<toSnd, packet_encoded>>
      BY <1>1, <3>1
    <3>2. CASE toSnd # <<>> /\ packet_encoded' = Head(toSnd) /\ toSnd' = Tail(toSnd)
      <4>1. Head(toSnd) \in Acks /\ Tail(toSnd) \in Seq(Acks)
        BY <1>1, <3>2, HeadTailIn
      <4>2. Acks \subseteq DataOrAcks
        BY DEF Acks, DataOrAcks, Untruncated, PTYPE_ACK, PTYPE_DATA
      <4> QED
        BY <3>2, <4>1, <4>2
    <3> QED
      BY <1>12, <3>1, <3>2 DEF EndRead
  <2>2. UNCHANGED toRcv /\ s_err' = FALSE /\ s_pc' \in {"done", "end_select"}
    BY <1>12 DEF EndRead
  <2> QED
    BY <1>1, <2>1, <2>2 DEF AcksOnly, EndPhase, Done
<1> QED
  BY <1>0, <1>2, <1>3, <1>4, <1>5, <1>6, <1>7, <1>8, <1>9, <1>10, <1>11, <1>12
  DEF SenderStep

\* Data that decodes is not truncated, hence never answered by a NACK.
LEMMA NoTruncated ==
  ASSUME AcksOnly, ReceiveTruncated
  PROVE  FALSE
<1>1. Incoming \in Untruncated
  BY HeadTailIn DEF ReceiveTruncated, Receive, Incoming, AcksOnly
<1> QED
  BY <1>1 DEF ReceiveTruncated, IsData, DecodesOK, DecodeStatus, Untruncated

LEMMA AcksOnlyReceiver ==
  ASSUME "recrc" \notin Faults, TypeOK, AcksOnly, ReceiverStep, UNCHANGED sndVars
  PROVE  AcksOnly'
<1>1. ASSUME NEW seq \in SeqNums, SendAck(PTYPE_ACK, seq)
      PROVE  toSnd' \in Seq(Acks)
  <2>1. AckDatagram(PTYPE_ACK, seq) \in Acks
    <3>1. AckDatagram(PTYPE_ACK, seq) \in DatagramSet
      BY AckDatagramType DEF PTYPE_ACK, PTYPE_NACK
    <3> QED
      BY <3>1 DEF AckDatagram, Acks
  <2>2. Altered(AckDatagram(PTYPE_ACK, seq)) \subseteq Acks
    BY <2>1, AcksAltered DEF AckDatagram
  <2>3. CASE UNCHANGED toSnd
    BY <2>3 DEF AcksOnly
  <2>4. CASE Transmit(toSnd, toSnd', AckDatagram(PTYPE_ACK, seq))
    <3>1. faults \in 0 .. MaxFaults /\ toSnd \in Seq(Acks)
      BY DEF TypeOK, NetworkTypeOK, AcksOnly
    <3> QED
      BY <2>1, <2>2, <2>4, <3>1, TransmitIn
  <2> QED
    BY <1>1, <2>3, <2>4 DEF SendAck
<1>2. r_seq_exp \in SeqNums
  BY DEF TypeOK, ReceiverTypeOK
<1>3. toSnd' \in Seq(Acks)
  <2>1. CASE AcknowledgeSegment \/ AcknowledgeEndOfFile
    BY <1>1, <1>2, <2>1 DEF AcknowledgeSegment, AcknowledgeEndOfFile
  <2>2. CASE ReceiveTruncated
    BY <2>2, NoTruncated
  <2>3. CASE UNCHANGED toSnd
    BY <2>3 DEF AcksOnly
  <2> QED
    BY <2>1, <2>2, <2>3
    DEF ReceiverStep, Bind, WaitForClient, ReceiveError, ReceiveInvalid,
        ReceiveEndOfFile, ReceiveSegment, WriteSlot, Close, netVars
<1>4. toRcv' \in Seq(Untruncated)
  <2>1. CASE UNCHANGED toRcv
    BY <2>1 DEF AcksOnly
  <2>2. CASE toRcv # <<>> /\ toRcv' = Tail(toRcv)
    BY <2>2, HeadTailIn DEF AcksOnly
  <2> QED
    BY <2>1, <2>2
    DEF ReceiverStep, Bind, WaitForClient, ReceiveError, Receive, ReceiveInvalid,
        ReceiveTruncated, ReceiveEndOfFile, ReceiveSegment, WriteSlot,
        AcknowledgeSegment, AcknowledgeEndOfFile, Close, netVars
<1>5. UNCHANGED <<s_pc, s_pkt_ack, packet_encoded, s_err>>
  BY DEF sndVars, ReceiverStep, Bind, WaitForClient, ReceiveError, ReceiveInvalid,
         ReceiveTruncated, ReceiveEndOfFile, ReceiveSegment, WriteSlot,
         AcknowledgeSegment, AcknowledgeEndOfFile, Close, netVars
<1>6. packet_encoded' \in DataOrAcks /\ s_pc' # "nack_raw"
  BY <1>5 DEF AcksOnly
<1> QED
  BY <1>3, <1>4, <1>5, <1>6, AcksOnlyKept

(***************************************************************************)
(* The sender's table.                                                     *)
(***************************************************************************)

\* A step that stores no segment.
LEMMA TableKept ==
  ASSUME TypeOK, TableFilled, UNCHANGED <<seq_ind, s_seq_exp, buffer>>,
         UNCHANGED <<s_window, small_seq>> \/ s_window' = RCV_WINDOW,
         endFile' = 0 /\ buffer_empty' = 0 => endFile = 0 /\ buffer_empty = 0,
         s_pc' \in {"select", "file"} => endFile' = 0,
         s_pc' = "file" => FileSelected',
         s_pc' = "timer" => FromFile,
         s_pc' = "timer" \/ (s_pc' = "socket" /\ sent' = 0) => TimerReady'
  PROVE  TableFilled'
<1>1. /\ s_seq_exp' <= seq_ind'
      /\ s_window' = RCV_WINDOW
           \/ /\ s_window' = 1 /\ small_seq' = 0
              /\ seq_ind' <= 1 /\ s_seq_exp' = seq_ind'
      /\ \A i \in Slots : i < seq_ind' => buffer'[i] # Uninit
  BY DEF TableFilled
<1>2. endFile' = 0 /\ buffer_empty' = 0 => seq_ind' = 0
  BY DEF TableFilled
<1> QED
  BY <1>1, <1>2 DEF TableFilled

\* The file is not read before the timer may expire: the window is full.
LEMMA WindowFull ==
  ASSUME TypeOK, TableFilled, s_pc = "select", FileSelected => ~FromFile
  PROVE  TimerReady
<1>1. CASE FromFile
  <2>1. s_seq_exp - small_seq >= s_window
    <3>1. ~isNotFull
      BY <1>1 DEF TableFilled, FileSelected
    <3>2. s_seq_exp \in Int /\ small_seq \in Int /\ s_window \in Int
      BY SeqModAssumption, WindowAssumption
      DEF TypeOK, SenderTypeOK, SeqNums, WindowSizes, SeqModAssumption, WindowAssumption
    <3> QED
      BY <3>1, <3>2 DEF isNotFull
  <2>2. /\ s_seq_exp \in Nat /\ small_seq \in Nat /\ seq_ind \in Nat
        /\ s_window \in {1, RCV_WINDOW} /\ RCV_WINDOW \in 1 .. 7
    BY SeqModAssumption, WindowAssumption, SenderAssumption
    DEF TypeOK, SenderTypeOK, SeqNums, SeqModAssumption, WindowAssumption,
        SenderAssumption, TableFilled
  <2>3. seq_ind >= s_window
    <3>1. s_seq_exp <= seq_ind
      BY DEF TableFilled
    <3> QED
      BY <2>1, <2>2, <3>1
  <2>4. CASE s_window = RCV_WINDOW
    BY <2>3, <2>4 DEF TimerReady
  <2>5. CASE s_window = 1
    BY <2>3, <2>5 DEF TimerReady
  <2> QED
    BY <2>2, <2>4, <2>5
<1>2. CASE ~FromFile
  BY <1>2 DEF TimerReady
<1> QED
  BY <1>1, <1>2

LEMMA ControlTimer ==
  ASSUME NEW end, NEW new
  PROVE  /\ AfterSocket(end, new) = "timer" => FromFile /\ new = 0
         /\ AfterFile(end, new) = "timer" => FromFile /\ new = 0
         /\ AfterSocket(end, new) # "socket"
         /\ LoopHead(end) \notin {"timer", "socket"}
         /\ AfterReply(end) \notin {"timer", "socket"}
BY DEF AfterSocket, AfterFile, AfterReply, LoopHead
\* The segment goes to the next free slot, or to one that is stored already.
LEMMA ReadSegmentTable ==
  ASSUME TypeOK, TableFilled, ReadSegment
  PROVE  TableFilled'
<1>1. /\ s_seq_exp \in Nat /\ small_seq \in Nat /\ seq_ind \in Nat
      /\ s_window \in {1, RCV_WINDOW} /\ RCV_WINDOW \in 1 .. 7
      /\ SEQ_MOD \in Nat \ {0} /\ s_seq_exp < SEQ_MOD
  BY SeqModAssumption, WindowAssumption, SenderAssumption
  DEF TypeOK, SenderTypeOK, SeqNums, SeqModAssumption, WindowAssumption,
      SenderAssumption, TableFilled
<1>2. /\ seq_ind' = seq_ind + 1 /\ buffer_empty' = 1
      /\ s_seq_exp' = (s_seq_exp + 1) % SEQ_MOD
      /\ UNCHANGED <<endFile, small_seq, s_window>>
      /\ s_pc' = AfterFile(endFile, 1) /\ sent' = (IF s_pc' = "socket" THEN 1 ELSE 0)
  BY DEF ReadSegment, Go
<1>3. endFile = 0 /\ FileSelected
  BY DEF ReadSegment, TableFilled, FileSelected
<1>4. s_seq_exp' <= s_seq_exp + 1 /\ (s_seq_exp = 0 /\ seq_ind = 0 => s_seq_exp' <= 1)
  <2>1. (s_seq_exp + 1) % SEQ_MOD <= s_seq_exp + 1
    BY <1>1, ModAtMost
  <2> QED
    BY <1>1, <1>2, <2>1
<1>5. s_window = RCV_WINDOW \/ seq_ind = 0
  <2>1. CASE s_window # RCV_WINDOW
    <3>1. s_window = 1 /\ small_seq = 0 /\ s_seq_exp = seq_ind
      BY <1>1, <2>1 DEF TableFilled
    <3>2. seq_ind = 0 \/ s_seq_exp < 1
      <4>1. CASE buffer_empty = 0
        BY <1>3, <4>1 DEF TableFilled
      <4>2. CASE s_seq_exp - small_seq < s_window
        BY <1>1, <3>1, <4>2
      <4> QED
        BY <1>3, <4>1, <4>2 DEF FileSelected, isNotFull
    <3> QED
      BY <1>1, <3>1, <3>2
  <2> QED
    BY <2>1
<1>6. s_window' = RCV_WINDOW
        \/ /\ s_window' = 1 /\ small_seq' = 0
           /\ seq_ind' <= 1 /\ s_seq_exp' = seq_ind'
  <2>1. CASE s_window # RCV_WINDOW
    <3>1. s_window = 1 /\ small_seq = 0 /\ s_seq_exp = 0 /\ seq_ind = 0
      BY <1>1, <1>5, <2>1 DEF TableFilled
    <3>2. CASE SEQ_MOD = 1
      BY <1>1, <2>1, <3>2, WindowAssumption DEF WindowAssumption
    <3>3. CASE SEQ_MOD # 1
      <4>1. (0 + 1) % SEQ_MOD = 0 + 1
        BY <1>1, <3>3, ModSmall
      <4> QED
        BY <1>2, <3>1, <4>1
    <3> QED
      BY <3>2, <3>3
  <2> QED
    BY <1>2, <2>1
<1>7. \A i \in Slots : i < seq_ind' => buffer'[i] # Uninit
  <2> DEFINE j == seq_ind % s_window
             seg == Segment(s_seq_exp, seq_ind + 1)
  <2>1. /\ buffer' = [buffer EXCEPT ![j] = seg] /\ DOMAIN buffer = SndSlots
        /\ j \in Slots /\ Slots \subseteq SndSlots
    <3>1. seq_ind \in Int
      BY <1>1
    <3>2. j \in Slots
      BY <1>1, <3>1, WindowSlot
    <3>3. Slots \subseteq SndSlots
      BY WindowAssumption DEF WindowAssumption, Slots, SndSlots
    <3>4. buffer' = [buffer EXCEPT ![j] = seg] /\ DOMAIN buffer = SndSlots
      BY DEF ReadSegment, TypeOK, SenderTypeOK
    <3> QED
      BY <3>2, <3>3, <3>4
  <2>2. seg # Uninit
    <3>1. seg.PAYLOAD = seq_ind + 1 /\ Uninit.PAYLOAD = 0
      BY DEF Segment, Uninit, NoData
    <3> HIDE DEF seg
    <3> QED
      BY <1>1, <3>1
  <2>3. \A i \in Slots : i < seq_ind + 1 => i < seq_ind \/ i = j
    <3>1. ASSUME NEW i \in Slots, i = seq_ind PROVE seq_ind % s_window = seq_ind
      BY <1>1, <1>5, <3>1, ModSmall DEF Slots
    <3> HIDE DEF j
    <3> QED
      BY <1>1, <3>1 DEF Slots, j
  <2> HIDE DEF j, seg
  <2> QED
    BY <1>2, <2>1, <2>2, <2>3 DEF TableFilled
<1>8. /\ s_pc' # "file" /\ (s_pc' = "select" => endFile' = 0)
      /\ s_pc' # "timer" /\ (s_pc' = "socket" => sent' = 1)
  BY <1>2, <1>3, ControlEnd, ControlTimer
<1>9. s_seq_exp' <= seq_ind'
  <2>1. s_seq_exp <= seq_ind
    BY DEF TableFilled
  <2> QED
    BY <1>1, <1>2, <1>4, <2>1
<1> QED
  BY <1>2, <1>6, <1>7, <1>8, <1>9 DEF TableFilled

\* The file fills the table before it ends.
FillsTable == FromFile => NSegments >= RCV_WINDOW

LEMMA SenderStepTable ==
  ASSUME NoStaleDamage, FillsTable, TypeOK, TableInvariant,
         \/ \E sfd \in BOOLEAN : Select(sfd) \/ EndSelect(sfd)
         \/ SelectTimeout \/ SenderStep
  PROVE  TableFilled'
<1>1. endFile \in {0, 1} /\ buffer_empty \in {0, 1} /\ sent \in {0, 1}
  BY DEF TypeOK, SenderTypeOK
<1>2. TableFilled /\ AcksOnly
  BY DEF TableInvariant
<1>3. CASE \E sfd \in BOOLEAN : Select(sfd)
  <2>1. /\ UNCHANGED protocolVars /\ s_pc = "select" /\ s_pc' \in {"file", "socket"}
        /\ (s_pc' = "file" => FileSelected)
        /\ (s_pc' = "socket" => (FileSelected => ~FromFile))
    BY <1>3 DEF Select
  <2>2. s_pc' = "file" => FileSelected'
    BY <2>1 DEF FileSelected, isNotFull, protocolVars
  <2>3. s_pc' = "socket" => TimerReady'
    BY <1>2, <2>1, WindowFull DEF TimerReady, protocolVars
  <2> QED
    BY <1>2, <2>1, <2>2, <2>3, TableKept DEF TableFilled, protocolVars
<1>4. CASE SelectTimeout
  <2>1. UNCHANGED protocolVars /\ s_pc' = AfterSocket(endFile, 0)
    BY <1>4 DEF SelectTimeout
  <2>2. TimerReady'
    BY <1>2, <1>4, <2>1, WindowFull DEF SelectTimeout, TimerReady, protocolVars
  <2> QED
    BY <1>1, <1>2, <2>1, <2>2, ControlEnd, ControlTimer, TableKept DEF protocolVars
<1>5. CASE (\E sfd \in BOOLEAN : EndSelect(sfd)) \/ WriteRefused \/ ReadFileError
           \/ EncodeEndOfFile \/ EndWrite \/ EndRead
  <2>1. UNCHANGED protocolVars /\ s_pc' \notin {"select", "file", "timer", "socket"}
    BY <1>5
    DEF EndSelect, WriteRefused, ReadFileError, EncodeEndOfFile, EndWrite, EndRead
  <2> QED
    BY <1>2, <2>1, TableKept DEF protocolVars
<1>6. CASE ReadSegment
  BY <1>2, <1>6, ReadSegmentTable
<1>7. CASE ReadEndOfFile
  <2>1. /\ UNCHANGED <<seq_ind, s_seq_exp, buffer, small_seq, s_window>>
        /\ endFile' = 1 /\ s_pc' = AfterFile(1, 0) /\ seq_ind = NSegments
    BY <1>7 DEF ReadEndOfFile, AtEndOfFile, Go
  <2>2. TimerReady'
    BY <2>1 DEF TimerReady, FillsTable
  <2>3. s_pc' # "file" /\ s_pc' # "select" /\ (s_pc' = "timer" => FromFile)
    BY <2>1, ControlEnd, ControlTimer
  <2> QED
    BY <1>2, <2>1, <2>2, <2>3, TableKept
<1>8. CASE ReadBadReply
  <2>1. UNCHANGED protocolVars /\ s_pc = "socket" /\ s_pc' = AfterSocket(endFile, sent)
    BY <1>8 DEF ReadBadReply, Go
  <2>2. s_pc' # "socket" /\ (s_pc' = "timer" => FromFile /\ sent = 0)
    BY <2>1, ControlTimer
  <2>3. s_pc' = "timer" => TimerReady'
    BY <1>2, <2>1, <2>2 DEF TableFilled, TimerReady, protocolVars
  <2>4. s_pc' # "file" /\ (s_pc' = "select" => endFile = 0)
    BY <1>1, <2>1, ControlEnd
  <2> QED
    BY <1>2, <2>1, <2>2, <2>3, <2>4, TableKept DEF protocolVars
<1>9. CASE RetransmissionTimer
  <2>1. UNCHANGED protocolVars /\ s_pc' = LoopHead(endFile)
    BY <1>9 DEF RetransmissionTimer, Go
  <2> QED
    BY <1>1, <1>2, <2>1, ControlEnd, ControlTimer, TableKept DEF protocolVars
<1>10. CASE HandleAck
  <2>1. /\ UNCHANGED <<seq_ind, s_seq_exp, buffer, endFile>>
        /\ s_pc' = AfterReply(endFile)
        /\ buffer_empty' = buffer_empty \/ endFile = 1
    BY <1>10 DEF HandleAck, Go
  <2>2. s_window' = RCV_WINDOW
    <3>1. ReadReply(PTYPE_ACK)
      BY <1>10 DEF HandleAck
    <3>2. Reply.WINDOW = RCV_WINDOW /\ s_window \in {1, RCV_WINDOW}
      BY <1>2, <3>1, AckAtHand DEF TableFilled
    <3> QED
      BY <3>1, <3>2, ReplyWindow
  <2>3. s_pc' \notin {"file", "timer", "socket"} /\ (s_pc' = "select" => endFile = 0)
    BY <1>1, <2>1, ControlEnd, ControlTimer
  <2> QED
    BY <1>2, <2>1, <2>2, <2>3, TableKept
<1>11. CASE HandleOther
  <2>1. /\ UNCHANGED <<seq_ind, s_seq_exp, buffer, endFile, buffer_empty, small_seq>>
        /\ s_pc' = AfterReply(endFile)
    BY <1>11 DEF HandleOther, Go
  <2>2. s_window' = s_window \/ s_window' = RCV_WINDOW
    <3>1. PICK type : ReadReply(type)
      BY <1>11 DEF HandleOther
    <3>2. Reply.WINDOW \in {1, RCV_WINDOW} /\ s_window \in {1, RCV_WINDOW}
      BY <1>2, <3>1, AckAtHand DEF TableFilled
    <3> QED
      BY <3>1, <3>2, ReplyWindow
  <2>3. s_pc' \notin {"file", "timer", "socket"} /\ (s_pc' = "select" => endFile = 0)
    BY <1>1, <2>1, ControlEnd, ControlTimer
  <2> QED
    BY <1>2, <2>1, <2>2, <2>3, TableKept
<1>12. CASE HandleNack \/ WriteRawStruct
  <2>1. s_pc # "nack_raw"
    BY <1>2 DEF AcksOnly
  <2> QED
    BY <1>2, <1>12, <2>1, AckAtHand DEF HandleNack, WriteRawStruct
<1>13. CASE RetransmitUninitialised \/ NackUninitialised
  BY <1>13, UseStored
<1> QED
  BY <1>3, <1>4, <1>5, <1>6, <1>7, <1>8, <1>9, <1>10, <1>11, <1>12, <1>13
  DEF SenderStep

LEMMA TableInit == Init => TableInvariant
<1> SUFFICES ASSUME Init PROVE TableInvariant
  OBVIOUS
<1>1. TypeOK
  BY TypeInit
<1>2. /\ s_pc = "select" /\ endFile = 0 /\ small_seq = 0 /\ seq_ind = 0
      /\ s_seq_exp = 0 /\ undef = FALSE /\ toRcv = <<>> /\ toSnd = <<>>
      /\ packet_encoded = DataDatagram(Uninit) /\ s_window = 1 /\ s_err = FALSE
      /\ s_pkt_ack.TYPE = PTYPE_DATA /\ s_pkt_ack.WINDOW = 1
  BY DEF Init, SenderInit, NetworkInit
<1>3. packet_encoded \in DataOrAcks
  <2>1. packet_encoded \in DatagramSet
    BY <1>1 DEF TypeOK, SenderTypeOK
  <2> QED
    BY <1>2, <2>1 DEF DataDatagram, DataOrAcks, Untruncated
<1>4. AcksOnly
  BY <1>2, <1>3 DEF AcksOnly, PTYPE_DATA, PTYPE_ACK, PTYPE_NACK
<1>5. TableFilled
  BY <1>2 DEF TableFilled, Slots
<1> QED
  BY <1>2, <1>4, <1>5 DEF TableInvariant

LEMMA TableNext ==
  /\ "recrc" \notin Faults /\ NoStaleDamage /\ FillsTable
  /\ TypeOK /\ TableInvariant /\ [Next]_vars
  => TableInvariant'
<1> SUFFICES ASSUME "recrc" \notin Faults, NoStaleDamage, FillsTable, TypeOK,
                    TableInvariant, [Next]_vars
             PROVE  TableInvariant'
  OBVIOUS
<1>0. ~undef /\ AcksOnly /\ TableFilled
  BY DEF TableInvariant
<1>1. CASE SenderSelect \/ SenderTimeout \/ SenderEndSelect \/ SenderProceeds
  <2>1. \/ \E sfd \in BOOLEAN : Select(sfd) \/ EndSelect(sfd)
        \/ SelectTimeout \/ SenderStep
    BY <1>1 DEF SenderSelect, SenderTimeout, SenderEndSelect, SenderProceeds
  <2>2. ~undef'
    <3>1. ~RetransmitUninitialised /\ ~NackUninitialised
      BY UseStored
    <3> QED
      BY <1>0, <2>1, <3>1
      DEF SenderStep, Select, EndSelect, SelectTimeout, ReadSegment, ReadEndOfFile,
          ReadFileError, WriteRefused, ReadBadReply, HandleAck, HandleNack,
          WriteRawStruct, HandleOther, RetransmissionTimer, EncodeEndOfFile,
          EndWrite, EndRead
  <2> QED
    BY <2>1, <2>2, AcksOnlySender, SenderStepTable DEF TableInvariant
<1>2. CASE UNCHANGED sndVars /\ AcksOnly'
  <2>1. /\ UNCHANGED <<s_pc, sent, endFile, buffer_empty, small_seq, seq_ind,
                       s_seq_exp, s_window, buffer, undef>>
    BY <1>2 DEF sndVars, protocolVars
  <2>2. s_pc' = "file" => FileSelected'
    BY <1>0, <2>1 DEF TableFilled, FileSelected, isNotFull
  <2>3. (s_pc' = "timer" \/ (s_pc' = "socket" /\ sent' = 0)) => TimerReady'
    BY <1>0, <2>1 DEF TableFilled, TimerReady
  <2>4. TableFilled'
    BY <1>0, <2>1, <2>2, <2>3, TableKept DEF TableFilled
  <2> QED
    BY <1>0, <1>2, <2>1, <2>4 DEF TableInvariant
<1>3. CASE ReceiverProceeds
  BY <1>0, <1>2, <1>3, AcksOnlyReceiver DEF ReceiverProceeds
<1>4. CASE ReceiverDies \/ UNCHANGED vars
  <2>1. UNCHANGED sndVars /\ UNCHANGED <<toRcv, toSnd, s_err>>
    BY <1>4 DEF ReceiverDies, ReceiverKilled, vars, netVars
  <2> QED
    BY <1>0, <1>2, <2>1 DEF AcksOnly, sndVars
<1>5. CASE Unreachable
  <2>1. UNCHANGED sndVars
    BY <1>5 DEF Unreachable, SenderUnreachable, ReceiverUnreachable
  <2>2. toSnd' \in Seq(Acks) /\ toRcv' \in Seq(Untruncated)
    BY <1>0, <1>5, HeadTailIn
    DEF Unreachable, SenderUnreachable, ReceiverUnreachable, AcksOnly
  <2>3. s_err' => "icmp" \in Faults
    <3>1. CASE s_err' = s_err
      BY <1>0, <3>1, Zenon DEF AcksOnly
    <3>2. CASE s_err' = ("icmp" \in Faults)
      BY <3>2, Zenon
    <3> QED
      BY <1>5, <3>1, <3>2, Zenon
      DEF Unreachable, SenderUnreachable, ReceiverUnreachable
  <2>4. UNCHANGED <<s_pc, s_pkt_ack, packet_encoded>>
    BY <2>1 DEF sndVars
  <2>5. AcksOnly'
    BY <1>0, <2>2, <2>3, <2>4, Zenon DEF AcksOnly
  <2> QED
    BY <1>2, <2>1, <2>5
<1> QED
  BY <1>1, <1>3, <1>4, <1>5 DEF Next, Terminated

\* If no router recomputes checksums, answers are not damaged where read() may
\* fail, and the file has at least as many segments as the window, the sender
\* never encodes a struct it did not store (client.c:109, 302, 345), even when
\* sequence numbers wrap around and whatever else is lost, damaged, reordered or
\* fails.
THEOREM NothingUninitialised ==
  ASSUME "recrc" \notin Faults, NoStaleDamage, FillsTable
  PROVE  Spec => []NoUninitialisedRead
<1>1. TableInvariant => NoUninitialisedRead
  BY DEF TableInvariant, NoUninitialisedRead
<1> QED
  BY <1>1, TableInit, TableNext, TypeCorrect, PTL DEF Spec
-----------------------------------------------------------------------------
(***************************************************************************)
(* The oldest segment, in a network that keeps the order of datagrams.     *)
(***************************************************************************)
LEMMA OrderedTail ==
  ASSUME NEW low \in Int, NEW high \in Int, NEW ch, OrderedAcks(ch, low, high),
         ch # <<>>
  PROVE  /\ Head(ch) \in IntactAcks
         /\ low <= Head(ch).SEQNUM /\ Head(ch).SEQNUM <= high
         /\ OrderedAcks(Tail(ch), Head(ch).SEQNUM, high)
<1>1. ch \in Seq(IntactAcks) /\ Len(ch) \in Nat \ {0} /\ Head(ch) = ch[1]
  BY DEF OrderedAcks
<1>2. /\ Tail(ch) \in Seq(IntactAcks) /\ Len(Tail(ch)) = Len(ch) - 1
      /\ \A i \in 1 .. Len(ch) - 1 : Tail(ch)[i] = ch[i + 1]
  BY <1>1
<1>3. \A i \in 1 .. Len(ch) - 1 : i + 1 \in 1 .. Len(ch) /\ 1 < i + 1
  BY <1>1
<1>4. 1 \in 1 .. Len(ch) /\ Head(ch) \in IntactAcks
  BY <1>1
<1>5. \A i \in 1 .. Len(Tail(ch)) :
        Head(ch).SEQNUM <= Tail(ch)[i].SEQNUM /\ Tail(ch)[i].SEQNUM <= high
  BY <1>1, <1>2, <1>3, <1>4 DEF OrderedAcks
<1>6. ASSUME NEW i \in 1 .. Len(Tail(ch)), NEW j \in 1 .. Len(Tail(ch)), i < j
      PROVE  Tail(ch)[i].SEQNUM <= Tail(ch)[j].SEQNUM
  <2>1. i + 1 \in 1 .. Len(ch) /\ j + 1 \in 1 .. Len(ch) /\ i + 1 < j + 1
    BY <1>1, <1>2, <1>6
  <2>2. Tail(ch)[i] = ch[i + 1] /\ Tail(ch)[j] = ch[j + 1]
    BY <1>2
  <2> QED
    BY <2>1, <2>2 DEF OrderedAcks
<1> QED
  BY <1>1, <1>2, <1>4, <1>5, <1>6 DEF OrderedAcks

LEMMA OrderedPush ==
  ASSUME NEW low \in Int, NEW high \in Int, NEW ch, OrderedAcks(ch, low, high),
         NEW d \in IntactAcks, d.SEQNUM = high, low <= high
  PROVE  OrderedAcks(Push(ch, d), low, high)
<1>1. ch \in Seq(IntactAcks) /\ Len(ch) \in Nat
  BY DEF OrderedAcks
<1>2. CASE Push(ch, d) = Append(ch, d)
  <2> DEFINE q == Append(ch, d)
  <2>1. /\ q \in Seq(IntactAcks) /\ Len(q) = Len(ch) + 1 /\ q[Len(ch) + 1] = d
        /\ \A i \in 1 .. Len(ch) : q[i] = ch[i]
    BY <1>1
  <2> HIDE DEF q
  <2>2. \A i \in 1 .. Len(q) : low <= q[i].SEQNUM /\ q[i].SEQNUM <= high
    <3>1. \A i \in 1 .. Len(q) : i \in 1 .. Len(ch) \/ i = Len(ch) + 1
      BY <1>1, <2>1
    <3> QED
      BY <2>1, <3>1 DEF OrderedAcks
  <2>3. ASSUME NEW i \in 1 .. Len(q), NEW j \in 1 .. Len(q), i < j
        PROVE  q[i].SEQNUM <= q[j].SEQNUM
    <3>1. i \in 1 .. Len(ch) /\ (j \in 1 .. Len(ch) \/ j = Len(ch) + 1)
      BY <1>1, <2>1, <2>3
    <3>2. CASE j \in 1 .. Len(ch)
      BY <2>1, <2>3, <3>1, <3>2 DEF OrderedAcks
    <3>3. CASE j = Len(ch) + 1
      BY <2>1, <2>2, <3>3
    <3> QED
      BY <3>1, <3>2, <3>3
  <2>4. OrderedAcks(q, low, high)
    BY <2>1, <2>2, <2>3 DEF OrderedAcks
  <2> QED
    BY <1>2, <2>4 DEF q
<1>3. CASE Push(ch, d) = ch
  BY <1>3
<1> QED
  BY <1>2, <1>3 DEF Push

\* An ACK for the highest number so far is put behind the others, once, twice
\* or not at all.
LEMMA OrderedTransmit ==
  ASSUME KeepsOrder, NEW low \in Int, NEW high \in SeqNums, low <= high,
         OrderedAcks(toSnd, low, high), SendAck(PTYPE_ACK, high)
  PROVE  OrderedAcks(toSnd', low, high)
<1> DEFINE d == AckDatagram(PTYPE_ACK, high)
<1>1. d \in IntactAcks /\ d.SEQNUM = high /\ Length(d) = 0 /\ high \in Int
  <2>1. d \in DatagramSet /\ high \in Int
    BY AckDatagramType DEF PTYPE_ACK, PTYPE_NACK, SeqNums
  <2> QED
    BY <2>1 DEF AckDatagram, IntactAcks, Acks, Length
<1> HIDE DEF d
<1>2. Altered(d) = {}
  BY <1>1 DEF KeepsOrder, Altered, Truncated
<1>3. OrderedAcks(Push(toSnd, d), low, high)
  BY <1>1, OrderedPush
<1>4. OrderedAcks(Push(Push(toSnd, d), d), low, high)
  BY <1>1, <1>3, OrderedPush
<1>5. CASE UNCHANGED toSnd
  BY <1>5
<1>6. CASE Transmit(toSnd, toSnd', d)
  <2>1. toSnd' \in {toSnd, Push(toSnd, d), Push(Push(toSnd, d), d)}
    BY <1>2, <1>6 DEF Transmit, Misdelivered, KeepsOrder
  <2> QED
    BY <1>3, <1>4, <2>1
<1> QED
  BY <1>5, <1>6 DEF SendAck, d

LEMMA OrderedRange ==
  ASSUME NEW low \in Int, NEW high \in Int, NEW low1 \in Int, NEW high1 \in Int,
         low1 <= low, high <= high1, NEW ch, OrderedAcks(ch, low, high)
  PROVE  OrderedAcks(ch, low1, high1)
<1>1. \A i \in 1 .. Len(ch) : ch[i].SEQNUM \in Int
  BY DEF OrderedAcks, IntactAcks, Acks, DatagramSet, SeqNums
<1> QED
  BY <1>1 DEF OrderedAcks

LEMMA SentAltered ==
  ASSUME NEW n, NEW d \in SentUpTo(n)
  PROVE  Altered(d) \subseteq SentUpTo(n)
<1>1. d \in DatagramSet /\ d.PAYLOAD \in 0 .. n
  BY DEF SentUpTo
<1>2. Altered(d) \subseteq DatagramSet
  BY <1>1, AlteredType
<1>3. \A e \in Damaged(d) : e.PAYLOAD = d.PAYLOAD
  <2>1. [d EXCEPT !.CRC = "payload"].PAYLOAD = d.PAYLOAD
    BY <1>1 DEF DatagramSet
  <2> QED
    BY <1>1, <2>1, DamagedCases
<1>4. \A crc \in {"hdr", "ok"} : \A e \in Truncated(d, crc) : e.PAYLOAD = d.PAYLOAD
  <2>1. \A crc \in {"hdr", "ok"} : [d EXCEPT !.TR = 1, !.CRC = crc].PAYLOAD = d.PAYLOAD
    BY <1>1 DEF DatagramSet
  <2> QED
    BY <2>1 DEF Truncated
<1>5. \A e \in Altered(d) : e.PAYLOAD = d.PAYLOAD
  BY <1>3, <1>4 DEF Altered
<1> QED
  BY <1>1, <1>2, <1>5 DEF SentUpTo

LEMMA OldestNumbers ==
  ASSUME TypeOK
  PROVE  /\ small_seq \in Nat /\ seq_ind \in Nat /\ r_seq_exp \in Nat
         /\ small_seq < SEQ_MOD /\ r_seq_exp < SEQ_MOD
         /\ SEQ_MOD \in Nat \ {0} /\ RCV_WINDOW \in 1 .. 7
         /\ seq_ind \in 0 .. NSegments /\ NSegments \in Nat
         /\ s_window \in WindowSizes \ {0} /\ small_ind \in SndSlots
BY SeqModAssumption, WindowAssumption, SenderAssumption
DEF TypeOK, SenderTypeOK, ReceiverTypeOK, SeqNums, SeqModAssumption,
    WindowAssumption, SenderAssumption

LEMMA SentWrite ==
  ASSUME TypeOK, NEW n, toRcv \in Seq(SentUpTo(n)),
         NEW d \in SentUpTo(n), Write(d)
  PROVE  toRcv' \in Seq(SentUpTo(n))
<1>1. Altered(d) \subseteq SentUpTo(n)
  BY SentAltered
<1>2. faults \in 0 .. MaxFaults /\ Transmit(toRcv, toRcv', d)
  BY DEF TypeOK, NetworkTypeOK, Write
<1> QED
  BY <1>1, <1>2, TransmitIn

\* A step of the sender that neither stores a segment nor handles an ACK.
LEMMA OldestKept ==
  ASSUME OldestSound,
         UNCHANGED <<small_seq, small_ind, seq_ind, buffer, r_seq_exp, buffer_payload>>,
         OrderedAcks(toSnd', small_seq, r_seq_exp),
         toRcv' \in Seq(SentUpTo(seq_ind)), packet_encoded' \in SentUpTo(seq_ind),
         s_pc' \notin EndPhase /\ s_pkt_ack'.TYPE = PTYPE_ACK
           => s_pkt_ack'.SEQNUM = small_seq
  PROVE  OldestSound'
<1>1. RetainedFrom(small_seq)'
  BY DEF OldestSound, RetainedFrom
<1> QED
  BY <1>1 DEF OldestSound

\* The window is at most the receiver's, and counted from small_seq.
LEMMA StoreInWindow ==
  ASSUME TypeOK, TableFilled, OldestSound, s_seq_exp = seq_ind, ReadSegment
  PROVE  seq_ind + 1 <= small_seq + RCV_WINDOW /\ (s_window = RCV_WINDOW \/ seq_ind = 0)
<1>1. endFile = 0 /\ FileSelected
  BY DEF ReadSegment, TableFilled, FileSelected
<1>2. seq_ind = 0 \/ seq_ind - small_seq < s_window
  BY <1>1 DEF TableFilled, FileSelected, isNotFull
<1>3. s_window = RCV_WINDOW \/ (small_seq = 0 /\ s_window = 1)
  BY DEF TableFilled
<1> QED
  BY <1>2, <1>3, OldestNumbers

LEMMA ReadSegmentOldest ==
  ASSUME NoWrap, KeepsOrder, TypeOK, TableFilled, OldestSound, s_seq_exp = seq_ind,
         ReadSegment, UNCHANGED rcvVars
  PROVE  OldestSound'
<1> DEFINE seg == Segment(s_seq_exp, seq_ind + 1)
<1>1. /\ Write(DataDatagram(seg)) /\ seq_ind' = seq_ind + 1 /\ seq_ind < NSegments
      /\ buffer' = [buffer EXCEPT ![seq_ind % s_window] = seg]
      /\ UNCHANGED <<toSnd, small_seq, small_ind, s_pkt_ack, packet_encoded>>
      /\ UNCHANGED <<r_seq_exp, buffer_payload>> /\ s_pc = "file"
  BY DEF ReadSegment, rcvVars
<1>2. seq_ind + 1 <= small_seq + RCV_WINDOW /\ (s_window = RCV_WINDOW \/ seq_ind = 0)
  BY StoreInWindow
<1>3. SentUpTo(seq_ind) \subseteq SentUpTo(seq_ind + 1)
  BY OldestNumbers DEF SentUpTo
<1>4. toRcv' \in Seq(SentUpTo(seq_ind'))
  <2>1. toRcv \in Seq(SentUpTo(seq_ind + 1))
    BY <1>3, SeqMonotone DEF OldestSound
  <2>2. DataDatagram(seg) \in SentUpTo(seq_ind + 1)
    <3>1. s_seq_exp \in SeqNums /\ seq_ind + 1 \in Payloads
      BY <1>1, OldestNumbers DEF TypeOK, SenderTypeOK, Payloads
    <3>2. DataDatagram(seg) \in DatagramSet
      BY <3>1, DataDatagramType
    <3>3. DataDatagram(seg).PAYLOAD = seq_ind + 1
      BY DEF DataDatagram, Segment
    <3> HIDE DEF seg
    <3> QED
      BY <3>2, <3>3, OldestNumbers DEF SentUpTo
  <2> QED
    BY <1>1, <2>1, <2>2, SentWrite
<1>5. packet_encoded' \in SentUpTo(seq_ind')
  BY <1>1, <1>3 DEF OldestSound
<1>6. /\ \A i \in SndSlots : buffer'[i].PAYLOAD \in 0 .. seq_ind'
      /\ \A i \in Slots : buffer_payload'[i] \in 0 .. seq_ind'
  <2>1. DOMAIN buffer = SndSlots /\ seg.PAYLOAD = seq_ind + 1
    BY DEF TypeOK, SenderTypeOK, Segment
  <2> HIDE DEF seg
  <2>2. \A i \in SndSlots : buffer'[i] = buffer[i] \/ buffer'[i] = seg
    BY <1>1, <2>1
  <2>3. /\ \A i \in SndSlots : buffer[i].PAYLOAD \in 0 .. seq_ind + 1
        /\ \A i \in Slots : buffer_payload[i] \in 0 .. seq_ind + 1
    BY OldestNumbers DEF OldestSound
  <2> QED
    BY <1>1, <2>1, <2>2, <2>3, OldestNumbers
<1>7. RetainedFrom(small_seq)'
  <2>1. PICK n \in Nat : n = small_seq
    BY OldestNumbers
  <2>2. \A k \in n + 1 .. seq_ind + 1 :
          buffer'[(k - 1) % RCV_WINDOW] = Segment((k - 1) % SEQ_MOD, k)
    BY <1>2, <2>1, StoreRetains DEF OldestSound
  <2> QED
    BY <1>1, <2>1, <2>2 DEF RetainedFrom
<1>8. s_pc' \notin EndPhase /\ s_pkt_ack'.TYPE = PTYPE_ACK => s_pkt_ack'.SEQNUM = small_seq'
  BY <1>1 DEF OldestSound, EndPhase, Done
<1> QED
  BY <1>1, <1>2, <1>4, <1>5, <1>6, <1>7, <1>8, OldestNumbers DEF OldestSound

\* small_ind goes along with small_seq, which only goes up.
LEMMA HandleAckOldest ==
  ASSUME NoStaleDamage, TypeOK, TableFilled, AcksOnly, OldestSound, HandleAck, UNCHANGED rcvVars
  PROVE  OldestSound'
<1>1. ReadReply(PTYPE_ACK) /\ small_seq' = Reply.SEQNUM /\ small_ind' = AckedInd(Reply.SEQNUM)
  BY DEF HandleAck
<1>2. /\ UNCHANGED <<toRcv, seq_ind, buffer, packet_encoded>>
      /\ UNCHANGED <<r_seq_exp, buffer_payload>> /\ s_pkt_ack' = Reply
  BY DEF HandleAck, ReadReply, rcvVars
<1>3. /\ small_seq <= Reply.SEQNUM /\ Reply.SEQNUM <= r_seq_exp /\ Reply.SEQNUM \in Nat
      /\ OrderedAcks(toSnd', Reply.SEQNUM, r_seq_exp)
  <2>1. CASE s_err
    <3>1. s_pc = "socket" /\ Reply = s_pkt_ack /\ Reply.TYPE = PTYPE_ACK /\ toSnd' = toSnd
      BY <1>1, <2>1 DEF ReadReply, Reply
    <3>2. Reply.SEQNUM = small_seq
      BY <3>1 DEF OldestSound, EndPhase, Done
    <3> QED
      BY <3>1, <3>2, OldestNumbers DEF OldestSound
  <2>2. CASE ~s_err
    <3>1. toSnd # <<>> /\ toSnd' = Tail(toSnd) /\ Reply = Header(Head(toSnd))
      BY <1>1, <2>2 DEF ReadReply, Reply
    <3>2. /\ Head(toSnd) \in IntactAcks
          /\ small_seq <= Head(toSnd).SEQNUM /\ Head(toSnd).SEQNUM <= r_seq_exp
          /\ OrderedAcks(Tail(toSnd), Head(toSnd).SEQNUM, r_seq_exp)
      BY <3>1, OrderedTail, OldestNumbers DEF OldestSound
    <3>3. Head(toSnd).SEQNUM \in Nat
      BY <3>2, SeqModAssumption
      DEF IntactAcks, Acks, DatagramSet, SeqNums, SeqModAssumption
    <3> QED
      BY <3>1, <3>2, <3>3 DEF Header
  <2> QED
    BY <2>1, <2>2
<1>4. s_window' = RCV_WINDOW
  <2>1. Reply.WINDOW = RCV_WINDOW /\ s_window \in {1, RCV_WINDOW}
    BY <1>1, AckAtHand DEF TableFilled
  <2> QED
    BY <1>1, <2>1, ReplyWindow
<1>5. small_ind' = small_seq' % RCV_WINDOW
  <2> DEFINE n == Reply.SEQNUM - small_seq
  <2>1. n \in 0 .. SEQ_MOD - 1 /\ small_seq + n = Reply.SEQNUM
    BY <1>3, OldestNumbers
  <2>2. small_ind' = (small_ind + (n % SEQ_MOD)) % RCV_WINDOW
    BY <1>1, <1>4 DEF AckedInd
  <2> HIDE DEF n
  <2>3. n % SEQ_MOD = n
    BY <2>1, OldestNumbers, ModSmall
  <2>4. ((small_seq % RCV_WINDOW) + n) % RCV_WINDOW = (small_seq + n) % RCV_WINDOW
    <3>1. RCV_WINDOW \in Nat \ {0} /\ small_seq \in Int /\ n \in Int
      BY <2>1, OldestNumbers
    <3> QED
      BY <3>1, ModAdd
  <2>5. small_ind = small_seq % RCV_WINDOW
    BY DEF OldestSound
  <2> QED
    BY <1>1, <2>1, <2>2, <2>3, <2>4, <2>5
<1>6. RetainedFrom(small_seq)'
  <2>1. \A k \in Reply.SEQNUM + 1 .. seq_ind : k \in small_seq + 1 .. seq_ind
    BY <1>3, OldestNumbers
  <2> QED
    BY <1>1, <1>2, <2>1 DEF OldestSound, RetainedFrom
<1>7. seq_ind' <= small_seq' + RCV_WINDOW /\ small_seq' <= r_seq_exp' /\ r_seq_exp' <= seq_ind'
  <2>1. seq_ind <= small_seq + RCV_WINDOW /\ r_seq_exp <= seq_ind
    BY DEF OldestSound
  <2>2. seq_ind <= Reply.SEQNUM + RCV_WINDOW
    BY <1>3, <2>1, OldestNumbers
  <2> QED
    BY <1>1, <1>2, <1>3, <2>1, <2>2
<1> QED
  BY <1>1, <1>2, <1>3, <1>5, <1>6, <1>7 DEF OldestSound
LEMMA SenderStepOldest ==
  ASSUME NoWrap, KeepsOrder, TypeOK, TableInvariant, OldestSound, s_seq_exp = seq_ind,
         UNCHANGED rcvVars,
         \/ \E sfd \in BOOLEAN : Select(sfd) \/ EndSelect(sfd)
         \/ SelectTimeout \/ SenderStep
  PROVE  OldestSound'
<1>0. TableFilled /\ AcksOnly /\ NoStaleDamage
  BY DEF TableInvariant, KeepsOrder, NoStaleDamage
<1>1. /\ UNCHANGED <<r_seq_exp, buffer_payload>>
      /\ OrderedAcks(toSnd, small_seq, r_seq_exp) /\ toRcv \in Seq(SentUpTo(seq_ind))
      /\ packet_encoded \in SentUpTo(seq_ind)
      /\ (s_pc \notin EndPhase /\ s_pkt_ack.TYPE = PTYPE_ACK
           => s_pkt_ack.SEQNUM = small_seq)
  BY DEF OldestSound, rcvVars
<1>2. CASE (\E sfd \in BOOLEAN : Select(sfd)) \/ SelectTimeout \/ ReadEndOfFile
           \/ ReadFileError
  <2>1. /\ UNCHANGED <<small_seq, small_ind, seq_ind, buffer, toRcv, toSnd,
                       s_pkt_ack, packet_encoded>>
        /\ s_pc \in {"select", "file"}
    BY <1>2
    DEF Select, SelectTimeout, ReadEndOfFile, ReadFileError, netVars, protocolVars
  <2> QED
    BY <1>1, <2>1, OldestKept DEF EndPhase, Done
<1>3. CASE (\E sfd \in BOOLEAN : EndSelect(sfd)) \/ WriteRefused
  <2>1. /\ UNCHANGED <<small_seq, small_ind, seq_ind, buffer, toRcv, toSnd,
                       s_pkt_ack, packet_encoded>>
        /\ s_pc' \in {"end_write", "aborted"}
    BY <1>3 DEF EndSelect, WriteRefused, netVars, protocolVars
  <2> QED
    BY <1>1, <2>1, OldestKept DEF EndPhase, Done
<1>4. CASE ReadSegment
  BY <1>0, <1>4, ReadSegmentOldest
<1>5. CASE HandleAck
  BY <1>0, <1>5, HandleAckOldest
<1>6. CASE ReadBadReply
  <2>1. Head(toSnd) \in IntactAcks
    BY <1>1, <1>6, HeadTailIn DEF ReadBadReply, OrderedAcks
  <2> QED
    BY <1>6, <2>1 DEF ReadBadReply, DecodesOK, DecodeStatus, IntactAcks
<1>7. CASE HandleOther
  <2>1. PICK type \in Types \ {PTYPE_ACK, PTYPE_NACK} : ReadReply(type)
    BY <1>7 DEF HandleOther
  <2>2. s_err
    <3>1. ASSUME ~s_err PROVE FALSE
      <4>1. toSnd # <<>> /\ Head(toSnd).TYPE = type
        BY <2>1, <3>1 DEF ReadReply, Reply, Header
      <4>2. Head(toSnd) \in IntactAcks
        BY <1>1, <4>1, HeadTailIn DEF OrderedAcks
      <4> QED
        BY <4>1, <4>2 DEF IntactAcks, Acks
    <3> QED
      BY <3>1
  <2>3. UNCHANGED toSnd /\ s_pkt_ack'.TYPE # PTYPE_ACK
    BY <2>1, <2>2 DEF ReadReply
  <2>4. UNCHANGED <<small_seq, small_ind, seq_ind, buffer, toRcv, packet_encoded>>
    BY <1>7 DEF HandleOther
  <2> QED
    BY <1>1, <2>3, <2>4, OldestKept
<1>8. CASE HandleNack \/ WriteRawStruct
  <2>1. s_pc # "nack_raw"
    BY <1>0 DEF AcksOnly
  <2> QED
    BY <1>0, <1>8, <2>1, AckAtHand DEF HandleNack, WriteRawStruct
<1>9. CASE RetransmissionTimer
  <2>1. PICK seg : seg = buffer[small_ind % s_window]
    OBVIOUS
  <2>2. small_ind % s_window \in SndSlots
    <3>1. small_ind \in Int /\ s_window \in WindowSizes \ {0}
      BY OldestNumbers DEF SndSlots
    <3> QED
      BY <3>1, SenderSlot
  <2>3. DataDatagram(seg) \in SentUpTo(seq_ind)
    <3>1. seg \in Segments /\ seg.PAYLOAD \in 0 .. seq_ind
      BY <1>9, <2>1, <2>2 DEF RetransmissionTimer, TypeOK, SenderTypeOK, OldestSound
    <3> QED
      BY <3>1, SegmentType DEF SentUpTo, DataDatagram
  <2>4. toRcv' \in Seq(SentUpTo(seq_ind))
    BY <1>1, <1>9, <2>1, <2>3, SentWrite DEF RetransmissionTimer
  <2>5. /\ UNCHANGED <<small_seq, small_ind, seq_ind, buffer, toSnd,
                       s_pkt_ack, packet_encoded>>
        /\ s_pc = "timer"
    BY <1>9 DEF RetransmissionTimer, protocolVars
  <2> QED
    BY <1>1, <2>4, <2>5, OldestKept DEF EndPhase, Done
<1>10. CASE EncodeEndOfFile
  <2>1. packet_encoded' \in SentUpTo(seq_ind)
    <3>1. packet_encoded' \in DatagramSet
      BY <1>10, DataDatagramType DEF EncodeEndOfFile, TypeOK, SenderTypeOK, Payloads
    <3>2. packet_encoded'.PAYLOAD = 0
      BY <1>10 DEF EncodeEndOfFile, DataDatagram, Segment, NoData
    <3> QED
      BY <3>1, <3>2, OldestNumbers DEF SentUpTo
  <2>2. /\ UNCHANGED <<small_seq, small_ind, seq_ind, buffer, toRcv, toSnd, s_pkt_ack>>
        /\ s_pc' = "end_select"
    BY <1>10 DEF EncodeEndOfFile, netVars, protocolVars
  <2> QED
    BY <1>1, <2>1, <2>2, OldestKept DEF EndPhase
<1>11. CASE EndWrite
  <2>1. toRcv' \in Seq(SentUpTo(seq_ind))
    BY <1>1, <1>11, SentWrite DEF EndWrite
  <2>2. /\ UNCHANGED <<small_seq, small_ind, seq_ind, buffer, toSnd, s_pkt_ack,
                       packet_encoded>>
        /\ s_pc' \in {"end_read", "end_select"}
    BY <1>11 DEF EndWrite, protocolVars
  <2> QED
    BY <1>1, <2>1, <2>2, OldestKept DEF EndPhase
<1>12. CASE EndRead
  <2>1. OrderedAcks(toSnd', small_seq, r_seq_exp) /\ packet_encoded' \in SentUpTo(seq_ind)
    <3>1. CASE UNCHANGED <<toSnd, packet_encoded>>
      BY <1>1, <3>1
    <3>2. CASE toSnd # <<>> /\ packet_encoded' = Head(toSnd) /\ toSnd' = Tail(toSnd)
      <4>1. /\ Head(toSnd) \in IntactAcks /\ small_seq <= Head(toSnd).SEQNUM
            /\ OrderedAcks(Tail(toSnd), Head(toSnd).SEQNUM, r_seq_exp)
        BY <1>1, <3>2, OrderedTail, OldestNumbers
      <4>2. Head(toSnd) \in DatagramSet /\ Head(toSnd).PAYLOAD = 0
        BY <4>1 DEF IntactAcks, Acks, NoData
      <4>3. Head(toSnd).SEQNUM \in Int
        BY <4>2 DEF DatagramSet, SeqNums
      <4>4. OrderedAcks(Tail(toSnd), small_seq, r_seq_exp)
        BY <4>1, <4>3, OrderedRange, OldestNumbers
      <4> QED
        BY <3>2, <4>2, <4>4, OldestNumbers DEF SentUpTo
    <3> QED
      BY <1>12, <3>1, <3>2 DEF EndRead
  <2>2. UNCHANGED <<small_seq, small_ind, seq_ind, buffer, toRcv>>
        /\ s_pc' \in {"done", "end_select"}
    BY <1>12 DEF EndRead, protocolVars
  <2> QED
    BY <1>1, <2>1, <2>2, OldestKept DEF EndPhase, Done
<1>13. CASE RetransmitUninitialised \/ NackUninitialised
  <2>1. NoStaleDamage
    BY DEF KeepsOrder, NoStaleDamage
  <2> QED
    BY <1>13, <2>1, UseStored
<1> QED
  BY <1>2, <1>3, <1>4, <1>5, <1>6, <1>7, <1>8, <1>9, <1>10, <1>11, <1>12, <1>13
  DEF SenderStep

LEMMA ReceiverStepOldest ==
  ASSUME NoWrap, KeepsOrder, TypeOK, AcksOnly, OrderSound, SenderSound, OldestSound,
         ReceiverStep, UNCHANGED sndVars
  PROVE  OldestSound'
<1>1. UNCHANGED <<s_pc, small_seq, small_ind, seq_ind, buffer, s_pkt_ack, packet_encoded>>
  BY DEF sndVars, protocolVars
<1>2. toRcv' \in Seq(SentUpTo(seq_ind))
  <2>1. CASE UNCHANGED toRcv
    BY <2>1 DEF OldestSound
  <2>2. CASE toRcv # <<>> /\ toRcv' = Tail(toRcv)
    BY <2>2, HeadTailIn DEF OldestSound
  <2> QED
    BY <2>1, <2>2
    DEF ReceiverStep, Bind, WaitForClient, ReceiveError, Receive, ReceiveInvalid,
        ReceiveTruncated, ReceiveEndOfFile, ReceiveSegment, WriteSlot,
        AcknowledgeSegment, AcknowledgeEndOfFile, Close, netVars
<1>3. /\ r_seq_exp <= r_seq_exp' /\ r_seq_exp' <= seq_ind /\ r_seq_exp' \in Int
      /\ \A i \in Slots : buffer_payload'[i] \in 0 .. seq_ind
  <2>1. CASE UNCHANGED <<r_seq_exp, buffer_payload>>
    BY <2>1, OldestNumbers DEF OldestSound
  <2>2. CASE ReceiveSegment
    <3>1. Incoming \in SentUpTo(seq_ind)
      BY <2>2, HeadTailIn DEF ReceiveSegment, Receive, Incoming, OldestSound
    <3>2. \A i \in Slots : buffer_payload'[i] \in {buffer_payload[i], Incoming.PAYLOAD}
      BY <2>2 DEF ReceiveSegment, TypeOK, ReceiverTypeOK
    <3>3. UNCHANGED r_seq_exp
      BY <2>2 DEF ReceiveSegment
    <3> QED
      BY <3>1, <3>2, <3>3, OldestNumbers DEF OldestSound, SentUpTo
  <2>3. CASE WriteSlot
    <3>1. index \in Slots /\ buffer_payload[index] # NoData
      BY <2>3 DEF WriteSlot, TypeOK, ReceiverTypeOK
    <3>2. PICK p \in 1 .. NSegments :
            /\ (p - 1) % RCV_WINDOW = index
            /\ r_seq_exp < p /\ p <= r_seq_exp + RCV_WINDOW
            /\ buffer_payload[index] \in {p, Junk}
      BY <3>1 DEF OrderSound
    <3>3. p = r_seq_exp + 1
      BY <3>1, <3>2, NextWitness
    <3>4. buffer_payload[index] \in 0 .. seq_ind
      BY <3>1 DEF OldestSound
    <3>5. r_seq_exp + 1 <= seq_ind
      BY <3>2, <3>3, <3>4 DEF Junk
    <3>6. r_seq_exp' = r_seq_exp + 1
      <4>1. r_seq_exp + 1 \in 0 .. SEQ_MOD - 1
        BY <3>5, OldestNumbers DEF NoWrap
      <4> QED
        BY <2>3, <4>1, OldestNumbers, ModSmall DEF WriteSlot
    <3>7. \A i \in Slots : buffer_payload'[i] \in {buffer_payload[i], 0}
      BY <2>3 DEF WriteSlot, TypeOK, ReceiverTypeOK, NoData
    <3>8. r_seq_exp <= r_seq_exp' /\ r_seq_exp' <= seq_ind /\ r_seq_exp' \in Int
      BY <3>5, <3>6, OldestNumbers
    <3>9. \A i \in Slots : buffer_payload[i] \in 0 .. seq_ind
      BY DEF OldestSound
    <3>10. 0 \in 0 .. seq_ind
      BY OldestNumbers
    <3> QED
      BY <3>7, <3>8, <3>9, <3>10
  <2>4. CASE ReceiveTruncated
    BY <2>4, NoTruncated
  <2> QED
    BY <2>1, <2>2, <2>3, <2>4
    DEF ReceiverStep, Bind, WaitForClient, ReceiveError, ReceiveInvalid,
        ReceiveEndOfFile, AcknowledgeSegment, AcknowledgeEndOfFile, Close
<1>4. OrderedAcks(toSnd', small_seq, r_seq_exp')
  <2>1. OrderedAcks(toSnd, small_seq, r_seq_exp) /\ small_seq <= r_seq_exp
    BY DEF OldestSound
  <2>2. CASE UNCHANGED toSnd
    BY <1>3, <2>1, <2>2, OrderedRange, OldestNumbers
  <2>3. CASE AcknowledgeSegment \/ AcknowledgeEndOfFile
    <3>1. SendAck(PTYPE_ACK, r_seq_exp) /\ UNCHANGED r_seq_exp
      BY <2>3 DEF AcknowledgeSegment, AcknowledgeEndOfFile
    <3>2. r_seq_exp \in SeqNums /\ small_seq \in Int
      BY OldestNumbers DEF SeqNums
    <3> QED
      BY <2>1, <3>1, <3>2, OrderedTransmit
  <2>4. CASE ReceiveTruncated
    BY <2>4, NoTruncated
  <2> QED
    BY <2>2, <2>3, <2>4
    DEF ReceiverStep, Bind, WaitForClient, ReceiveError, ReceiveInvalid,
        ReceiveEndOfFile, ReceiveSegment, WriteSlot, Close, netVars
<1>5. small_seq <= r_seq_exp'
  BY <1>3, OldestNumbers DEF OldestSound
<1>6. RetainedFrom(small_seq)'
  BY <1>1 DEF OldestSound, RetainedFrom
<1> QED
  BY <1>1, <1>2, <1>3, <1>4, <1>5, <1>6 DEF OldestSound

LEMMA OldestInit == Init => OldestSound
<1> SUFFICES ASSUME Init PROVE OldestSound
  OBVIOUS
<1>1. TypeOK
  BY TypeInit
<1>2. /\ small_seq = 0 /\ small_ind = 0 /\ seq_ind = 0 /\ r_seq_exp = 0
      /\ toRcv = <<>> /\ toSnd = <<>> /\ packet_encoded = DataDatagram(Uninit)
      /\ buffer = [i \in SndSlots |-> Uninit] /\ buffer_payload = [i \in Slots |-> NoData]
      /\ s_pkt_ack.TYPE = PTYPE_DATA
  BY DEF Init, SenderInit, NetworkInit, ReceiverInit
<1>3. packet_encoded \in SentUpTo(0)
  <2>1. packet_encoded \in DatagramSet
    BY <1>1 DEF TypeOK, SenderTypeOK
  <2> QED
    BY <1>2, <2>1 DEF SentUpTo, DataDatagram, Uninit, Segment, NoData
<1>4. OrderedAcks(toSnd, 0, 0)
  BY <1>2 DEF OrderedAcks
<1>5. 0 % RCV_WINDOW = 0
  BY OldestNumbers, <1>1, ModSmall
<1>6. /\ \A i \in SndSlots : buffer[i].PAYLOAD = 0
      /\ \A i \in Slots : buffer_payload[i] = 0
  BY <1>2 DEF Uninit, Segment, NoData
<1>7. RetainedFrom(0)
  BY <1>2 DEF RetainedFrom
<1> QED
  BY <1>1, <1>2, <1>3, <1>4, <1>5, <1>6, <1>7, OldestNumbers
  DEF OldestSound, PTYPE_DATA, PTYPE_ACK

LEMMA OldestNext ==
  /\ NoWrap /\ KeepsOrder
  /\ TypeOK /\ OrderInvariant /\ TableInvariant /\ OldestSound /\ [Next]_vars
  => OldestSound'
<1> SUFFICES ASSUME NoWrap, KeepsOrder, TypeOK, OrderInvariant, TableInvariant,
                    OldestSound, [Next]_vars
             PROVE  OldestSound'
  OBVIOUS
<1>0. SenderSound /\ OrderSound /\ AcksOnly /\ s_seq_exp = seq_ind
  BY DEF OrderInvariant, TableInvariant, SenderSound
<1>1. CASE SenderSelect \/ SenderTimeout \/ SenderEndSelect \/ SenderProceeds
  BY <1>0, <1>1, SenderStepOldest
  DEF SenderSelect, SenderTimeout, SenderEndSelect, SenderProceeds
<1>2. CASE ReceiverProceeds
  BY <1>0, <1>2, ReceiverStepOldest DEF ReceiverProceeds
<1>3. CASE UNCHANGED <<sndVars, rcvVars, toRcv, toSnd>>
  <2>1. UNCHANGED <<s_pc, small_seq, small_ind, seq_ind, buffer, s_pkt_ack, packet_encoded,
                    r_seq_exp, buffer_payload, toRcv, toSnd>>
    BY <1>3 DEF sndVars, protocolVars, rcvVars
  <2> QED
    BY <2>1, OldestKept DEF OldestSound
<1>4. CASE SenderUnreachable /\ UNCHANGED rcvVars
  <2>1. UNCHANGED <<s_pc, small_seq, small_ind, seq_ind, buffer, s_pkt_ack, packet_encoded,
                    r_seq_exp, buffer_payload, toRcv>>
        /\ toSnd # <<>> /\ toSnd' = Tail(toSnd)
    BY <1>4 DEF SenderUnreachable, sndVars, protocolVars, rcvVars
  <2>2. /\ Head(toSnd) \in IntactAcks /\ small_seq <= Head(toSnd).SEQNUM
        /\ OrderedAcks(Tail(toSnd), Head(toSnd).SEQNUM, r_seq_exp)
    BY <2>1, OrderedTail, OldestNumbers DEF OldestSound
  <2>3. Head(toSnd).SEQNUM \in Int
    BY <2>2 DEF IntactAcks, Acks, DatagramSet, SeqNums
  <2>4. OrderedAcks(toSnd', small_seq, r_seq_exp)
    BY <2>1, <2>2, <2>3, OrderedRange, OldestNumbers
  <2> QED
    BY <2>1, <2>4, OldestKept DEF OldestSound
<1>5. CASE ReceiverUnreachable /\ UNCHANGED sndVars
  <2>1. UNCHANGED <<s_pc, small_seq, small_ind, seq_ind, buffer, s_pkt_ack, packet_encoded,
                    r_seq_exp, buffer_payload, toSnd>>
        /\ toRcv # <<>> /\ toRcv' = Tail(toRcv)
    BY <1>5 DEF ReceiverUnreachable, sndVars, protocolVars, rcvVars
  <2>2. toRcv' \in Seq(SentUpTo(seq_ind))
    BY <2>1, HeadTailIn DEF OldestSound
  <2> QED
    BY <2>1, <2>2, OldestKept DEF OldestSound
<1>6. CASE ReceiverDies
  <2>1. UNCHANGED <<s_pc, small_seq, small_ind, seq_ind, buffer, s_pkt_ack, packet_encoded,
                    r_seq_exp, buffer_payload, toRcv, toSnd>>
    BY <1>6 DEF ReceiverDies, ReceiverKilled, sndVars, protocolVars, netVars
  <2> QED
    BY <2>1, OldestKept DEF OldestSound
<1> QED
  BY <1>1, <1>2, <1>3, <1>4, <1>5, <1>6
  DEF Next, Unreachable, Terminated, vars, netVars

\* The slot the timer reads is that of small_seq.
LEMMA TimerReadsOldest ==
  ASSUME TypeOK, TableInvariant, OldestSound, s_seq_exp = seq_ind
  PROVE  RetransmitsOldest
<1> SUFFICES ASSUME small_seq # s_seq_exp
             PROVE  buffer[small_ind % s_window].SEQNUM = small_seq
  BY DEF RetransmitsOldest
<1>1. PICK k : k = small_seq + 1
  OBVIOUS
<1>2. k \in small_seq + 1 .. seq_ind /\ k - 1 = small_seq
  BY <1>1, OldestNumbers DEF OldestSound
<1>3. buffer[small_seq % RCV_WINDOW].SEQNUM = small_seq % SEQ_MOD
  <2>1. buffer[(k - 1) % RCV_WINDOW] = Segment((k - 1) % SEQ_MOD, k)
    BY <1>2 DEF OldestSound, RetainedFrom
  <2>2. buffer[small_seq % RCV_WINDOW] = Segment(small_seq % SEQ_MOD, k)
    BY <1>2, <2>1
  <2> QED
    BY <2>2 DEF Segment
<1>4. small_seq % SEQ_MOD = small_seq
  BY OldestNumbers, ModSmall
<1>5. small_ind % s_window = small_seq % RCV_WINDOW
  <2>1. small_ind = small_seq % RCV_WINDOW
    BY DEF OldestSound
  <2>2. CASE s_window = RCV_WINDOW
    <3>1. small_seq \in Int /\ RCV_WINDOW \in Nat \ {0}
      BY OldestNumbers
    <3>2. small_ind \in 0 .. RCV_WINDOW - 1
      BY <2>1, <3>1, ModRange
    <3> QED
      BY <2>1, <2>2, <3>1, <3>2, ModSmall
  <2>3. CASE s_window # RCV_WINDOW
    <3>1. small_seq = 0 /\ s_window = 1
      BY <2>3 DEF TableInvariant, TableFilled
    <3>2. 0 % RCV_WINDOW = 0 /\ 0 % 1 = 0
      BY OldestNumbers, ModSmall
    <3> QED
      BY <2>1, <3>1, <3>2
  <2> QED
    BY <2>2, <2>3
<1> QED
  BY <1>3, <1>4, <1>5

\* In a network that neither reorders nor damages datagrams the timer sends
\* again the oldest segment that was not acknowledged (client.c:97-98, 345),
\* whatever is lost, repeated, refused or fails.
THEOREM OldestCorrect ==
  ASSUME NoWrap, KeepsOrder, FillsTable
  PROVE  Spec => []RetransmitsOldest
<1>1. "recrc" \notin Faults /\ NoStaleDamage
  BY DEF KeepsOrder, NoStaleDamage
<1>2. OrderInvariant /\ TableInvariant => s_seq_exp = seq_ind
  BY DEF OrderInvariant, TableInvariant, SenderSound
<1>3. Spec => []TableInvariant
  BY <1>1, TableInit, TableNext, TypeCorrect, PTL DEF Spec
<1>4. Spec => []OrderInvariant
  BY OrderInit, OrderNext, TypeCorrect, PTL DEF Spec
<1>5. Spec => []OldestSound
  BY <1>3, <1>4, OldestInit, OldestNext, TypeCorrect, PTL DEF Spec
<1> QED
  BY <1>2, <1>3, <1>4, <1>5, TimerReadsOldest, TypeCorrect, PTL
=============================================================================
