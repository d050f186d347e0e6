----------------------------- MODULE AckProofs ------------------------------
(***************************************************************************)
(* What is acknowledged is on disk, for every file whose numbers do not    *)
(* wrap and every network that does not both damage answers and make       *)
(* read() fail.                                                            *)
(***************************************************************************)
EXTENDS DeliveryProofs

\* A remainder is no greater than what it is taken of.
LEMMA ModBelow ==
  ASSUME NEW W \in Nat \ {0}, NEW a \in Nat
  PROVE  a % W <= a
<1>1. CASE a < W
  <2>1. a \in 0 .. W - 1
    BY <1>1
  <2> QED
    BY <2>1, ModSmall
<1>2. CASE a >= W
  <2>1. a % W \in 0 .. W - 1
    BY ModRange
  <2> QED
    BY <1>2, <2>1
<1> QED
  BY <1>1, <1>2

-----------------------------------------------------------------------------
(***************************************************************************)
(* Answers stay sound on the network, and as the file grows.               *)
(***************************************************************************)
LEMMA SoundRepliesMonotone ==
  ASSUME NEW n \in Nat, NEW k \in Nat, n <= k
  PROVE  SoundReplies(n) \subseteq SoundReplies(k)
<1>1. \A d \in Replies : d.SEQNUM \in Int
  BY DEF Replies, DatagramSet, SeqNums
<1> QED
  BY <1>1 DEF SoundReplies

LEMMA SoundRepliesAltered ==
  ASSUME NEW n \in Nat, NEW d \in SoundReplies(n), d.CRC = "ok"
  PROVE  Altered(d) \subseteq SoundReplies(n)
<1>1. d \in Replies /\ d \in DatagramSet
  BY DEF SoundReplies, Replies
<1>2. Altered(d) \subseteq Replies
  BY <1>1, RepliesAltered
<1>3. d.PAYLOAD = NoData
  BY DEF SoundReplies
<1>4. ~(Length(d) > 0)
  BY <1>3 DEF Length
<1>5. Truncated(d, "hdr") = {} /\ Truncated(d, "ok") = {}
  BY <1>4 DEF Truncated
<1>6. ASSUME NEW e \in Altered(d)
      PROVE  e \in SoundReplies(n)
  <2>1. "corrupt" \in Faults /\ e \in Damaged(d)
    BY <1>5, <1>6 DEF Altered
  <2>2. e.CRC = "hdr" /\ e.PAYLOAD = d.PAYLOAD
    BY <1>1, <1>4, <2>1, DamagedCases
  <2>3. e \in Replies
    BY <1>2, <1>6
  <2> QED
    BY <1>3, <2>1, <2>2, <2>3 DEF SoundReplies
<1> QED
  BY <1>6

USE SeqModAssumption, WindowAssumption, NetworkAssumption, SenderAssumption,
    ReceiverAssumption
DEF SeqModAssumption, WindowAssumption, NetworkAssumption, SenderAssumption,
    ReceiverAssumption

\* The receiver's answers are sound.
LEMMA SendAckSound ==
  ASSUME TypeOK, NEW n \in Nat, toSnd \in Seq(SoundReplies(n)),
         NEW type \in {PTYPE_ACK, PTYPE_NACK}, NEW seq \in SeqNums,
         type = PTYPE_ACK => seq <= n, SendAck(type, seq)
  PROVE  toSnd' \in Seq(SoundReplies(n))
<1>1. CASE UNCHANGED toSnd
  BY <1>1
<1>2. CASE Transmit(toSnd, toSnd', AckDatagram(type, seq))
  <2> DEFINE d == AckDatagram(type, seq)
  <2>1. /\ d.TYPE = type /\ d.SEQNUM = seq /\ d.WINDOW = RCV_WINDOW
        /\ d.PAYLOAD = NoData /\ d.CRC = "ok"
    BY DEF AckDatagram
  <2>2. d \in Replies
    BY <2>1, AckDatagramType DEF Replies, PTYPE_DATA, PTYPE_ACK, PTYPE_NACK
  <2>3. d \in SoundReplies(n)
    BY <2>1, <2>2 DEF SoundReplies
  <2>4. Altered(d) \subseteq SoundReplies(n)
    BY <2>1, <2>3, SoundRepliesAltered
  <2>5. faults \in 0 .. MaxFaults
    BY DEF TypeOK, NetworkTypeOK
  <2> QED
    BY <1>2, <2>3, <2>4, <2>5, TransmitIn
<1> QED
  BY <1>1, <1>2 DEF SendAck

-----------------------------------------------------------------------------
(***************************************************************************)
(* Steps of the sender.                                                    *)
(***************************************************************************)

\* What the handler of an answer works on, be it fresh or left in pkt_ack.
LEMMA ReplySound ==
  ASSUME SoundAnswers, TypeOK, AckInvariant, NEW type, ReadReply(type)
  PROVE  /\ toSnd' \in Seq(SoundReplies(Len(written)))
         /\ Reply.TYPE = type /\ s_pkt_ack' = Reply /\ s_err' = FALSE
         /\ Reply.WINDOW \in {1, RCV_WINDOW}
         /\ Reply.TYPE = PTYPE_ACK =>
              Reply.WINDOW = RCV_WINDOW /\ Reply.SEQNUM <= Len(written)
<1>1. Reply.TYPE = type /\ s_pkt_ack' = Reply /\ s_err' = FALSE
  BY DEF ReadReply
<1>2. CASE s_err /\ UNCHANGED toSnd
  <2>1. Reply = s_pkt_ack
    BY <1>2 DEF Reply
  <2>2. "corrupt" \notin Faults
    BY <1>2 DEF AckInvariant, SoundAnswers, NoStaleDamage
  <2>3. s_pc \notin EndPhase
    BY DEF ReadReply, EndPhase, Done
  <2> QED
    BY <1>1, <1>2, <2>1, <2>2, <2>3 DEF AckInvariant
<1>3. CASE ~s_err /\ toSnd # <<>> /\ DecodesOK(Head(toSnd)) /\ toSnd' = Tail(toSnd)
  <2>1. Head(toSnd) \in SoundReplies(Len(written)) /\ toSnd' \in Seq(SoundReplies(Len(written)))
    BY <1>3, HeadTailIn DEF AckInvariant
  <2>2. /\ Reply.TYPE = Head(toSnd).TYPE /\ Reply.SEQNUM = Head(toSnd).SEQNUM
        /\ Reply.WINDOW = Head(toSnd).WINDOW
    BY <1>3 DEF Reply, Header
  <2>3. Head(toSnd).CRC # "hdr"
    BY <1>3 DEF DecodesOK, DecodeStatus
  <2> QED
    BY <1>1, <2>1, <2>2, <2>3 DEF SoundReplies
<1> QED
  BY <1>2, <1>3 DEF ReadReply

LEMMA SenderAckSound ==
  ASSUME SoundAnswers, TypeOK, AckInvariant, UNCHANGED rcvVars,
         \/ \E sfd \in BOOLEAN : Select(sfd) \/ EndSelect(sfd)
         \/ SelectTimeout \/ SenderStep
  PROVE  AckInvariant'
<1> DEFINE n == Len(written)
<1>1. r_seq_exp' = r_seq_exp /\ written' = written
  BY DEF rcvVars
<1>2. ASSUME UNCHANGED <<toSnd, s_pkt_ack, small_seq, s_window>>, s_err' \in {s_err, FALSE},
             s_pc \notin EndPhase \/ s_pc' \in EndPhase
      PROVE  AckInvariant'
  <2>1. s_err' => "icmp" \in Faults
    <3>1. CASE s_err' = s_err
      BY <3>1, Zenon DEF AckInvariant
    <3>2. CASE s_err' = FALSE
      BY <3>2, Zenon
    <3> QED
      BY <1>2, <3>1, <3>2
  <2>2. s_pc' \notin EndPhase => s_pc \notin EndPhase
    BY <1>2
  <2> QED
    BY <1>1, <1>2, <2>1, <2>2, Zenon DEF AckInvariant
<1>3. CASE \E sfd \in BOOLEAN : Select(sfd) \/ EndSelect(sfd)
  BY <1>2, <1>3 DEF Select, EndSelect, EndPhase, Done, netVars, protocolVars
<1>4. CASE SelectTimeout \/ ReadSegment \/ ReadEndOfFile \/ ReadFileError
  BY <1>2, <1>4
  DEF SelectTimeout, ReadSegment, ReadEndOfFile, ReadFileError, EndPhase, Done,
      netVars, protocolVars
<1>5. CASE \/ WriteRefused \/ WriteRawStruct \/ RetransmissionTimer
           \/ RetransmitUninitialised
  BY <1>2, <1>5
  DEF WriteRefused, WriteRawStruct, RetransmissionTimer, RetransmitUninitialised,
      EndPhase, Done, protocolVars
<1>6. CASE EncodeEndOfFile \/ EndWrite
  BY <1>2, <1>6
  DEF EncodeEndOfFile, EndWrite, EndPhase, Done, netVars, protocolVars
<1>7. CASE ReadBadReply
  <2>1. Head(toSnd) \in SoundReplies(n) /\ toSnd' \in Seq(SoundReplies(n))
    BY <1>7, HeadTailIn DEF ReadBadReply, AckInvariant
  <2>2. Head(toSnd).CRC # "ok"
    BY <1>7 DEF ReadBadReply, DecodesOK, DecodeStatus
  <2>3. "corrupt" \in Faults
    BY <2>1, <2>2 DEF SoundReplies
  <2>4. UNCHANGED <<s_err, small_seq, s_window>>
    BY <1>7 DEF ReadBadReply, protocolVars
  <2> QED
    BY <1>1, <2>1, <2>3, <2>4 DEF AckInvariant
<1>8. ASSUME NEW type, ReadReply(type),
             small_seq' = small_seq \/ (type = PTYPE_ACK /\ small_seq' = Reply.SEQNUM)
      PROVE  AckInvariant'
  <2>1. s_window' \in {1, RCV_WINDOW}
    BY <1>8, ReplySound DEF AckInvariant, ReadReply
  <2> QED
    BY <1>1, <1>8, <2>1, ReplySound DEF AckInvariant
<1>9. CASE HandleAck \/ HandleNack \/ HandleOther \/ NackUninitialised
  BY <1>8, <1>9 DEF HandleAck, HandleNack, HandleOther, NackUninitialised
<1>10. CASE EndRead
  <2>1. toSnd' \in Seq(SoundReplies(n))
    <3>1. CASE UNCHANGED toSnd
      BY <3>1 DEF AckInvariant
    <3>2. CASE toSnd # <<>> /\ toSnd' = Tail(toSnd)
      BY <3>2, HeadTailIn DEF AckInvariant
    <3> QED
      BY <1>10, <3>1, <3>2 DEF EndRead
  <2>2. s_pc' \in EndPhase /\ s_err' = FALSE /\ UNCHANGED <<small_seq, s_window>>
    BY <1>10 DEF EndRead, EndPhase, Done, protocolVars
  <2> QED
    BY <1>1, <2>1, <2>2 DEF AckInvariant
<1> QED
  BY <1>3, <1>4, <1>5, <1>6, <1>7, <1>9, <1>10 DEF SenderStep

-----------------------------------------------------------------------------
(***************************************************************************)
(* Steps of the receiver.                                                  *)
(***************************************************************************)
LEMMA ReceiverAckSound ==
  ASSUME SoundAnswers, TypeOK, AckInvariant, ReceiverStep, UNCHANGED sndVars
  PROVE  AckInvariant'
<1> DEFINE n == Len(written)
<1>1. /\ UNCHANGED <<s_pc, small_seq, s_window, s_pkt_ack>>
  BY DEF sndVars, protocolVars
<1>2. n \in Nat /\ small_seq \in Int
  BY DEF TypeOK, ReceiverTypeOK, SenderTypeOK, SeqNums
<1>3. s_err' = s_err
  BY DEF ReceiverStep, Bind, WaitForClient, ReceiveError, ReceiveInvalid,
         ReceiveTruncated, ReceiveEndOfFile, ReceiveSegment, WriteSlot,
         AcknowledgeSegment, AcknowledgeEndOfFile, Close, netVars
<1>4. ASSUME UNCHANGED <<r_seq_exp, written>>, toSnd' \in Seq(SoundReplies(n))
      PROVE  AckInvariant'
  BY <1>1, <1>3, <1>4 DEF AckInvariant
<1>5. r_seq_exp \in SeqNums /\ r_seq_exp <= n
  BY <1>2, ModBelow DEF AckInvariant, TypeOK, ReceiverTypeOK
<1>6. CASE ReceiveTruncated
  <2>1. Head(toRcv) \in DatagramSet
    BY <1>6, HeadTailIn DEF ReceiveTruncated, Receive, TypeOK, NetworkTypeOK
  <2>2. Incoming.SEQNUM + 1 \in Int
    BY <2>1 DEF Incoming, DatagramSet, SeqNums
  <2>3. (Incoming.SEQNUM + 1) % SEQ_MOD \in SeqNums
    BY <2>2, ModRange DEF SeqNums
  <2>4. toSnd' \in Seq(SoundReplies(n))
    BY <1>2, <1>6, <2>3, SendAckSound
    DEF ReceiveTruncated, AckInvariant, PTYPE_ACK, PTYPE_NACK
  <2> QED
    BY <1>4, <1>6, <2>4 DEF ReceiveTruncated
<1>7. CASE AcknowledgeSegment \/ AcknowledgeEndOfFile
  <2>1. toSnd' \in Seq(SoundReplies(n))
    BY <1>2, <1>5, <1>7, SendAckSound
    DEF AcknowledgeSegment, AcknowledgeEndOfFile, AckInvariant
  <2> QED
    BY <1>4, <1>7, <2>1 DEF AcknowledgeSegment, AcknowledgeEndOfFile
<1>8. CASE WriteSlot
  <2>1. written' = Append(written, buffer_payload[index])
        /\ r_seq_exp' = (r_seq_exp + 1) % SEQ_MOD /\ UNCHANGED toSnd
    BY <1>8 DEF WriteSlot, MayFail, SoundAnswers
  <2>2. Len(written') = n + 1
    <3>1. written \in Seq(Payloads \ {NoData})
      BY DEF TypeOK, ReceiverTypeOK
    <3> QED
      BY <2>1, <3>1
  <2>3. r_seq_exp' = (n + 1) % SEQ_MOD
    <3>1. SEQ_MOD \in Nat \ {0} /\ n \in Int /\ 1 \in Int
      BY <1>2
    <3>2. ((n % SEQ_MOD) + 1) % SEQ_MOD = (n + 1) % SEQ_MOD
      BY <3>1, ModAdd
    <3> QED
      BY <2>1, <3>2 DEF AckInvariant
  <2>4. toSnd' \in Seq(SoundReplies(n + 1))
    <3>1. SoundReplies(n) \subseteq SoundReplies(n + 1)
      BY <1>2, SoundRepliesMonotone
    <3>2. toSnd \in Seq(SoundReplies(n))
      BY DEF AckInvariant
    <3> QED
      BY <2>1, <3>1, <3>2, SeqMonotone
  <2>5. small_seq' <= n + 1
    BY <1>1, <1>2 DEF AckInvariant
  <2>6. s_pc' \notin EndPhase /\ "corrupt" \notin Faults =>
          /\ s_pkt_ack'.WINDOW \in {1, RCV_WINDOW}
          /\ s_pkt_ack'.TYPE = PTYPE_ACK =>
               s_pkt_ack'.WINDOW = RCV_WINDOW /\ s_pkt_ack'.SEQNUM <= n + 1
    <3>1. s_pkt_ack.SEQNUM \in Int
      BY DEF TypeOK, SenderTypeOK, Headers, SeqNums
    <3> QED
      BY <1>1, <1>2, <3>1 DEF AckInvariant
  <2> QED
    BY <1>1, <1>3, <2>2, <2>3, <2>4, <2>5, <2>6 DEF AckInvariant
<1>9. CASE UNCHANGED <<toSnd, r_seq_exp, written>>
  BY <1>4, <1>9 DEF AckInvariant
<1> QED
  BY <1>6, <1>7, <1>8, <1>9
  DEF ReceiverStep, Bind, WaitForClient, ReceiveError, ReceiveInvalid,
      ReceiveEndOfFile, ReceiveSegment, Close, netVars

-----------------------------------------------------------------------------
LEMMA AckInit == Init => AckInvariant
<1> SUFFICES ASSUME Init PROVE AckInvariant
  OBVIOUS
<1>1. /\ r_seq_exp = 0 /\ written = <<>> /\ small_seq = 0 /\ toSnd = <<>>
      /\ s_err = FALSE /\ s_pkt_ack.TYPE = PTYPE_DATA /\ s_pkt_ack.WINDOW = 1
      /\ s_window = 1
  BY DEF Init, NetworkInit, SenderInit, ReceiverInit
<1>2. Len(written) = 0 /\ 0 % SEQ_MOD = 0
  BY <1>1
<1> QED
  BY <1>1, <1>2 DEF AckInvariant, PTYPE_DATA, PTYPE_ACK

LEMMA AckNext ==
  SoundAnswers /\ TypeOK /\ AckInvariant /\ [Next]_vars => AckInvariant'
<1> SUFFICES ASSUME SoundAnswers, TypeOK, AckInvariant, [Next]_vars
             PROVE  AckInvariant'
  OBVIOUS
<1>1. CASE SenderSelect \/ SenderTimeout \/ SenderEndSelect \/ SenderProceeds
  BY <1>1, SenderAckSound
  DEF SenderSelect, SenderTimeout, SenderEndSelect, SenderProceeds
<1>2. CASE ReceiverProceeds
  BY <1>2, ReceiverAckSound DEF ReceiverProceeds
<1>3. CASE Unreachable
  <2>1. UNCHANGED <<s_pc, small_seq, s_window, s_pkt_ack, r_seq_exp, written>>
    BY <1>3
    DEF Unreachable, SenderUnreachable, ReceiverUnreachable, sndVars, rcvVars,
        protocolVars
  <2>3. s_err' => "icmp" \in Faults
    <3>1. CASE s_err' = s_err
      BY <3>1, Zenon DEF AckInvariant
    <3>2. CASE s_err' = ("icmp" \in Faults)
      BY <3>2, Zenon
    <3> QED
      BY <1>3, <3>1, <3>2, Zenon
      DEF Unreachable, SenderUnreachable, ReceiverUnreachable
  <2>2. toSnd' \in Seq(SoundReplies(Len(written)))
    <3>1. CASE UNCHANGED toSnd
      BY <3>1 DEF AckInvariant
    <3>2. CASE toSnd # <<>> /\ toSnd' = Tail(toSnd)
      BY <3>2, HeadTailIn DEF AckInvariant
    <3> QED
      BY <1>3, <3>1, <3>2 DEF Unreachable, SenderUnreachable, ReceiverUnreachable
  <2> QED
    BY <2>1, <2>2, <2>3, Zenon DEF AckInvariant
<1>4. CASE ReceiverDies \/ UNCHANGED vars
  BY <1>4
  DEF AckInvariant, ReceiverDies, ReceiverKilled, vars, netVars, sndVars, rcvVars,
      protocolVars
<1> QED
  BY <1>1, <1>2, <1>3, <1>4 DEF Next, Terminated

\* The receiver's number is that of the next segment of its file, and no answer,
\* on the way or held by the sender, has a number above the length of that file,
\* which says nothing once the file is longer than all numbers
\* (client.c:221-226, server.c:159, 180).
THEOREM AckSound ==
  ASSUME SoundAnswers
  PROVE  Spec => []AckInvariant
BY AckInit, AckNext, TypeCorrect, PTL DEF Spec

\* What is acknowledged is on disk (server.c:147-159), for a file too short for
\* its numbers to wrap, as long as writes to it succeed.
THEOREM AcksCorrect ==
  ASSUME NoWrap, SoundAnswers
  PROVE  Spec => []AcksAreWritten
<1>1. AckInvariant => AcksAreWritten
  <2> SUFFICES ASSUME AckInvariant PROVE AcksAreWritten
    OBVIOUS
  <2>1. toSnd \in Seq(SoundReplies(Len(written))) /\ small_seq <= Len(written)
    BY DEF AckInvariant
  <2>2. ASSUME NEW i \in 1 .. Len(toSnd), DecodesOK(toSnd[i]), toSnd[i].TYPE = PTYPE_ACK
        PROVE  toSnd[i].SEQNUM <= Len(written)
    <3>1. toSnd[i] \in SoundReplies(Len(written))
      BY <2>1
    <3>2. toSnd[i].CRC # "hdr"
      BY <2>2 DEF DecodesOK, DecodeStatus
    <3> QED
      BY <2>2, <3>1, <3>2 DEF SoundReplies
  <2> QED
    BY <2>1, <2>2 DEF AcksAreWritten
<1> QED
  BY <1>1, AckSound, PTL

-----------------------------------------------------------------------------
(***************************************************************************)
(* The second loop, where damage is the only thing that can go wrong.      *)
(***************************************************************************)

\* An answer the second loop reads ends it: it is intact.
LEMMA AnswerEnds ==
  ASSUME "corrupt" \notin Faults, NEW n \in Nat, NEW d \in SoundReplies(n)
  PROVE  EndsTransfer(d)
BY DEF SoundReplies, EndsTransfer, DecodesOK, DecodeStatus

LEMMA SenderEndLoop ==
  ASSUME "corrupt" \notin Faults, TypeOK, EndLoopSound,
         \/ \E sfd \in BOOLEAN : Select(sfd) \/ EndSelect(sfd)
         \/ SelectTimeout \/ SenderStep
  PROVE  EndLoopSound'
<1>1. UNCHANGED toSnd \/ (toSnd # <<>> /\ toSnd' = Tail(toSnd))
  BY DEF Select, EndSelect, SelectTimeout, SenderStep, ReadSegment, ReadEndOfFile,
         ReadFileError, WriteRefused, ReadBadReply, HandleAck, HandleNack, HandleOther,
         ReadReply, WriteRawStruct, RetransmissionTimer, RetransmitUninitialised,
         NackUninitialised, EncodeEndOfFile, EndWrite, EndRead, netVars
<1>2. toSnd' \in Seq(SoundReplies(SEQ_MOD))
  BY <1>1, HeadTailIn DEF EndLoopSound
<1>3. CASE s_pc' \notin EndPhase \ Done
  BY <1>2, <1>3 DEF EndLoopSound
<1>4. CASE EncodeEndOfFile
  <2>1. /\ packet_encoded' = DataDatagram(Segment(s_seq_exp, NoData))
        /\ UNCHANGED s_seq_exp
    BY <1>4 DEF EncodeEndOfFile, protocolVars
  <2> QED
    BY <1>2, <2>1 DEF EndLoopSound
<1>5. CASE (\E sfd \in BOOLEAN : EndSelect(sfd)) \/ EndWrite
  <2>1. s_pc \in EndPhase \ Done /\ UNCHANGED <<packet_encoded, s_seq_exp>>
    BY <1>5 DEF EndSelect, EndWrite, EndPhase, Done, protocolVars
  <2> QED
    BY <1>2, <2>1 DEF EndLoopSound
<1>6. CASE EndRead
  <2>1. s_pc \in EndPhase \ Done /\ UNCHANGED s_seq_exp
    BY <1>6 DEF EndRead, EndPhase, Done, protocolVars
  <2>2. CASE UNCHANGED packet_encoded
    BY <1>2, <2>1, <2>2 DEF EndLoopSound
  <2>3. CASE toSnd # <<>> /\ packet_encoded' = Head(toSnd)
    <3>1. SEQ_MOD \in Nat /\ Head(toSnd) \in SoundReplies(SEQ_MOD)
      BY <2>3, HeadTailIn DEF EndLoopSound
    <3>2. EndsTransfer(packet_encoded')
      BY <2>3, <3>1, AnswerEnds
    <3>3. s_pc' = "done"
      BY <1>6, <3>2 DEF EndRead
    <3> QED
      BY <1>3, <3>3 DEF Done
  <2> QED
    BY <1>6, <2>2, <2>3 DEF EndRead
<1>7. CASE \/ \E sfd \in BOOLEAN : Select(sfd)
           \/ SelectTimeout \/ ReadSegment \/ ReadEndOfFile \/ ReadFileError
           \/ ReadBadReply \/ HandleAck \/ HandleNack \/ HandleOther
  BY <1>3, <1>7
  DEF Select, SelectTimeout, ReadSegment, ReadEndOfFile, ReadFileError, ReadBadReply,
      HandleAck, HandleNack, HandleOther, Go, AfterFile, AfterSocket, AfterReply,
      LoopHead, EndPhase
<1>8. CASE WriteRefused \/ WriteRawStruct \/ RetransmissionTimer
           \/ RetransmitUninitialised \/ NackUninitialised
  BY <1>3, <1>8
  DEF WriteRefused, WriteRawStruct, RetransmissionTimer, RetransmitUninitialised,
      NackUninitialised, UseOfUninitialised, Go, AfterReply, LoopHead, EndPhase, Done
<1> QED
  BY <1>4, <1>5, <1>6, <1>7, <1>8 DEF SenderStep

LEMMA ReceiverEndLoop ==
  ASSUME TypeOK, EndLoopSound, ReceiverStep, UNCHANGED sndVars
  PROVE  EndLoopSound'
<1>1. UNCHANGED <<s_pc, s_seq_exp, packet_encoded>>
  BY DEF sndVars, protocolVars
<1>2. SEQ_MOD \in Nat /\ \A s \in SeqNums : s <= SEQ_MOD
  BY DEF SeqNums
<1>3. ASSUME NEW type \in {PTYPE_ACK, PTYPE_NACK}, NEW seq \in SeqNums, SendAck(type, seq)
      PROVE  toSnd' \in Seq(SoundReplies(SEQ_MOD))
  BY <1>2, <1>3, SendAckSound DEF EndLoopSound
<1>4. toSnd' \in Seq(SoundReplies(SEQ_MOD))
  <2>1. CASE UNCHANGED toSnd
    BY <2>1 DEF EndLoopSound
  <2>2. CASE ReceiveTruncated
    <3>1. Head(toRcv) \in DatagramSet
      BY <2>2, HeadTailIn DEF ReceiveTruncated, Receive, TypeOK, NetworkTypeOK
    <3>2. Incoming.SEQNUM + 1 \in Int
      BY <3>1 DEF Incoming, DatagramSet, SeqNums
    <3>3. (Incoming.SEQNUM + 1) % SEQ_MOD \in SeqNums
      BY <3>2, ModRange DEF SeqNums
    <3> QED
      BY <1>3, <2>2, <3>3 DEF ReceiveTruncated
  <2>3. CASE AcknowledgeSegment \/ AcknowledgeEndOfFile
    BY <1>3, <2>3 DEF AcknowledgeSegment, AcknowledgeEndOfFile, TypeOK, ReceiverTypeOK
  <2> QED
    BY <2>1, <2>2, <2>3
    DEF ReceiverStep, Bind, WaitForClient, ReceiveError, ReceiveInvalid,
        ReceiveEndOfFile, ReceiveSegment, Receive, WriteSlot, Close, netVars
<1> QED
  BY <1>1, <1>4 DEF EndLoopSound

LEMMA EndLoopInit == Init => EndLoopSound
BY DEF Init, NetworkInit, SenderInit, EndLoopSound, EndPhase

LEMMA EndLoopNext ==
  "corrupt" \notin Faults /\ TypeOK /\ EndLoopSound /\ [Next]_vars => EndLoopSound'
<1> SUFFICES ASSUME "corrupt" \notin Faults, TypeOK, EndLoopSound, [Next]_vars
             PROVE  EndLoopSound'
  OBVIOUS
<1>1. CASE SenderSelect \/ SenderTimeout \/ SenderEndSelect \/ SenderProceeds
  BY <1>1, SenderEndLoop
  DEF SenderSelect, SenderTimeout, SenderEndSelect, SenderProceeds
<1>2. CASE ReceiverProceeds
  BY <1>2, ReceiverEndLoop DEF ReceiverProceeds
<1>3. CASE Unreachable \/ ReceiverDies \/ Terminated \/ UNCHANGED vars
  <2>1. /\ UNCHANGED <<s_pc, s_seq_exp, packet_encoded>>
        /\ UNCHANGED toSnd \/ (toSnd # <<>> /\ toSnd' = Tail(toSnd))
    BY <1>3
    DEF Unreachable, SenderUnreachable, ReceiverUnreachable, ReceiverDies,
        ReceiverKilled, Terminated, vars, netVars, sndVars, protocolVars
  <2>2. toSnd' \in Seq(SoundReplies(SEQ_MOD))
    BY <2>1, HeadTailIn DEF EndLoopSound
  <2> QED
    BY <2>1, <2>2 DEF EndLoopSound
<1> QED
  BY <1>1, <1>2, <1>3 DEF Next

\* Unless answers are damaged, the message sent until the answer comes is the end
\* of the file, whatever else happens: an answer read over it ends the loop
\* (client.c:389-404).
THEOREM EndLoopCorrect ==
  ASSUME "corrupt" \notin Faults
  PROVE  Spec => []EndLoopSendsEndOfFile
<1>1. EndLoopSound => EndLoopSendsEndOfFile
  BY DEF EndLoopSound, EndLoopSendsEndOfFile, EndPhase, Done
<1> QED
  BY <1>1, EndLoopInit, EndLoopNext, TypeCorrect, PTL DEF Spec
=============================================================================
