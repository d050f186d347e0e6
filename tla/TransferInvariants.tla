------------------------- MODULE TransferInvariants -------------------------
(***************************************************************************)
(* Inductive invariants of Transfer: what has to be added to the safety    *)
(* properties for every step to preserve them.                             *)
(***************************************************************************)
EXTENDS Transfer

\* No fault makes the receiver lose or alter what it already accepted.
SafeReceiver == Faults \cap {"recrc", "io"} = {}

(***************************************************************************)
(* Datagrams that tell the truth.  A data datagram that decodes carries    *)
(* the segment its number says, or is marked as truncated, which takes a   *)
(* router that recomputes checksums; one whose payload is known to be      *)
(* damaged is of the kind whose second checksum is looked at.              *)
(***************************************************************************)
SoundData ==
  {d \in DatagramSet : d.TYPE = PTYPE_DATA =>
     /\ "recrc" \notin Faults /\ d.CRC # "hdr" => d.TR = 0
     /\ d.CRC = "ok" /\ d.TR = 0 /\ d.PAYLOAD # NoData => d.PAYLOAD = d.SEQNUM + 1
     /\ d.CRC = "payload" => d.TR = 0 /\ d.PAYLOAD # NoData}

\* What a reply whose header is damaged has in its fields is anything.
Replies ==
  {d \in DatagramSet : d.CRC = "hdr" \/ d.TYPE \in {PTYPE_ACK, PTYPE_NACK}}

\* A reply that decodes acknowledges no more than n segments.
SoundReplies(n) ==
  {d \in Replies : /\ d.PAYLOAD = NoData
                   /\ "corrupt" \notin Faults => d.CRC = "ok"
                   /\ d.CRC # "hdr" => d.WINDOW = RCV_WINDOW
                   /\ d.CRC # "hdr" /\ d.TYPE = PTYPE_ACK => d.SEQNUM <= n}

SenderSound ==
  /\ toRcv \in Seq(SoundData) /\ toSnd \in Seq(Replies)
  /\ packet_encoded \in SoundData
  /\ s_pc = "nack_raw" => packet_encoded.TR = 0 /\ packet_encoded.PAYLOAD # NoData
  /\ \A i \in SndSlots :
       buffer[i] # Uninit => buffer[i].PAYLOAD = buffer[i].SEQNUM + 1
  /\ s_seq_exp = seq_ind

ReceiverSound ==
  /\ r_seq_exp = Len(written)
  /\ index = Len(written) % RCV_WINDOW
  /\ \A i \in Slots : buffer_payload[i] # NoData =>
       /\ (buffer_payload[i] - 1) % RCV_WINDOW = i
       /\ Len(written) < buffer_payload[i]
       /\ buffer_payload[i] <= Len(written) + RCV_WINDOW
  /\ \A i \in 1 .. Len(written) : written[i] = i

\* Makes DeliveredPrefix inductive: every number, slot and payload on the way
\* from the file to the receiver's file agree (client.c:171-179,
\* server.c:195-213, 145-158).
DeliveryInvariant == ~undef => SenderSound /\ ReceiverSound

\* What is left of ReceiverSound when writes may fail and payloads may be freed
\* too early: the table is aligned on r_seq_exp, not on the file, and a slot that
\* holds no segment any more still stands for one.
OrderSound ==
  /\ r_seq_exp <= NSegments /\ index = r_seq_exp % RCV_WINDOW
  /\ \A i \in Slots : buffer_payload[i] # NoData =>
       \E p \in 1 .. NSegments :
         /\ (p - 1) % RCV_WINDOW = i
         /\ r_seq_exp < p /\ p <= r_seq_exp + RCV_WINDOW
         /\ buffer_payload[i] \in {p, Junk}
  /\ r_held # NoSlot => buffer_payload[r_held] # NoData
  /\ \A i \in 1 .. Len(written) : written[i] <= r_seq_exp
  /\ \A i, j \in 1 .. Len(written) :
       i < j /\ written[i] # Junk /\ written[j] # Junk => written[i] < written[j]

\* Makes DeliveredInOrder inductive, whatever fails (server.c:142-158).
OrderInvariant == ~undef => SenderSound /\ OrderSound

\* No fault makes the sender handle a damaged answer: either answers are not
\* damaged, or read() never fails on the socket.
NoStaleDamage == ~({"corrupt", "icmp"} \subseteq Faults)
SoundAnswers == "io" \notin Faults /\ NoStaleDamage

\* The second loop, and what comes after it: pkt_ack is not looked at again.
EndPhase == {"end_select", "end_write", "end_read"} \cup Done

\* Makes AcksAreWritten inductive: also the reply the sender may still hold in
\* pkt_ack is sound, as long as it may still handle it, and no other window than
\* the receiver's came with it (client.c:221-226, 247-253, server.c:159).
AckInvariant ==
  /\ r_seq_exp = Len(written) % SEQ_MOD
  /\ small_seq <= Len(written)
  /\ toSnd \in Seq(SoundReplies(Len(written)))
  /\ s_window \in {1, RCV_WINDOW}
  /\ s_pc \notin EndPhase /\ "corrupt" \notin Faults =>
       /\ s_pkt_ack.WINDOW \in {1, RCV_WINDOW}
       /\ s_pkt_ack.TYPE = PTYPE_ACK =>
            s_pkt_ack.WINDOW = RCV_WINDOW /\ s_pkt_ack.SEQNUM <= Len(written)
  /\ s_err => "icmp" \in Faults

WindowSound ==
  /\ s_window = RCV_WINDOW \/ (small_seq = 0 /\ seq_ind <= 1)
  /\ endFile = 0 /\ buffer_empty = 0 => seq_ind = 0
  /\ s_pc \in {"select", "file"} => endFile = 0
  /\ s_pc = "file" => FileSelected
  /\ seq_ind <= Len(written) + RCV_WINDOW
  /\ UnackedRetained

\* Makes UnackedRetained inductive: the sender is never more than a window
\* ahead of the receiver's file, and as long as its own window is the initial
\* one it has sent at most one segment (client.c:103, 125-128, 179).
WindowInvariant == ~undef => WindowSound

\* Makes EndLoopSendsEndOfFile inductive if nothing damages answers: each one
\* decodes, so that none is read over the end of the file and then sent. No
\* bound is asked of what they acknowledge (client.c:369-404).
EndLoopSound ==
  /\ toSnd \in Seq(SoundReplies(SEQ_MOD))
  /\ s_pc \in EndPhase \ Done =>
       packet_encoded = DataDatagram(Segment(s_seq_exp, NoData))

(***************************************************************************)
(* No use of memory that was never written.                                *)
(***************************************************************************)
\* Whether the timer may expire: the window is full, or the file has ended.
TimerReady ==
  FromFile => seq_ind >= RCV_WINDOW \/ (s_window = 1 /\ seq_ind >= 1)

\* Data that decodes is whole, and is answered by ACKs alone.
Untruncated ==
  {d \in DatagramSet : d.TYPE = PTYPE_DATA /\ d.CRC # "hdr" => d.TR = 0}
Acks ==
  {d \in DatagramSet :
     \/ d.CRC = "hdr" /\ "corrupt" \in Faults
     \/ d.TYPE = PTYPE_ACK /\ d.WINDOW = RCV_WINDOW}
DataOrAcks == {d \in Untruncated : d.TYPE = PTYPE_DATA \/ d \in Acks}

\* What the sender may handle of pkt_ack is neither a NACK nor another window
\* than the receiver's.
AcksOnly ==
  /\ toRcv \in Seq(Untruncated) /\ packet_encoded \in DataOrAcks
  /\ toSnd \in Seq(Acks)
  /\ s_pc \notin EndPhase /\ "corrupt" \notin Faults =>
       /\ s_pkt_ack.TYPE # PTYPE_NACK
       /\ s_pkt_ack.WINDOW \in {1, RCV_WINDOW}
       /\ s_pkt_ack.TYPE = PTYPE_ACK => s_pkt_ack.WINDOW = RCV_WINDOW
  /\ s_err => "icmp" \in Faults
  /\ s_pc # "nack_raw"

\* The first slots of the sender's table are stored in order, and the timer
\* only expires when the one it reads is among them.
TableFilled ==
  /\ s_seq_exp <= seq_ind
  /\ \/ s_window = RCV_WINDOW
     \/ s_window = 1 /\ small_seq = 0 /\ seq_ind <= 1 /\ s_seq_exp = seq_ind
  /\ endFile = 0 /\ buffer_empty = 0 => seq_ind = 0
  /\ s_pc \in {"select", "file"} => endFile = 0
  /\ s_pc = "file" => FileSelected
  /\ \A i \in Slots : i < seq_ind => buffer[i] # Uninit
  /\ s_pc = "timer" => FromFile
  /\ s_pc = "timer" \/ (s_pc = "socket" /\ sent = 0) => TimerReady

\* Makes NoUninitialisedRead inductive, wrap or not, if the file fills the table,
\* no router can have a NACK sent and no damage make the sender see one
\* (client.c:109, 131-142, 221, 294-302, 338-345).
TableInvariant == ~undef /\ AcksOnly /\ TableFilled

(***************************************************************************)
(* The oldest segment.                                                     *)
(***************************************************************************)
\* The network neither lets a datagram overtake another nor damages one.
KeepsOrder == Faults \cap {"reorder", "corrupt", "recrc"} = {}

\* Segment n + 1 and those after it are in the slots of their numbers.
RetainedFrom(n) ==
  \A k \in n + 1 .. seq_ind :
    buffer[(k - 1) % RCV_WINDOW] = Segment((k - 1) % SEQ_MOD, k)

SentUpTo(n) == {d \in DatagramSet : d.PAYLOAD \in 0 .. n}

\* Nothing is on the way that was not sent, whatever its number says.
SentSound ==
  /\ toRcv \in Seq(SentUpTo(seq_ind)) /\ packet_encoded \in SentUpTo(seq_ind)
  /\ \A i \in SndSlots : buffer[i].PAYLOAD \in 0 .. seq_ind

IntactAcks == {d \in Acks : d.CRC = "ok" /\ d.PAYLOAD = NoData}

\* ACKs from low to high, in order.
OrderedAcks(ch, low, high) ==
  /\ ch \in Seq(IntactAcks)
  /\ \A i \in 1 .. Len(ch) : low <= ch[i].SEQNUM /\ ch[i].SEQNUM <= high
  /\ \A i, j \in 1 .. Len(ch) : i < j => ch[i].SEQNUM <= ch[j].SEQNUM

\* Makes RetransmitsOldest inductive: ACKs come in the order of their numbers,
\* between the sender's small_seq and the receiver's seq_exp, and small_ind
\* goes along with small_seq (client.c:20-39, 258-260, server.c:159-163).
OldestSound ==
  /\ small_seq <= r_seq_exp /\ r_seq_exp <= seq_ind
  /\ seq_ind <= small_seq + RCV_WINDOW
  /\ small_ind = small_seq % RCV_WINDOW
  /\ OrderedAcks(toSnd, small_seq, r_seq_exp)
  /\ toRcv \in Seq(SentUpTo(seq_ind)) /\ packet_encoded \in SentUpTo(seq_ind)
  /\ \A i \in SndSlots : buffer[i].PAYLOAD \in 0 .. seq_ind
  /\ \A i \in Slots : buffer_payload[i] \in 0 .. seq_ind
  /\ s_pc \notin EndPhase /\ s_pkt_ack.TYPE = PTYPE_ACK => s_pkt_ack.SEQNUM = small_seq
  /\ RetainedFrom(small_seq)

(***************************************************************************)
(* A reliable transfer: nothing goes wrong, no timer expires too early,    *)
(* and the queues hold what is let through: a window, or the whole file if *)
(* its numbers wrap, from where on the window test holds nothing back      *)
(* (client.c:125).  There are numbers for two windows.                     *)
(***************************************************************************)
InFlight == IF NoWrap THEN RCV_WINDOW ELSE NSegments

ReliableTransfer ==
  /\ Faults = {} /\ Timely
  /\ Capacity >= InFlight /\ 2 * RCV_WINDOW <= SEQ_MOD

\* Segments the receiver has, how many of them it has acknowledged (the last one
\* is, once it is in the file and the loop is left), and of how many the sender
\* has got the ACK.
Received == Len(written) + (IF buffer_payload[index] = NoData THEN 0 ELSE 1)
Acked ==
  IF r_pc = "flush" /\ buffer_payload[index] = NoData THEN Len(written) - 1
                                                      ELSE Len(written)
Confirmed == Acked - Len(toSnd)

NthSegment(n) == Segment((n - 1) % SEQ_MOD, n)
NthDatagram(n) == DataDatagram(NthSegment(n))

\* The last window of n segments: the only ones that are ever sent again.
Recent(n) == {k \in 1 .. n : n < k + RCV_WINDOW}

\* The receiver was not up yet when the first segment came: until the timer
\* expires there is nothing on the way.
FirstLost ==
  /\ endFile = 0 /\ seq_ind = 1 /\ written = <<>>
  /\ toRcv = <<>> /\ r_pc \in {"unbound", "wait"}

\* What is sent once all n segments were: one of the last once more, or the
\* end-of-file datagram.
Superfluous(n) ==
  {d \in DatagramSet : d.PAYLOAD = NoData \/ \E k \in Recent(n) : d = NthDatagram(k)}

\* With r segments received of the s that were sent, the others are the first on
\* the way, in order.  What follows them was sent after the end of the file was
\* read.
SegmentsInOrder(ch, r, s, end) ==
  /\ s - r <= Len(ch)
  /\ \A i \in 1 .. Len(ch) : IF i <= s - r THEN ch[i] = NthDatagram(r + i)
                                           ELSE end = 1 /\ ch[i] \in Superfluous(s)

\* The ACKs of all segments from low to high, in order.
AcksInOrder(ch, low, high) ==
  /\ Len(ch) = high - low
  /\ \A i \in 1 .. Len(ch) : ch[i].SEQNUM = (low + i) % SEQ_MOD

\* Numbers count, modulo SEQ_MOD, and a payload received is the next segment.
ReliableReceiver ==
  /\ r_seq_exp = Len(written) % SEQ_MOD /\ index = Len(written) % RCV_WINDOW
  /\ \A i \in 1 .. Len(written) : written[i] = i
  /\ \A i \in Slots : buffer_payload[i] # NoData =>
       i = index /\ r_pc = "flush" /\ buffer_payload[i] = Len(written) + 1
  /\ r_pc \in {"unbound", "wait"} => written = <<>> /\ toSnd = <<>>
  /\ r_pc \in {"final"} \cup Ended => endFile = 1 /\ Len(written) = NSegments

ReliableSender ==
  /\ s_seq_exp = seq_ind % SEQ_MOD
  /\ s_window \in {1, RCV_WINDOW}
  /\ \A i \in SndSlots : buffer[i] # Uninit =>
       \E k \in Recent(seq_ind) : (k - 1) % RCV_WINDOW = i /\ buffer[i] = NthSegment(k)
  /\ endFile = 1 => seq_ind = NSegments
  /\ s_pc = "end_encode" \/ s_pc \in EndPhase => endFile = 1
  /\ s_pc = "timer" /\ endFile = 0 => FirstLost
  /\ (IF endFile = 0 THEN s_window > 1 \/ seq_ind > 1 ELSE seq_ind > 0)
       => written # <<>>
  /\ packet_encoded.PAYLOAD = NoData

\* Makes EofMeansComplete inductive, wrap or not: with a segment and its ACK in
\* every place the timer only sends again what is lost or no longer matters
\* (client.c:131-142, 338-345, server.c:132-136, 195-213).
ReliableSound ==
  /\ ~s_err /\ ~r_err /\ toSnd \in Seq(IntactAcks)
  /\ ReliableReceiver /\ ReliableSender
  /\ Received <= seq_ind
  /\ FirstLost \/ SegmentsInOrder(toRcv, Received, seq_ind, endFile)
  /\ endFile = 0 =>
       /\ AcksInOrder(toSnd, Confirmed, Acked) /\ 0 <= Confirmed
       /\ small_seq = Confirmed % SEQ_MOD /\ seq_ind - Confirmed <= InFlight

\* The end of the file is on the way to the receiver, or it came.
EndSent ==
  \/ r_pc \in {"final", "closed"}
  \/ \E i \in 1 .. Len(toRcv) : IsData(toRcv[i]) /\ Length(toRcv[i]) = 0

\* Makes DoneMeansEnded inductive: what the sender reads in the second loop
\* comes from a receiver that is up, after the end of the file was written to a
\* queue with room for it (client.c:382-404).
EndSound ==
  /\ r_pc # "aborted"
  /\ s_pc \in {"end_select", "end_write"} =>
       packet_encoded = DataDatagram(Segment(s_seq_exp, NoData))
  /\ s_pc \in {"select", "file", "socket", "timer"} => Len(toRcv) <= InFlight
  /\ s_pc \in {"end_encode", "end_select", "end_write"} => Len(toRcv) <= InFlight + 1
  /\ s_pc = "end_write" => IF s_sfd THEN r_pc \notin {"unbound", "wait"}
                                    ELSE toRcv = <<>>
  /\ s_pc \in {"end_read"} \cup Done => EndSent /\ r_pc \notin {"unbound", "wait"}
=============================================================================
