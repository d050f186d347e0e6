------------------------------- MODULE Sender -------------------------------
(***************************************************************************)
(* send_data of client.c: the program that reads a file in segments and    *)
(* sends it.  One iteration of its first loop is select, then what the     *)
(* file had (if selected), what the socket had (if selected), and the      *)
(* retransmission if neither sent or acknowledged anything; s_pc says      *)
(* which comes next.  The second loop sends the end-of-file datagram.      *)
(***************************************************************************)
EXTENDS Network

CONSTANTS
  NSegments,    \* segments of the file: read() returns 0 after that many
  FromFile      \* a file was named (else stdin): no retransmission without

ASSUME SenderAssumption == NSegments \in Nat /\ FromFile \in BOOLEAN

VARIABLES
  s_pc,           \* where send_data is
  s_sfd,          \* FD_ISSET(sfd, &read_set) after select
  sent,           \* 1 if this iteration sent a new segment
  endFile,        \* 1 once the end of the file was read
  buffer_empty,   \* 0 before the first segment (the name misleads), else 1
  small_seq,      \* oldest sequence number not acknowledged
  small_ind,      \* index in buffer of that segment
  seq_ind,        \* number of segments read and sent
  s_seq_exp,      \* next sequence number to send
  s_window,       \* window: 1, then the receiver's
  buffer,         \* segments kept for retransmission, Uninit if never stored
  s_pkt_ack,      \* header fields of pkt_ack, the last datagram decoded
  packet_encoded, \* in the second loop: the bytes it writes
  undef           \* history: memory that was never initialised was used

protocolVars == <<endFile, buffer_empty, small_seq, small_ind, seq_ind,
                  s_seq_exp, s_window, buffer>>
sndVars == <<s_pc, s_sfd, sent, protocolVars, s_pkt_ack, packet_encoded,
             undef>>

Uninit == Segment(0, NoData)
Segments == [SEQNUM : SeqNums, PAYLOAD : 1 .. NSegments]
Done == {"done", "aborted", "crashed"}

\* pkt_ack starts as a copy of pkt_send: a data packet with window 1.
SenderInit ==
  /\ s_pc = "select" /\ s_sfd = FALSE /\ sent = 0
  /\ endFile = 0 /\ buffer_empty = 0
  /\ small_seq = 0 /\ small_ind = 0 /\ seq_ind = 0 /\ s_seq_exp = 0
  /\ s_window = 1
  /\ buffer = [i \in SndSlots |-> Uninit]
  /\ s_pkt_ack = [TYPE |-> PTYPE_DATA, SEQNUM |-> 0, WINDOW |-> 1]
  /\ packet_encoded = DataDatagram(Uninit)
  /\ undef = FALSE

-----------------------------------------------------------------------------
(***************************************************************************)
(* Control within an iteration.                                            *)
(***************************************************************************)

\* Variant: the loop runs until buffer_empty says so, as its condition reads
\* without the break.
BugRunsUntilEmpty(end) ==
  IF end = 1 /\ buffer_empty = 0 THEN "end_encode" ELSE "select"

\* The head of the first loop: it ends as soon as the file does.
LoopHead(end) == IF end = 1 THEN "end_encode" ELSE "select"

\* Variant: there is no retransmission.
BugNoTimer(end, new) == LoopHead(end)

\* After the socket brought no answer: the retransmission applies if nothing
\* was sent in this iteration.
AfterSocket(end, new) ==
  IF FromFile /\ new = 0 THEN "timer" ELSE LoopHead(end)

\* Variant: an answer does not count as an acknowledgement.
BugTimerIgnoresAck(end) == AfterSocket(end, sent)

\* After an answer, which makes ack_received 1: no retransmission.
AfterReply(end) == LoopHead(end)

AfterFile(end, new) ==
  IF s_sfd THEN "socket" ELSE AfterSocket(end, new)

\* sent is reset at the start of the next iteration.
Go(pc, new) == s_pc' = pc /\ sent' = IF pc = "socket" THEN new ELSE 0

Write(d) == Transmit(toRcv, toRcv', d)

\* Variant: one segment too many in the window.
BugWindowPlusOne == s_seq_exp - small_seq <= s_window

\* The window test is on sequence numbers, without their modulus.
isNotFull == s_seq_exp - small_seq < s_window

FileSelected == endFile = 0 /\ (buffer_empty = 0 \/ isNotFull)

\* Something to read on the socket: a datagram, or a pending error.
Readable == toSnd # <<>> \/ s_err

(***************************************************************************)
(* select() with something ready.  A regular file is always ready, stdin   *)
(* may not be; a datagram in toSnd may still be in transit (sfd = FALSE).  *)
(***************************************************************************)
Select(sfd) ==
  /\ s_pc = "select"
  /\ sfd => Readable
  /\ \/ /\ FileSelected
        /\ s_pc' = "file"
     \/ /\ FileSelected => ~FromFile
        /\ sfd
        /\ s_pc' = "socket"
  /\ s_sfd' = sfd
  /\ UNCHANGED <<netVars, sent, protocolVars, s_pkt_ack, packet_encoded, undef>>

\* select() after 100 ms with nothing ready.
SelectTimeout ==
  /\ s_pc = "select"
  /\ FileSelected => ~FromFile
  /\ s_pc' = AfterSocket(endFile, 0)
  /\ s_sfd' = FALSE
  /\ UNCHANGED <<netVars, sent, protocolVars, s_pkt_ack, packet_encoded, undef>>

-----------------------------------------------------------------------------
(***************************************************************************)
(* The file.                                                               *)
(***************************************************************************)
ReadSegment ==
  /\ s_pc = "file" /\ seq_ind < NSegments /\ ~s_err
  /\ LET seg == Segment(s_seq_exp, seq_ind + 1)
     IN  /\ buffer' = [buffer EXCEPT ![seq_ind % s_window] = seg]
         /\ Write(DataDatagram(seg))
  /\ buffer_empty' = 1
  /\ s_seq_exp' = (s_seq_exp + 1) % SEQ_MOD
  /\ seq_ind' = seq_ind + 1
  /\ Go(AfterFile(endFile, 1), 1)
  /\ UNCHANGED <<toSnd, s_err, r_err, s_sfd, endFile, small_seq, small_ind,
                 s_window, s_pkt_ack, packet_encoded, undef>>

\* Variant: a last segment that is not full is taken for the end.
BugShortReadEnds == seq_ind + 1 >= NSegments

AtEndOfFile == seq_ind = NSegments

ReadEndOfFile ==
  /\ s_pc = "file" /\ AtEndOfFile
  /\ endFile' = 1
  /\ Go(AfterFile(1, 0), 0)
  /\ UNCHANGED <<netVars, s_sfd, buffer_empty, small_seq, small_ind, seq_ind,
                 s_seq_exp, s_window, buffer, s_pkt_ack, packet_encoded, undef>>

\* read() fails: the function returns.
ReadFileError ==
  /\ s_pc = "file" /\ MayFail("io")
  /\ faults' = faults + 1
  /\ s_pc' = "aborted"
  /\ UNCHANGED <<toRcv, toSnd, s_err, r_err, s_sfd, sent, protocolVars,
                 s_pkt_ack, packet_encoded, undef>>

\* Every write() of the function returns -1 when an error is pending on the
\* socket, and the function then returns.
WriteRefused ==
  /\ s_err
  /\ \/ s_pc = "file" /\ seq_ind < NSegments
     \/ s_pc = "timer" /\ buffer[small_ind % s_window] # Uninit
     \/ s_pc \in {"nack_raw", "end_write"}
  /\ s_pc' = "aborted"
  /\ s_err' = FALSE
  /\ UNCHANGED <<toRcv, toSnd, r_err, faults, s_sfd, sent, protocolVars,
                 s_pkt_ack, packet_encoded, undef>>

-----------------------------------------------------------------------------
(***************************************************************************)
(* The socket: an ACK, a NACK, anything else.                              *)
(***************************************************************************)

\* A datagram that does not decode, which still overwrites pkt_ack.
ReadBadReply ==
  /\ s_pc = "socket" /\ ~s_err
  /\ toSnd # <<>> /\ ~DecodesOK(Head(toSnd))
  /\ toSnd' = Tail(toSnd)
  /\ s_pkt_ack' = Header(Head(toSnd))
  /\ Go(AfterSocket(endFile, sent), 0)
  /\ UNCHANGED <<toRcv, s_err, r_err, faults, s_sfd, protocolVars,
                 packet_encoded, undef>>

(***************************************************************************)
(* What the handler works on: the datagram just decoded, or, when read()   *)
(* returned -1 and pkt_decode was not called, what pkt_ack still held.     *)
(***************************************************************************)
Reply == IF s_err THEN s_pkt_ack ELSE Header(Head(toSnd))

ReadReply(type) ==
  /\ s_pc = "socket"
  /\ \/ s_err /\ UNCHANGED toSnd
     \/ ~s_err /\ toSnd # <<>> /\ DecodesOK(Head(toSnd)) /\ toSnd' = Tail(toSnd)
  /\ s_err' = FALSE
  /\ Reply.TYPE = type
  /\ s_pkt_ack' = Reply
  /\ s_window' = IF Reply.WINDOW > s_window THEN Reply.WINDOW ELSE s_window

\* Variant: the window from before this ACK is used.
BugIndexByOldWindow(seq) ==
  (small_ind + ((seq - small_seq) % SEQ_MOD)) % s_window

(***************************************************************************)
(* adapt_buffer steps small_seq to the acknowledged number one by one,     *)
(* modulo SEQ_MOD, and small_ind along with it, modulo the window: so many *)
(* steps as the number is ahead, all the way round if it is behind.        *)
(***************************************************************************)
AckedInd(seq) == (small_ind + ((seq - small_seq) % SEQ_MOD)) % s_window'

HandleAck ==
  /\ ReadReply(PTYPE_ACK)
  /\ small_seq' = Reply.SEQNUM
  /\ small_ind' = AckedInd(Reply.SEQNUM)
  /\ buffer_empty' = IF endFile = 1 /\ small_ind' = s_seq_exp THEN 0
                                                             ELSE buffer_empty
  /\ Go(AfterReply(endFile), 0)
  /\ UNCHANGED <<toRcv, r_err, faults, s_sfd, endFile, seq_ind, s_seq_exp,
                 buffer, packet_encoded, undef>>

\* The slot a NACK makes the sender look at.  seq is a uint8_t, so that
\* seq += 256 leaves it alone.
NackIndex == (small_ind % s_window') + Reply.SEQNUM + (Reply.SEQNUM - small_seq)

\* The segment is encoded and written, then (nack_raw) its struct as it is.
HandleNack ==
  /\ ReadReply(PTYPE_NACK)
  /\ NackIndex \in SndSlots /\ buffer[NackIndex] # Uninit
  /\ packet_encoded' = DataDatagram(buffer[NackIndex])
  /\ Write(packet_encoded')
  /\ Go("nack_raw", 0)
  /\ UNCHANGED <<r_err, s_sfd, endFile, buffer_empty, small_seq, small_ind,
                 seq_ind, s_seq_exp, buffer, undef>>

\* The bytes of the struct: its header is a valid one, but a pointer stands
\* where the payload should.
WriteRawStruct ==
  /\ s_pc = "nack_raw" /\ ~s_err
  /\ Write([packet_encoded EXCEPT !.CRC = "payload"])
  /\ Go(AfterReply(endFile), 0)
  /\ UNCHANGED <<toSnd, s_err, r_err, s_sfd, protocolVars, s_pkt_ack,
                 packet_encoded, undef>>

\* Neither ACK nor NACK, but a data packet or no packet at all: only the window
\* is taken from it, yet it counts as an acknowledgement for the rest of the
\* iteration.
HandleOther ==
  /\ \E type \in Types \ {PTYPE_ACK, PTYPE_NACK} : ReadReply(type)
  /\ Go(AfterReply(endFile), 0)
  /\ UNCHANGED <<toRcv, r_err, faults, s_sfd, endFile, buffer_empty, small_seq,
                 small_ind, seq_ind, s_seq_exp, buffer, packet_encoded, undef>>

-----------------------------------------------------------------------------
(***************************************************************************)
(* The retransmission, and memory that was never written.                  *)
(***************************************************************************)
RetransmissionTimer ==
  /\ s_pc = "timer" /\ ~s_err
  /\ LET seg == buffer[small_ind % s_window]
     IN  seg # Uninit /\ Write(DataDatagram(seg))
  /\ Go(LoopHead(endFile), 0)
  /\ UNCHANGED <<toSnd, s_err, r_err, s_sfd, protocolVars, s_pkt_ack,
                 packet_encoded, undef>>

\* What pkt_encode may make of a struct at an address no one stored: any
\* datagram, with valid checksums.  All that the receiver drops for their type
\* are one, an ACK.
JunkDatagrams ==
  [TYPE : {PTYPE_DATA, PTYPE_ACK}, TR : {0, 1}, SEQNUM : SeqNums, WINDOW : {0},
   PAYLOAD : {NoData, Junk}, CRC : {"ok"}]

(***************************************************************************)
(* buffer[...] read before it was stored, or outside the array: a fault, a *)
(* write of some datagram, or a write that fails.                          *)
(***************************************************************************)
UseOfUninitialised ==
  \/ /\ s_pc' \in {"crashed", "aborted"}
     /\ UNCHANGED <<toRcv, faults, sent>>
  \/ /\ \E d \in JunkDatagrams : Write(d)
     /\ Go(LoopHead(endFile), 0)

RetransmitUninitialised ==
  /\ s_pc = "timer" /\ buffer[small_ind % s_window] = Uninit
  /\ UseOfUninitialised
  /\ undef' = TRUE
  /\ UNCHANGED <<toSnd, s_err, r_err, s_sfd, protocolVars, s_pkt_ack,
                 packet_encoded>>

NackUninitialised ==
  /\ ReadReply(PTYPE_NACK)
  /\ NackIndex \in SndSlots => buffer[NackIndex] = Uninit
  /\ UseOfUninitialised
  /\ undef' = TRUE
  /\ UNCHANGED <<r_err, s_sfd, endFile, buffer_empty, small_seq, small_ind,
                 seq_ind, s_seq_exp, buffer, packet_encoded>>

-----------------------------------------------------------------------------
(***************************************************************************)
(* The second loop: an empty datagram until an answer comes.               *)
(***************************************************************************)
EncodeEndOfFile ==
  /\ s_pc = "end_encode"
  /\ packet_encoded' = DataDatagram(Segment(s_seq_exp, NoData))
  /\ s_pc' = "end_select"
  /\ UNCHANGED <<netVars, s_sfd, sent, protocolVars, s_pkt_ack, undef>>

\* Variant: an answer that is already there is read before anything is sent.
BugEndReadFirst(sfd) ==
  /\ s_pc = "end_select"
  /\ sfd => Readable
  /\ s_sfd' = sfd
  /\ s_pc' = IF sfd THEN "end_read" ELSE "end_write"
  /\ UNCHANGED <<netVars, sent, protocolVars, s_pkt_ack, packet_encoded, undef>>

EndSelect(sfd) ==
  /\ s_pc = "end_select"
  /\ sfd => Readable
  /\ s_sfd' = sfd
  /\ s_pc' = "end_write"
  /\ UNCHANGED <<netVars, sent, protocolVars, s_pkt_ack, packet_encoded, undef>>

\* The write comes before the read, whatever select() said.
EndWrite ==
  /\ s_pc = "end_write" /\ ~s_err
  /\ Write(packet_encoded)
  /\ s_pc' = IF s_sfd THEN "end_read" ELSE "end_select"
  /\ UNCHANGED <<toSnd, s_err, r_err, s_sfd, sent, protocolVars, s_pkt_ack,
                 packet_encoded, undef>>

\* Variant: only the answer to the end of the file is taken for one.
BugOwnAckEnds(d) == DecodesOK(d) /\ d.SEQNUM = (s_seq_exp + 1) % SEQ_MOD

EndsTransfer(d) == DecodesOK(d)

(***************************************************************************)
(* The answer is read over the datagram to send: whatever decodes ends the *)
(* transfer, and what does not is what the next iterations send.  When     *)
(* read() returns -1 the datagram decoded is the one in the buffer.        *)
(***************************************************************************)
EndRead ==
  /\ s_pc = "end_read"
  /\ \/ /\ s_err
        /\ UNCHANGED <<toSnd, packet_encoded>>
     \/ /\ ~s_err /\ toSnd # <<>>
        /\ packet_encoded' = Head(toSnd)
        /\ toSnd' = Tail(toSnd)
  /\ s_err' = FALSE
  /\ s_pkt_ack' = Header(packet_encoded')
  /\ s_pc' = IF EndsTransfer(packet_encoded') THEN "done" ELSE "end_select"
  /\ UNCHANGED <<toRcv, r_err, faults, s_sfd, sent, protocolVars, undef>>

(***************************************************************************)
(* A datagram for a sender that has ended: the port is unreachable, which  *)
(* the receiver's socket learns of if ICMP is not filtered.                *)
(***************************************************************************)
SenderUnreachable ==
  /\ s_pc \in Done /\ toSnd # <<>>
  /\ toSnd' = Tail(toSnd)
  /\ r_err' = ("icmp" \in Faults)
  /\ UNCHANGED <<toRcv, s_err, faults, sndVars>>

\* All the sender's steps but its timeouts and its calls of select().
SenderStep ==
  \/ ReadSegment \/ ReadEndOfFile \/ ReadFileError \/ WriteRefused
  \/ ReadBadReply \/ HandleAck \/ HandleNack \/ WriteRawStruct \/ HandleOther
  \/ RetransmissionTimer \/ RetransmitUninitialised \/ NackUninitialised
  \/ EncodeEndOfFile \/ EndWrite \/ EndRead
=============================================================================
