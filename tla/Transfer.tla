------------------------------ MODULE Transfer ------------------------------
(***************************************************************************)
(* The file transfer: send_data and receive_data over UDP.                 *)
(***************************************************************************)
EXTENDS Sender, Receiver

CONSTANT
  Timely    \* the network and the receiver answer well within 100 ms

ASSUME TransferAssumption == Timely \in BOOLEAN

vars == <<netVars, sndVars, rcvVars>>

Init == NetworkInit /\ SenderInit /\ ReceiverInit

\* Nothing is on its way and the receiver has nothing left to answer.
Quiet ==
  /\ toRcv = <<>> /\ toSnd = <<>>
  /\ r_pc \notin {"flush", "final"}

\* When the transfer is timely a timer only expires if nothing is to come,
\* and select() reports whatever was sent.
SenderSelect ==
  \E sfd \in BOOLEAN :
    /\ Timely => sfd = Readable
    /\ Select(sfd) /\ UNCHANGED rcvVars

SenderTimeout ==
  /\ Timely => Quiet /\ ~s_err
  /\ SelectTimeout /\ UNCHANGED rcvVars

SenderEndSelect ==
  \E sfd \in BOOLEAN :
    /\ Timely => (IF sfd THEN Readable ELSE Quiet /\ ~s_err)
    /\ EndSelect(sfd) /\ UNCHANGED rcvVars

SenderProceeds == SenderStep /\ UNCHANGED rcvVars
ReceiverProceeds == ReceiverStep /\ UNCHANGED sndVars
ReceiverDies == ReceiverKilled /\ UNCHANGED sndVars
Unreachable ==
  \/ SenderUnreachable /\ UNCHANGED rcvVars
  \/ ReceiverUnreachable /\ UNCHANGED sndVars

\* Both programs have ended and nothing is under way.
Terminated ==
  /\ s_pc \in Done /\ r_pc \in Ended
  /\ toRcv = <<>> /\ toSnd = <<>>
  /\ UNCHANGED vars

Next ==
  \/ SenderSelect \/ SenderTimeout \/ SenderEndSelect \/ SenderProceeds
  \/ ReceiverProceeds \/ ReceiverDies
  \/ Unreachable
  \/ Terminated

Spec == Init /\ [][Next]_vars

(***************************************************************************)
(* Fairness.  Each program keeps running, the timers expire, and select()  *)
(* does not for ever miss a datagram that is there.                        *)
(***************************************************************************)
SelectReady == \E sfd \in {TRUE} : Select(sfd) /\ UNCHANGED rcvVars
EndSelectReady == \E sfd \in {TRUE} : EndSelect(sfd) /\ UNCHANGED rcvVars

Fairness ==
  /\ WF_vars(SenderSelect) /\ WF_vars(SenderTimeout) /\ WF_vars(SenderEndSelect)
  /\ SF_vars(SelectReady) /\ SF_vars(EndSelectReady)
  /\ WF_vars(SenderProceeds) /\ WF_vars(ReceiverProceeds)
  /\ WF_vars(Unreachable)

FairSpec == Spec /\ Fairness

-----------------------------------------------------------------------------
(***************************************************************************)
(* Types.                                                                  *)
(***************************************************************************)
Payloads == {Junk, NoData} \cup 1 .. NSegments

DatagramSet ==
  [TYPE : Types, TR : {0, 1}, SEQNUM : SeqNums, WINDOW : WindowSizes,
   PAYLOAD : Payloads, CRC : {"ok", "hdr", "payload"}]

NetworkTypeOK ==
  /\ toRcv \in Seq(DatagramSet) /\ toSnd \in Seq(DatagramSet)
  /\ s_err \in BOOLEAN /\ r_err \in BOOLEAN
  /\ faults \in 0 .. MaxFaults

SenderTypeOK ==
  /\ s_pc \in {"select", "file", "socket", "nack_raw", "timer", "end_encode",
               "end_select", "end_write", "end_read"} \cup Done
  /\ s_sfd \in BOOLEAN /\ sent \in {0, 1}
  /\ endFile \in {0, 1} /\ buffer_empty \in {0, 1}
  /\ small_seq \in SeqNums /\ small_ind \in SndSlots
  /\ seq_ind \in 0 .. NSegments /\ s_seq_exp \in SeqNums
  /\ s_window \in WindowSizes \ {0}
  /\ buffer \in [SndSlots -> Segments \cup {Uninit}]
  /\ s_pkt_ack \in Headers
  /\ packet_encoded \in DatagramSet
  /\ undef \in BOOLEAN

ReceiverTypeOK ==
  /\ r_pc \in {"unbound", "wait", "select", "flush", "final"} \cup Ended
  /\ r_seq_exp \in SeqNums /\ index \in Slots
  /\ buffer_payload \in [Slots -> Payloads]
  /\ r_held \in Slots \cup {NoSlot}
  /\ written \in Seq(Payloads \ {NoData})
  /\ r_count \in 0 .. FinalAcks

\* The variables of the network, the sender and the receiver (client.c:92-115,
\* server.c:56-70) only take values of the kind they are declared for; above
\* all, every index stays inside its array (client.c:179, 345, server.c:209).
TypeOK == NetworkTypeOK /\ SenderTypeOK /\ ReceiverTypeOK

-----------------------------------------------------------------------------
(***************************************************************************)
(* Safety.                                                                 *)
(***************************************************************************)

\* The file is short enough for its sequence numbers never to wrap inside the
\* window: at most 254 segments of 512 bytes.
NoWrap ==
  NSegments < SEQ_MOD /\ NSegments + RCV_WINDOW - 1 <= SEQ_MOD

\* What the receiver has written is a prefix of the file: no segment is
\* missing, repeated, out of order or made of other bytes, whatever was lost,
\* duplicated, reordered or damaged on the way (server.c:142-158).  Memory the
\* sender never initialised may be sent as data, and is set aside.
DeliveredPrefix == ~undef => \A i \in 1 .. Len(written) : written[i] = i

\* A segment the receiver has not written is still in the slot from which the
\* sender would send it again: the window never lets it be overwritten
\* (client.c:124-128, 179).
UnackedRetained ==
  ~undef => \A k \in Len(written) + 1 .. seq_ind :
              buffer[(k - 1) % RCV_WINDOW] = Segment((k - 1) % SEQ_MOD, k)

\* What is acknowledged is on disk: neither an ACK under way nor the sender's
\* own small_seq is ahead of the file (server.c:147-159, client.c:260).
AcksAreWritten ==
  /\ small_seq <= Len(written)
  /\ \A i \in 1 .. Len(toSnd) :
       DecodesOK(toSnd[i]) /\ toSnd[i].TYPE = PTYPE_ACK
         => toSnd[i].SEQNUM <= Len(written)

\* The receiver's table is aligned on the file: a slot holds the one segment
\* of its residue that is missing and within a window of the last one written
\* (server.c:209-212, 152-157).
ReceiverAligned ==
  ~undef => \A i \in Slots : LET p == buffer_payload[i] IN
              p > 0 => /\ (p - 1) % RCV_WINDOW = i
                       /\ Len(written) < p /\ p <= Len(written) + RCV_WINDOW

\* What the retransmission timer sends is the oldest segment that was not
\* acknowledged (client.c:97-98, 345).
RetransmitsOldest ==
  s_pc = "timer" /\ small_seq # s_seq_exp =>
    buffer[small_ind % s_window].SEQNUM = small_seq

\* The sender never encodes a struct through a pointer it did not store
\* (client.c:109, 302, 345).
NoUninitialisedRead == ~undef

\* What is written is never repeated nor out of order, even if writes to the
\* file fail and leave holes in it, or a payload was freed before it was
\* written (server.c:145-158, packet_implem.c:304-305).
DeliveredInOrder ==
  ~undef => \A i, j \in 1 .. Len(written) :
              i < j /\ written[i] # Junk /\ written[j] # Junk
                => written[i] < written[j]

\* When the receiver takes the transfer for finished it has the whole file
\* (server.c:132-136).
EofMeansComplete ==
  r_pc \in {"final", "closed"} => Len(written) = NSegments

\* When the sender believes the transfer acknowledged the receiver has, or
\* has been sent, the end-of-file datagram (client.c:401-404).
DoneMeansEnded ==
  s_pc = "done" =>
    \/ r_pc \in {"final", "closed"}
    \/ \E i \in 1 .. Len(toRcv) : IsData(toRcv[i]) /\ Length(toRcv[i]) = 0

\* The comparisons of add_buffer are a window modulo 256, and the slot the one
\* at that distance from index, wherever the numbers wrap; but the last number
\* of the window is not taken if it is 0 (server.c:195-213).
WindowExtent ==
  \A seq \in SeqNums :
    LET ahead == (seq - r_seq_exp) % SEQ_MOD
        cut   == seq = 0 /\ ahead # 0 /\ ahead = RCV_WINDOW - 1
    IN  /\ InWindow(seq) <=> ahead < RCV_WINDOW /\ ~cut
        /\ SlotOf(seq) = (index + ahead) % RCV_WINDOW

(***************************************************************************)
(* What comments and tests of the repository say.                          *)
(***************************************************************************)

\* "On envoie le message tant qu'on a pas eu l'ACK" (client.c:389): what the
\* second loop sends is the end-of-file packet.
EndLoopSendsEndOfFile ==
  s_pc = "end_write" => packet_encoded = DataDatagram(Segment(s_seq_exp, NoData))

\* "@post: Toutes les donnees recues sont ecrites dans le fichier"
\* (server.h:15): no payload is left in the table at the end.
ReceivedIsWritten ==
  r_pc = "closed" => \A i \in Slots : buffer_payload[i] = NoData

\* send_receive (test.c:223): when both functions have returned the two files
\* are the same.
SameFiles ==
  s_pc \in Done /\ r_pc \in Ended => written = [i \in 1 .. NSegments |-> i]

\* "On regarde si le num de segment recu est compris dans la window"
\* (server.c:196): a valid segment in the window, modulo 256, is kept.
KeepsWindow ==
  [][ ReceiveSegment /\ (Incoming.SEQNUM - r_seq_exp) % SEQ_MOD < RCV_WINDOW
        => buffer_payload'[SlotOf(Incoming.SEQNUM)] = Incoming.PAYLOAD ]_vars

-----------------------------------------------------------------------------
(***************************************************************************)
(* Liveness.                                                               *)
(***************************************************************************)

\* The transfer comes to its end on both sides with the whole file written
\* (client.h:14, server.h:15).
Completes ==
  <>(s_pc = "done" /\ r_pc = "closed" /\ Len(written) = NSegments)

\* The sender returns, whatever was lost, as long as fewer datagrams are lost
\* than the receiver sends final acknowledgements, and unless the receiver dies:
\* the sender takes no notice of an error of read(), which comes before those of
\* write(), and may go on resending for ever (client.c:117, 219, 382).
SenderReturns == <>(s_pc \in Done \/ r_pc = "aborted")

-----------------------------------------------------------------------------
(***************************************************************************)
(* The transfer implements FileDelivery: delivered is what the receiver    *)
(* wrote, finished that it got the end-of-file datagram.                   *)
(***************************************************************************)
Delivery == INSTANCE FileDelivery
  WITH delivered <- written,
       finished  <- r_pc \in {"final", "closed"},
       Reliable  <- Faults = {}

\* Every step of the two programs is a step of FileDelivery or leaves it alone:
\* the file grows by the next segment only, not after the end, and ends
\* incomplete only if something was lost.
ImplementsDelivery == Delivery!Spec

\* And it makes progress when nothing goes wrong.
ImplementsFairDelivery == Delivery!FairSpec

-----------------------------------------------------------------------------
(***************************************************************************)
(* The transfer implements SlidingWindow: the tables are buffer and        *)
(* buffer_payload.                                                         *)
(***************************************************************************)
Windows == INSTANCE SlidingWindow
  WITH Window   <- RCV_WINDOW,
       nsent    <- seq_ind,
       nwritten <- Len(written),
       kept     <- [i \in Slots |-> buffer[i].PAYLOAD],
       held     <- buffer_payload

\* Whatever is lost, repeated, late or damaged: a slot of the sender is reused
\* only when its segment is in the receiver's file, and what the receiver holds
\* was sent and is not replaced before it is written (client.c:124-179,
\* server.c:142-158, 195-213).
ImplementsWindows == Windows!Spec
=============================================================================
