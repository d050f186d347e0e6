------------------------------ MODULE Receiver ------------------------------
(***************************************************************************)
(* receive_data of server.c: the program that puts the segments back in    *)
(* order and writes them to a file, acknowledging what it got.  r_pc says  *)
(* which blocking call or loop it is in.                                   *)
(***************************************************************************)
EXTENDS Network

CONSTANTS
  FinalAcks,      \* acknowledgements sent at the end: 11
  ReceiverFirst   \* the receiver is up before the sender's first datagram

ASSUME ReceiverAssumption ==
  FinalAcks \in Nat \ {0} /\ ReceiverFirst \in BOOLEAN

VARIABLES
  r_pc,           \* where receive_data is
  r_seq_exp,      \* next sequence number expected
  index,          \* slot of that segment
  buffer_payload, \* payload of each slot, NoData if buffer_len is -1
  r_held,         \* slot that points to pkt_rcv's own payload, or NoSlot
  written,        \* payloads written to the file
  r_count         \* final acknowledgements sent

rcvVars == <<r_pc, r_seq_exp, index, buffer_payload, r_held, written, r_count>>

NoSlot == -1
Ended == {"closed", "aborted"}

ReceiverInit ==
  /\ r_pc = IF ReceiverFirst THEN "wait" ELSE "unbound"
  /\ r_seq_exp = 0 /\ index = 0
  /\ buffer_payload = [i \in Slots |-> NoData]
  /\ r_held = NoSlot
  /\ written = <<>>
  /\ r_count = 0

\* Variant: the number sent is one too far.
BugAckTooFar(type, seq) ==
  \/ r_err /\ r_err' = FALSE /\ UNCHANGED <<toSnd, faults>>
  \/ /\ ~r_err /\ UNCHANGED r_err
     /\ Transmit(toSnd, toSnd', AckDatagram(type, (seq + 1) % SEQ_MOD))

\* Sending an ACK or NACK: a write that fails is only reported on stderr.
SendAck(type, seq) ==
  \/ r_err /\ r_err' = FALSE /\ UNCHANGED <<toSnd, faults>>
  \/ ~r_err /\ Transmit(toSnd, toSnd', AckDatagram(type, seq)) /\ UNCHANGED r_err

-----------------------------------------------------------------------------
\* create_socket binds the receiver's port.
Bind ==
  /\ r_pc = "unbound"
  /\ r_pc' = "wait"
  /\ UNCHANGED <<netVars, r_seq_exp, index, buffer_payload, r_held, written,
                 r_count>>

\* wait_for_client looks at a datagram without consuming it and connects.
WaitForClient ==
  /\ r_pc = "wait" /\ toRcv # <<>>
  /\ r_pc' = "select"
  /\ UNCHANGED <<netVars, r_seq_exp, index, buffer_payload, r_held, written,
                 r_count>>

\* read() reports a pending ECONNREFUSED first: the function returns.
ReceiveError ==
  /\ r_pc = "select" /\ r_err
  /\ r_pc' = "aborted"
  /\ r_err' = FALSE
  /\ UNCHANGED <<toRcv, toSnd, s_err, faults, r_seq_exp, index, buffer_payload,
                 r_held, written, r_count>>

\* The datagram at hand, read and decoded into pkt_rcv.
Incoming == Head(toRcv)

Receive ==
  /\ r_pc = "select" /\ ~r_err
  /\ toRcv # <<>>
  /\ toRcv' = Tail(toRcv)

IsData(d) == DecodesOK(d) /\ d.TYPE = PTYPE_DATA

\* A datagram that is not a valid data packet is dropped.  If only its
\* payload is damaged that has still become pkt_rcv's payload.
ReceiveInvalid ==
  /\ Receive /\ ~IsData(Incoming)
  /\ r_held' = IF Incoming.CRC = "payload" THEN NoSlot ELSE r_held
  /\ UNCHANGED <<toSnd, s_err, r_err, faults, r_pc, r_seq_exp, index,
                 buffer_payload, written, r_count>>

(***************************************************************************)
(* A truncated packet is answered by a NACK for the number after its own.  *)
(* Its TR bit makes pkt_set_payload believe the previous payload unused    *)
(* and free it, which a slot may still point to.                           *)
(***************************************************************************)
ReceiveTruncated ==
  /\ Receive /\ IsData(Incoming) /\ Incoming.TR = 1
  /\ SendAck(PTYPE_NACK, (Incoming.SEQNUM + 1) % SEQ_MOD)
  /\ buffer_payload' = [i \in Slots |-> IF i = r_held THEN Junk
                                                     ELSE buffer_payload[i]]
  /\ r_held' = NoSlot
  /\ UNCHANGED <<s_err, r_pc, r_seq_exp, index, written, r_count>>

\* An empty packet ends the transfer, whatever its sequence number.
ReceiveEndOfFile ==
  /\ Receive /\ IsData(Incoming) /\ Incoming.TR = 0 /\ Length(Incoming) = 0
  /\ r_pc' = "final"
  /\ UNCHANGED <<toSnd, s_err, r_err, faults, r_seq_exp, index, buffer_payload,
                 r_held, written, r_count>>

-----------------------------------------------------------------------------
(***************************************************************************)
(* add_buffer: whether a sequence number is in the window, and its slot.   *)
(***************************************************************************)
\* Variants: every number is taken; the window ends where the numbers do.
BugTakesAny(seq) == TRUE
BugWindowUnwrapped(seq) == r_seq_exp <= seq /\ seq <= r_seq_exp + RCV_WINDOW - 1

InWindow(seq) ==
  \/ r_seq_exp <= seq /\ seq <= r_seq_exp + RCV_WINDOW - 1
  \/ /\ r_seq_exp + RCV_WINDOW - 1 > SEQ_MOD
     /\ seq <= (r_seq_exp + RCV_WINDOW - 1) % SEQ_MOD

\* Variants: the slot is not reduced modulo the window; index is forgotten.
BugSlotNoModulus(seq) ==
  index + (IF seq < r_seq_exp THEN seq + SEQ_MOD ELSE seq) - r_seq_exp
BugSlotFromZero(seq) ==
  ((IF seq < r_seq_exp THEN seq + SEQ_MOD ELSE seq) - r_seq_exp) % RCV_WINDOW

SlotOf(seq) ==
  LET unwrapped == IF seq < r_seq_exp THEN seq + SEQ_MOD ELSE seq
  IN  (index + (unwrapped - r_seq_exp)) % RCV_WINDOW

ReceiveSegment ==
  /\ Receive /\ IsData(Incoming) /\ Length(Incoming) > 0
  /\ \/ /\ InWindow(Incoming.SEQNUM)
        /\ r_held' = SlotOf(Incoming.SEQNUM)
        /\ buffer_payload' = [buffer_payload EXCEPT ![r_held'] = Incoming.PAYLOAD]
     \/ /\ ~InWindow(Incoming.SEQNUM)
        /\ r_held' = NoSlot
        /\ UNCHANGED buffer_payload
  /\ r_pc' = "flush"
  /\ UNCHANGED <<toSnd, s_err, r_err, faults, r_seq_exp, index, written, r_count>>

\* Variant: buffer_len is not reset, and the slot is written again later.
BugNoReset ==
  /\ r_pc = "flush" /\ buffer_payload[index] # NoData
  /\ written' = Append(written, buffer_payload[index])
  /\ index' = (index + 1) % RCV_WINDOW
  /\ r_seq_exp' = (r_seq_exp + 1) % SEQ_MOD
  /\ UNCHANGED <<toRcv, toSnd, s_err, r_err, faults, r_pc, buffer_payload, r_held,
                 r_count>>

\* One turn of the loop that writes what is now in order.  An error of
\* write() is reported on stderr and otherwise ignored.
WriteSlot ==
  /\ r_pc = "flush" /\ buffer_payload[index] # NoData
  /\ \/ written' = Append(written, buffer_payload[index]) /\ UNCHANGED faults
     \/ MayFail("io") /\ faults' = faults + 1 /\ UNCHANGED written
  /\ buffer_payload' = [buffer_payload EXCEPT ![index] = NoData]
  /\ r_held' = IF r_held = index THEN NoSlot ELSE r_held
  /\ index' = (index + 1) % RCV_WINDOW
  /\ r_seq_exp' = (r_seq_exp + 1) % SEQ_MOD
  /\ UNCHANGED <<toRcv, toSnd, s_err, r_err, r_pc, r_count>>

\* The number sent is (seq_exp - 1) + 1 stored in a uint8_t.
AcknowledgeSegment ==
  /\ r_pc = "flush" /\ buffer_payload[index] = NoData
  /\ SendAck(PTYPE_ACK, r_seq_exp)
  /\ r_pc' = "select"
  /\ UNCHANGED <<toRcv, s_err, r_seq_exp, index, buffer_payload, r_held, written,
                 r_count>>

\* The end of the transfer is acknowledged FinalAcks times over.
AcknowledgeEndOfFile ==
  /\ r_pc = "final" /\ r_count < FinalAcks
  /\ SendAck(PTYPE_ACK, r_seq_exp)
  /\ r_count' = r_count + 1
  /\ UNCHANGED <<toRcv, s_err, r_pc, r_seq_exp, index, buffer_payload, r_held,
                 written>>

Close ==
  /\ r_pc = "final" /\ r_count = FinalAcks
  /\ r_pc' = "closed"
  /\ UNCHANGED <<netVars, r_seq_exp, index, buffer_payload, r_held, written,
                 r_count>>

\* The receiver's process is killed, before it takes the transfer for finished:
\* later there would only be fewer final acknowledgements.
ReceiverKilled ==
  /\ "kill" \in Faults
  /\ r_pc \in {"wait", "select", "flush"}
  /\ r_pc' = "aborted"
  /\ UNCHANGED <<netVars, r_seq_exp, index, buffer_payload, r_held, written,
                 r_count>>

(***************************************************************************)
(* A datagram for a port nobody listens on, before the receiver is up or   *)
(* after it has ended: the sender's socket learns of it unless ICMP is     *)
(* filtered.                                                               *)
(***************************************************************************)
ReceiverUnreachable ==
  /\ r_pc \in Ended \cup {"unbound"} /\ toRcv # <<>>
  /\ toRcv' = Tail(toRcv)
  /\ s_err' = ("icmp" \in Faults)
  /\ UNCHANGED <<toSnd, r_err, faults, rcvVars>>

ReceiverStep ==
  \/ Bind \/ WaitForClient \/ ReceiveError \/ ReceiveInvalid
  \/ ReceiveTruncated \/ ReceiveEndOfFile \/ ReceiveSegment \/ WriteSlot
  \/ AcknowledgeSegment \/ AcknowledgeEndOfFile \/ Close
=============================================================================
