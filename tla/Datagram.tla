------------------------------ MODULE Datagram ------------------------------
(***************************************************************************)
(* The datagrams the two programs exchange (packet_interface.h,            *)
(* packet_implem.c), at the level the transfer protocol tells them apart.  *)
(*                                                                         *)
(* Data abstraction.  A payload is the number of the file segment it       *)
(* carries (1, 2, ...), NoData when the LENGTH field is 0, or Junk when it *)
(* is memory no one wrote.  The two checksums are one field: CRC says      *)
(* which of them, if any, no longer matches the bytes it covers.  The      *)
(* TIMESTAMP field is left out: the sender only feeds it to adapt_rtt,     *)
(* whose result is stored in a by-value copy and discarded.                *)
(***************************************************************************)
EXTENDS Integers

CONSTANTS
  SEQ_MOD,          \* number of sequence numbers: 256, SEQNUM being a uint8_t
  RCV_WINDOW,       \* the receiver's window, advertised in every ACK: 3
  MAX_WINDOW_SIZE   \* the largest WINDOW, a field of 5 bits: 31

\* memset(buffer_len, -1, MAX_WINDOW_SIZE) sets 31 bytes, hence only the
\* first 7 ints, of the receiver's table of lengths.
ASSUME SeqModAssumption == SEQ_MOD \in Nat \ {0}
ASSUME WindowAssumption ==
  /\ RCV_WINDOW \in 1..7 /\ RCV_WINDOW <= SEQ_MOD
  /\ MAX_WINDOW_SIZE \in Nat /\ RCV_WINDOW <= MAX_WINDOW_SIZE

PTYPE_DATA == 1
PTYPE_ACK  == 2
PTYPE_NACK == 3

\* What the 2 bits of TYPE and the 5 of WINDOW hold.
Types       == 0 .. 3
WindowSizes == 0 .. MAX_WINDOW_SIZE

NoData == 0
Junk   == -1

SeqNums == 0 .. SEQ_MOD - 1

\* The slots of the receiver's table that are used, and those of the sender's,
\* which has one for every window.
Slots    == 0 .. RCV_WINDOW - 1
SndSlots == 0 .. MAX_WINDOW_SIZE - 1

(***************************************************************************)
(* The struct of a data segment kept for retransmission, and the datagrams *)
(* pkt_encode makes.  The WINDOW of a data datagram is never read by the   *)
(* receiver and is not represented.                                        *)
(***************************************************************************)
Segment(seq, payload) == [SEQNUM |-> seq, PAYLOAD |-> payload]

DataDatagram(seg) ==
  [TYPE |-> PTYPE_DATA, TR |-> 0, SEQNUM |-> seg.SEQNUM, WINDOW |-> 0,
   PAYLOAD |-> seg.PAYLOAD, CRC |-> "ok"]

AckDatagram(type, seq) ==
  [TYPE |-> type, TR |-> 0, SEQNUM |-> seq, WINDOW |-> RCV_WINDOW,
   PAYLOAD |-> NoData, CRC |-> "ok"]

\* Variant: the header's checksum is not compared.
BugNoHeaderCrc(d) ==
  IF d.CRC = "payload" /\ d.TR = 0 /\ d.PAYLOAD # NoData THEN "E_CRC" ELSE "PKT_OK"

\* What pkt_decode returns for a datagram at least as long as a header.  The
\* header's checksum is compared first; the payload's only if there is a
\* payload and the datagram is not marked as truncated.
DecodeStatus(d) ==
  IF d.CRC = "hdr" \/ (d.CRC = "payload" /\ d.TR = 0 /\ d.PAYLOAD # NoData)
    THEN "E_CRC" ELSE "PKT_OK"

DecodesOK(d) == DecodeStatus(d) = "PKT_OK"

\* pkt_decode stores the header fields in its argument before it compares the
\* checksum, so these change even when it fails.
Header(d) == [TYPE |-> d.TYPE, SEQNUM |-> d.SEQNUM, WINDOW |-> d.WINDOW]

\* pkt_get_length: a truncated datagram has no length.
Length(d) == IF d.TR = 0 /\ d.PAYLOAD # NoData THEN 1 ELSE 0
=============================================================================
