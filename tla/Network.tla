------------------------------ MODULE Network -------------------------------
(***************************************************************************)
(* The UDP service between the two programs, as socket.c and the read,     *)
(* write and select calls of client.c and server.c use it (external).      *)
(*                                                                         *)
(* Each direction is the sequence of datagrams written and not yet read.   *)
(* What the network may do to a datagram is decided when it is written:    *)
(* Faults names what it is capable of, and at most MaxFaults datagrams are *)
(* affected.  A datagram written to a full queue is dropped, as a full     *)
(* socket buffer does, at no cost.                                         *)
(***************************************************************************)
EXTENDS Datagram, SequencesExt

CONSTANTS
  Faults,       \* what may go wrong in the environment
  MaxFaults,    \* bound: how often it does
  Capacity      \* bound: datagrams queued in one direction

AllFaults == {"lose", "dup", "reorder", "corrupt", "truncate", "recrc",
              "icmp", "io", "kill"}
ASSUME NetworkAssumption ==
  /\ Faults \subseteq AllFaults
  /\ MaxFaults \in Nat
  /\ Capacity \in Nat \ {0}

VARIABLES
  toRcv,        \* datagrams on their way to the receiver
  toSnd,        \* datagrams on their way to the sender
  s_err,        \* the sender's socket has a pending ECONNREFUSED
  r_err,        \* the receiver's socket has one
  faults        \* faults so far

netVars == <<toRcv, toSnd, s_err, r_err, faults>>

MayFail(fault) == fault \in Faults /\ faults < MaxFaults

Headers == [TYPE : Types, SEQNUM : SeqNums, WINDOW : WindowSizes]

\* Bytes of the header were damaged.  pkt_decode stores the header before it
\* fails, and the sender may handle what it stored of a reply, any field of
\* which may therefore have any value.  Of a data packet the receiver uses
\* nothing if it does not decode; its number stands for all that is damaged.
DamagedHeader(d) ==
  {[d EXCEPT !.TYPE = h.TYPE, !.SEQNUM = h.SEQNUM, !.WINDOW = h.WINDOW,
             !.CRC = "hdr"] :
     h \in IF d.TYPE = PTYPE_DATA
              THEN {[Header(d) EXCEPT !.SEQNUM = s] : s \in SeqNums} ELSE Headers}

\* Some byte was damaged, in the header or in the payload.
Damaged(d) ==
  DamagedHeader(d)
    \cup (IF Length(d) > 0 THEN {[d EXCEPT !.CRC = "payload"]} ELSE {})

\* A router that truncates a data datagram sets its TR bit.  pkt_decode
\* computes the header's checksum with that bit in it, so the datagram only
\* decodes if the checksum was recomputed too ("recrc").
Truncated(d, crc) ==
  IF Length(d) > 0 THEN {[d EXCEPT !.TR = 1, !.CRC = crc]} ELSE {}

Altered(d) ==
  (IF "corrupt" \in Faults THEN Damaged(d) ELSE {})
    \cup (IF "truncate" \in Faults THEN Truncated(d, "hdr") ELSE {})
    \cup (IF "recrc" \in Faults THEN Truncated(d, "ok") ELSE {})

Push(ch, d) == IF Len(ch) < Capacity THEN Append(ch, d) ELSE ch

\* The contents the queue ch may have once a fault hit datagram d.
Misdelivered(ch, d) ==
  (IF "lose" \in Faults THEN {ch} ELSE {})
    \cup (IF "dup" \in Faults THEN {Push(Push(ch, d), d)} ELSE {})
    \cup (IF "reorder" \in Faults /\ Len(ch) < Capacity
            THEN {InsertAt(ch, i, d) : i \in 1 .. Len(ch)} ELSE {})
    \cup {Push(ch, a) : a \in Altered(d)}

\* write() of datagram d on a socket without a pending error; ch and ch1 are
\* the queue before and after.
Transmit(ch, ch1, d) ==
  \/ ch1 = Push(ch, d) /\ UNCHANGED faults
  \/ faults < MaxFaults /\ ch1 \in Misdelivered(ch, d) /\ faults' = faults + 1

NetworkInit ==
  /\ toRcv = <<>> /\ toSnd = <<>>
  /\ s_err = FALSE /\ r_err = FALSE
  /\ faults = 0
=============================================================================
