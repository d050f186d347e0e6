---------------------------- MODULE PacketCodec ----------------------------
(***************************************************************************)
(* The packets as C programs see them: the struct, its setters, the memory *)
(* of its payload, pkt_encode and pkt_decode.  There are two versions, the *)
(* one of the two programs (src/Projet1) and the first one (src/Inginious) *)
(* whose operators begin with First.                                       *)
(*                                                                         *)
(* Data abstraction.  Payload bytes are a record of what they repeat and   *)
(* how many they are; a checksum is the very data it was computed from, so *)
(* that damage never goes undetected.  The copies of both checksums kept   *)
(* in the struct are left out: only tests read them.                       *)
(***************************************************************************)
EXTENDS Datagram

CONSTANTS
  MAX_PAYLOAD_SIZE,  \* 512
  Cells,             \* blocks of memory that malloc may return
  NULL,
  TIME_BYTE          \* values of a byte of the time stamp: 256

ASSUME PacketAssumption ==
  /\ MAX_PAYLOAD_SIZE \in Nat \ {0}
  /\ NULL \notin Cells
  /\ TIME_BYTE \in Nat \ {0}

Lengths == 0 .. MAX_PAYLOAD_SIZE
Times   == 0 .. TIME_BYTE * TIME_BYTE - 1

Bytes(d, n) == [data |-> d, len |-> n]
NoBytes == Bytes(Junk, 0)

HEADER_SIZE == 12
CRC_SIZE == 4

-----------------------------------------------------------------------------
(***************************************************************************)
(* Getters and setters.  A setter whose argument is out of its limits      *)
(* leaves the packet as it is and returns an error.                        *)
(***************************************************************************)
\* malloc leaves SEQNUM as it finds it: 0 stands for any number.
NewPacket(payload) ==
  [TYPE |-> PTYPE_DATA, TR |-> 0, WINDOW |-> 0, SEQNUM |-> 0, LENGTH |-> 0,
   TIMESTAMP |-> 0, PAYLOAD |-> payload]

GetLength(p) == IF p.TR = 0 THEN p.LENGTH ELSE 0
GetPayload(p) == IF GetLength(p) = 0 THEN NULL ELSE p.PAYLOAD

ValidType(t) == t \in {PTYPE_DATA, PTYPE_ACK, PTYPE_NACK}
ValidTr(p, tr) == p.TYPE = PTYPE_DATA /\ tr <= 1
ValidWindow(w) == w <= MAX_WINDOW_SIZE

\* Variant: one byte too many is taken for valid.
BugValidLength(n) == n <= MAX_PAYLOAD_SIZE + 1

ValidLength(n) == n <= MAX_PAYLOAD_SIZE

SetType(p, t)      == IF ValidType(t) THEN [p EXCEPT !.TYPE = t] ELSE p
SetTr(p, tr)       == IF ValidTr(p, tr) THEN [p EXCEPT !.TR = tr] ELSE p
SetWindow(p, w)    == IF ValidWindow(w) THEN [p EXCEPT !.WINDOW = w] ELSE p
SetSeqnum(p, s)    == [p EXCEPT !.SEQNUM = s]
SetTimestamp(p, t) == [p EXCEPT !.TIMESTAMP = t]
SetLength(p, n)    == IF ValidLength(n) THEN [p EXCEPT !.LENGTH = n] ELSE p

(***************************************************************************)
(* pkt_set_payload in two parts: what it frees, and the packet it leaves,  *)
(* c being the block it allocated.  The previous payload is freed if the   *)
(* packet has none by now, its LENGTH being set first.                     *)
(***************************************************************************)
\* Variant: the previous payload is always freed.
BugFreesPrevious(p, n) == {p.PAYLOAD} \ {NULL}

FreedBy(p, n) ==
  IF GetPayload(SetLength(p, n)) = NULL THEN {p.PAYLOAD} \ {NULL} ELSE {}

\* Variant: nothing is allocated for an empty payload.
BugEmptyNotReset(p, n, c) ==
  IF n > 0 /\ ValidLength(n) THEN [SetLength(p, n) EXCEPT !.PAYLOAD = c]
                             ELSE SetLength(p, n)

SetPayload(p, n, c) ==
  IF ValidLength(n) THEN [SetLength(p, n) EXCEPT !.PAYLOAD = c] ELSE p

\* The first version has realloc() resize the block or, for 0 bytes, free it.
\* Variant: the previous block is forgotten.
BugFirstForgets(p, n) == {}

FirstFreedBy(p, n) == IF ValidLength(n) THEN {p.PAYLOAD} \ {NULL} ELSE {}

FirstSetPayload(p, n, c) ==
  IF ValidLength(n)
    THEN [SetLength(p, n) EXCEPT !.PAYLOAD = IF n = 0 THEN NULL ELSE c]
    ELSE p

-----------------------------------------------------------------------------
(***************************************************************************)
(* pkt_encode.  BODY and CRC2 are what is written after the header; NoBytes *)
(* if there is no payload.                                                 *)
(***************************************************************************)
\* The first n bytes of block b.
FirstBytes(b, n) == IF n <= b.len THEN Bytes(b.data, n) ELSE Bytes(Junk, n)

HeaderOf(w) == <<w.TYPE, w.TR, w.WINDOW, w.SEQNUM, w.LENGTH, w.TIMESTAMP>>

EncodedLength(p) ==
  HEADER_SIZE + GetLength(p) + (IF GetLength(p) > 0 THEN CRC_SIZE ELSE 0)

\* The second checksum is written even if there is no payload.
BytesWritten(p) ==
  HEADER_SIZE + GetLength(p) + (IF p.TR = 0 THEN CRC_SIZE ELSE 0)

\* Variant: the checksum is computed before the time stamp is set.
BugEncode(p, block) ==
  LET body == IF GetLength(p) = 0 THEN NoBytes
                                  ELSE FirstBytes(block, GetLength(p))
  IN  [TYPE |-> p.TYPE, TR |-> p.TR, WINDOW |-> p.WINDOW, SEQNUM |-> p.SEQNUM,
       LENGTH |-> p.LENGTH, TIMESTAMP |-> p.TIMESTAMP,
       CRC1 |-> HeaderOf([p EXCEPT !.TIMESTAMP = 0]), BODY |-> body, CRC2 |-> body]

\* What is written of a packet, its time stamp already set to the time of
\* day; block is the memory its PAYLOAD points to.
Encode(p, block) ==
  LET body == IF GetLength(p) = 0 THEN NoBytes
                                  ELSE FirstBytes(block, GetLength(p))
  IN  [TYPE |-> p.TYPE, TR |-> p.TR, WINDOW |-> p.WINDOW, SEQNUM |-> p.SEQNUM,
       LENGTH |-> p.LENGTH, TIMESTAMP |-> p.TIMESTAMP,
       CRC1 |-> HeaderOf(p), BODY |-> body, CRC2 |-> body]

\* The first version encodes the same but keeps the time stamp it finds, and
\* only if the buffer has room.
FirstEncodeStatus(p, room) == IF room < EncodedLength(p) THEN "E_NOMEM" ELSE "PKT_OK"

-----------------------------------------------------------------------------
(***************************************************************************)
(* pkt_decode: of the buffer w, of which the last datagram has overwritten *)
(* a part.                                                                 *)
(***************************************************************************)
\* The LENGTH bytes after the header: what an earlier datagram left there if
\* the last one had fewer.
BodyOf(w) == FirstBytes(w.BODY, w.LENGTH)

HeaderMatches(w) == w.CRC1 = HeaderOf(w)
PayloadMatches(w) == w.CRC2 = BodyOf(w)

DecodeResult(w, len) ==
  CASE len = 0 -> "E_UNCONSISTENT"
    [] len \in 1 .. 3 -> "E_NOHEADER"
    [] len > 3 /\ ~ValidLength(w.LENGTH) -> "E_LENGTH"
    [] len > 3 /\ ValidLength(w.LENGTH) ->
         IF ~HeaderMatches(w) \/ (w.LENGTH > 0 /\ w.TR = 0 /\ ~PayloadMatches(w))
           THEN "E_CRC" ELSE "PKT_OK"

\* Whether pkt_decode gets as far as pkt_set_payload.
StoresPayload(w, len) ==
  len > 3 /\ ValidLength(w.LENGTH) /\ HeaderMatches(w) /\ w.LENGTH > 0

\* Variant: the mark of an earlier datagram is not cleared.
BugKeepsMark(p, w, len) ==
  IF len <= 3 THEN p
  ELSE LET first == [p EXCEPT !.TYPE = w.TYPE, !.WINDOW = w.WINDOW, !.SEQNUM = w.SEQNUM,
                              !.TR = IF w.TR = 1 THEN 1 ELSE @]
       IN  IF ValidLength(w.LENGTH)
             THEN SetTimestamp(SetLength(first, w.LENGTH), w.TIMESTAMP) ELSE first

\* The header's fields are stored as they are read, before they are checked.
DecodedHeader(p, w, len) ==
  IF len <= 3 THEN p
  ELSE LET first == [p EXCEPT !.TYPE = w.TYPE, !.TR = w.TR, !.WINDOW = w.WINDOW,
                              !.SEQNUM = w.SEQNUM]
       IN  IF ValidLength(w.LENGTH)
             THEN SetTimestamp(SetLength(first, w.LENGTH), w.TIMESTAMP) ELSE first

Decoded(p, w, len, c) ==
  LET header == DecodedHeader(p, w, len)
  IN  IF StoresPayload(w, len) THEN SetPayload(header, w.LENGTH, c) ELSE header

(***************************************************************************)
(* The first version calls the setters in turn and stops at the first that *)
(* refuses; it clears TR by the setter, which no ACK or NACK passes, and   *)
(* takes one signed byte for the time stamp.                               *)
(***************************************************************************)
LowByte(t) ==
  LET b == t % TIME_BYTE
  IN  IF b < TIME_BYTE \div 2 THEN b ELSE TIME_BYTE * TIME_BYTE - TIME_BYTE + b

FirstDecodeResult(w, len) ==
  CASE len = 0 -> "E_UNCONSISTENT"
    [] len \in 1 .. 3 -> "E_NOHEADER"
    [] len > 3 /\ ~ValidType(w.TYPE) -> "E_TYPE"
    [] len > 3 /\ w.TYPE \in {PTYPE_ACK, PTYPE_NACK} -> "E_TR"
    [] len > 3 /\ w.TYPE = PTYPE_DATA /\ ~ValidLength(w.LENGTH) -> "E_LENGTH"
    [] len > 3 /\ w.TYPE = PTYPE_DATA /\ ValidLength(w.LENGTH) ->
         IF ~HeaderMatches(w) \/ (w.LENGTH > 0 /\ ~PayloadMatches(w))
           THEN "E_CRC" ELSE "PKT_OK"

FirstStoresPayload(w, len) == w.TYPE = PTYPE_DATA /\ StoresPayload(w, len)

FirstDecodedHeader(p, w, len) ==
  LET typed  == SetType(p, w.TYPE)
      filled == [SetTr(typed, 0) EXCEPT !.WINDOW = w.WINDOW, !.SEQNUM = w.SEQNUM]
  IN  IF len <= 3 \/ ~ValidType(w.TYPE) THEN p
      ELSE IF w.TYPE # PTYPE_DATA THEN typed
      ELSE IF ~ValidLength(w.LENGTH) THEN filled
      ELSE SetTimestamp(SetLength(filled, w.LENGTH), LowByte(w.TIMESTAMP))

FirstDecoded(p, w, len, c) ==
  LET header == FirstDecodedHeader(p, w, len)
  IN  IF FirstStoresPayload(w, len) THEN FirstSetPayload(header, w.LENGTH, c)
                                    ELSE header

-----------------------------------------------------------------------------
(***************************************************************************)
(* A datagram that was sent, seen as a datagram of the transfer: what it   *)
(* carries, and which of its parts a checksum tells to be damaged.  This is *)
(* said of the datagram itself, not of the buffer it is read into.         *)
(***************************************************************************)
AsDatagram(w) ==
  [TYPE |-> w.TYPE, TR |-> w.TR, SEQNUM |-> w.SEQNUM, WINDOW |-> w.WINDOW,
   PAYLOAD |-> CASE w.BODY.len = 0 -> NoData
                 [] w.BODY.len # 0 /\ w.BODY.data = Junk -> Junk
                 [] w.BODY.len # 0 /\ w.BODY.data # Junk -> w.BODY.data + 1,
   CRC |-> CASE w.CRC1 # HeaderOf(w) -> "hdr"
             [] w.CRC1 = HeaderOf(w) /\ w.CRC2 # w.BODY -> "payload"
             [] w.CRC1 = HeaderOf(w) /\ w.CRC2 = w.BODY -> "ok"]
=============================================================================
