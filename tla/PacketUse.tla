----------------------------- MODULE PacketUse ------------------------------
(***************************************************************************)
(* The programs that use the packets of PacketCodec, and their memory: the *)
(* sender (client.c) and the receiver (server.c) of src/Projet1, and the   *)
(* unit tests of both versions of the packets ("test" and "first").        *)
(*                                                                         *)
(* Which segment is sent, in which slot a payload is kept and when it is   *)
(* written are chosen freely: modules Sender and Receiver say which.       *)
(* A block that no pointer reaches is never used again; the model forgets  *)
(* it at the next allocation.                                              *)
(***************************************************************************)
EXTENDS PacketCodec

CONSTANTS
  SegLengths,   \* lengths of the segments read from the file
  Clock         \* times of day

ASSUME UseAssumption ==
  /\ SegLengths \subseteq Lengths \ {0}
  /\ Clock \subseteq Times

VARIABLES
  user,     \* the program
  phase,    \* where it is
  pkt1,     \* pkt_send, pkt_rcv or a test's first packet
  pkt2,     \* pkt_ack or a test's second packet
  live,     \* blocks allocated and not freed
  mem,      \* the contents of each block
  buffer,   \* the sender's copies of the segments sent, or NULL
  table,    \* the receiver's payloads waiting to be written, or NULL
  buf,      \* packet_encoded, or a test's buffer
  status    \* what pkt_decode last returned for buf

vars == <<user, phase, pkt1, pkt2, live, mem, buffer, table, buf, status>>

Users == {"sender", "receiver", "test", "first"}
None  == "not decoded"

BUFFER_SIZE == HEADER_SIZE + MAX_PAYLOAD_SIZE + CRC_SIZE   \* 528
ACK_BUFFER_SIZE == 20

\* A buffer on the stack.
Unwritten == [TYPE |-> 0, TR |-> 0, WINDOW |-> 0, SEQNUM |-> 0, LENGTH |-> 0,
              TIMESTAMP |-> 0, CRC1 |-> <<>>, BODY |-> NoBytes, CRC2 |-> NoBytes]

-----------------------------------------------------------------------------
(***************************************************************************)
(* Memory.                                                                 *)
(***************************************************************************)
Reachable ==
  {pkt1.PAYLOAD, pkt2.PAYLOAD}
    \cup {buffer[i].PAYLOAD : i \in {j \in Slots : buffer[j] # NULL}}
    \cup {table[i].cell : i \in {j \in Slots : table[j] # NULL}}

\* Blocks are freed, then one is allocated, with contents b, if new is {c}.
Reallocate(freed, c, new, b) ==
  LET kept == (live \cap Reachable) \ freed
  IN  /\ c \notin kept
      /\ live' = kept \cup new
      /\ mem' = [x \in Cells |->
                   IF x \in new THEN b ELSE IF x \in kept THEN mem[x] ELSE NoBytes]

UNCHANGEDmemory == UNCHANGED <<live, mem>>

\* pkt_decode stores what follows the header of buffer w in the packet p.
StorePayload(p, w, n, c) ==
  IF StoresPayload(w, n)
    THEN Reallocate(FreedBy(DecodedHeader(p, w, n), w.LENGTH), c, {c}, BodyOf(w))
    ELSE UNCHANGEDmemory

\* What buf contains once p, whose PAYLOAD points to block, is encoded in it.
\* The checksum of no payload overwrites the first bytes of an older one.
Overwritten(p, block) ==
  LET w == Encode(p, block)
      older == [w EXCEPT !.BODY = buf.BODY, !.CRC2 = buf.CRC2]
  IN  CASE GetLength(p) > 0 -> w
        [] GetLength(p) = 0 /\ p.TR = 0 -> [older EXCEPT !.BODY.data = Junk]
        [] p.TR # 0 -> older

\* What it contains once n bytes of a datagram w were read into it.
Received(w, n) ==
  [TYPE      |-> IF n > 0 THEN w.TYPE ELSE buf.TYPE,
   TR        |-> IF n > 0 THEN w.TR ELSE buf.TR,
   WINDOW    |-> IF n > 0 THEN w.WINDOW ELSE buf.WINDOW,
   SEQNUM    |-> IF n > 1 THEN w.SEQNUM ELSE buf.SEQNUM,
   LENGTH    |-> IF n > 3 THEN w.LENGTH ELSE buf.LENGTH,
   TIMESTAMP |-> IF n > 7 THEN w.TIMESTAMP ELSE buf.TIMESTAMP,
   CRC1      |-> IF n >= HEADER_SIZE THEN w.CRC1 ELSE buf.CRC1,
   BODY      |-> IF n > HEADER_SIZE THEN w.BODY ELSE buf.BODY,
   CRC2      |-> IF n > HEADER_SIZE THEN w.CRC2 ELSE buf.CRC2]

-----------------------------------------------------------------------------
(***************************************************************************)
(* The datagrams that may be read: those the other program sends, with a   *)
(* damaged field or payload, marked as truncated by a router, or cut.      *)
(***************************************************************************)
DataWire(s, n, t) ==
  Encode([NewPacket(NULL) EXCEPT !.WINDOW = 1, !.SEQNUM = s, !.LENGTH = n,
                                 !.TIMESTAMP = t], Bytes(s, n))

AckWire(type, s, t) ==
  Encode([NewPacket(NULL) EXCEPT !.TYPE = type, !.WINDOW = RCV_WINDOW,
                                 !.SEQNUM = s, !.TIMESTAMP = t], NoBytes)

\* A router marks data only; the checksum of the header covers the mark.
Marked(w) ==
  LET m == [w EXCEPT !.TR = 1]
  IN  IF w.LENGTH > 0 THEN {m, [m EXCEPT !.CRC1 = HeaderOf(m)]} ELSE {}

\* The fields of the header that the transfer looks at are damaged together.
DamagedWires(w) ==
  {[w EXCEPT !.TYPE = PTYPE_NACK, !.SEQNUM = s, !.WINDOW = 1] :
     s \in SeqNums \ {w.SEQNUM}}
    \cup {[w EXCEPT !.LENGTH = n] : n \in {0, MAX_PAYLOAD_SIZE + 1}}
    \cup (IF w.LENGTH > 0 THEN {[w EXCEPT !.BODY.data = Junk]} ELSE {})

SentReplies ==
  {AckWire(type, s, t) : type \in {PTYPE_ACK, PTYPE_NACK}, s \in SeqNums, t \in Clock}
SentData ==
  {DataWire(s, n, t) : s \in SeqNums, n \in SegLengths \cup {0}, t \in Clock}

Whole(sent) == UNION {{v} \cup Marked(v) \cup DamagedWires(v) : v \in sent}
WholeReplies == Whole(SentReplies)
WholeData == Whole(SentData)

Wires == IF user = "sender" THEN SentReplies ELSE SentData
WholeWires == IF user = "sender" THEN WholeReplies ELSE WholeData

\* What a read may leave in buf, with its length.
Reads ==
  {<<Received(w, EncodedLength(w)), EncodedLength(w)>> : w \in WholeWires}
    \cup {<<Received(w, n), n>> : w \in Wires, n \in {1, 4, HEADER_SIZE}}

\* The blocks malloc may return to pkt_decode, if it calls it.
Targets(w, n) == IF StoresPayload(w, n) THEN Cells ELSE {NULL}

-----------------------------------------------------------------------------
(***************************************************************************)
(* The sender.                                                             *)
(***************************************************************************)
\* A segment of n bytes is read, copied in slot i and sent.
SendSegment(s, n, i, c, t) ==
  LET filled == SetSeqnum(SetPayload(pkt1, n, c), s)
  IN  /\ user = "sender" /\ phase = "loop"
      /\ Reallocate(FreedBy(pkt1, n), c, {c}, Bytes(s, n))
      /\ buffer' = [buffer EXCEPT ![i] = filled]
      /\ pkt1' = SetTimestamp(filled, t)
      /\ buf' = Overwritten(pkt1', Bytes(s, n))
      /\ status' = None
      /\ UNCHANGED <<user, phase, pkt2, table>>

\* A copy is encoded again: the timer expired, or an ACK or a NACK asks for it.
Retransmit(i, t) ==
  /\ user = "sender" /\ phase = "loop"
  /\ buffer[i] # NULL
  /\ buffer' = [buffer EXCEPT ![i] = SetTimestamp(@, t)]
  /\ buf' = Overwritten(buffer'[i], mem[buffer[i].PAYLOAD])
  /\ status' = None
  /\ UNCHANGEDmemory
  /\ UNCHANGED <<user, phase, pkt1, pkt2, table>>

\* The greatest window seen so far is that of pkt_send.
Advertise(reply) ==
  IF reply.WINDOW > pkt1.WINDOW THEN SetWindow(pkt1, reply.WINDOW) ELSE pkt1

ReceiveReply(next, n, c) ==
  /\ user = "sender" /\ phase = "loop"
  /\ buf' = next
  /\ status' = DecodeResult(buf', n)
  /\ StorePayload(pkt2, buf', n, c)
  /\ pkt2' = Decoded(pkt2, buf', n, c)
  /\ pkt1' = IF status' = "PKT_OK" THEN Advertise(pkt2') ELSE pkt1
  /\ UNCHANGED <<user, phase, buffer, table>>

\* read fails: the previous reply is taken for a new one.
ReplyReadFails ==
  /\ user = "sender" /\ phase = "loop"
  /\ pkt1' = Advertise(pkt2)
  /\ UNCHANGEDmemory
  /\ UNCHANGED <<user, phase, pkt2, buffer, table, buf, status>>

\* The empty packet that ends the transfer.
Finish(s, t) ==
  /\ user = "sender" /\ phase = "loop"
  /\ phase' = "end"
  /\ pkt1' = SetTimestamp(SetSeqnum(SetLength(pkt1, 0), s), t)
  /\ buf' = Overwritten(pkt1', NoBytes)
  /\ status' = None
  /\ UNCHANGEDmemory
  /\ UNCHANGED <<user, pkt2, buffer, table>>

\* A reply to it; a failing read leaves buf as it is and its length, -1, is
\* taken for a large one.
EndReply(next, n, c) ==
  /\ user = "sender" /\ phase = "end"
  /\ buf' = next
  /\ status' = DecodeResult(buf', n)
  /\ StorePayload(pkt2, buf', n, c)
  /\ pkt2' = Decoded(pkt2, buf', n, c)
  /\ phase' = IF status' = "PKT_OK" THEN "exit" ELSE "end"
  /\ UNCHANGED <<user, pkt1, buffer, table>>

SenderNext ==
  \/ \E t \in Clock, i \in Slots : Retransmit(i, t)
  \/ \E t \in Clock, i \in Slots, s \in SeqNums, n \in SegLengths, c \in Cells :
       SendSegment(s, n, i, c, t)
  \/ ReplyReadFails
  \/ \E t \in Clock, s \in SeqNums : Finish(s, t)
  \/ /\ user = "sender" /\ phase \in {"loop", "end"}
     /\ \E r \in Reads : \E c \in Targets(r[1], r[2]) :
          ReceiveReply(r[1], r[2], c) \/ EndReply(r[1], r[2], c)
  \/ \E c \in Targets(buf, BUFFER_SIZE) : EndReply(buf, BUFFER_SIZE, c)

-----------------------------------------------------------------------------
(***************************************************************************)
(* The receiver.                                                           *)
(***************************************************************************)
\* A datagram is decoded.  The payload of a segment is kept in one of slots,
\* none if it is out of the window.  If it is marked as truncated the previous
\* payload is freed: the slot that points to it (cell, no longer known) will
\* be written all the same.
Receive(next, n, c, slots) ==
  LET kept == status' = "PKT_OK" /\ pkt1'.TYPE = PTYPE_DATA /\ GetLength(pkt1') > 0
      Dangles(i) == /\ StoresPayload(buf', n) /\ pkt1'.TR = 1
                    /\ table[i] # NULL /\ table[i].cell = pkt1.PAYLOAD
  IN  /\ user = "receiver" /\ phase = "loop"
      /\ buf' = next
      /\ status' = DecodeResult(buf', n)
      /\ StorePayload(pkt1, buf', n, c)
      /\ pkt1' = Decoded(pkt1, buf', n, c)
      /\ slots # {} => kept
      /\ table' = [i \in Slots |->
           CASE i \in slots ->
                  [cell |-> pkt1'.PAYLOAD, len |-> pkt1'.LENGTH, bytes |-> BodyOf(buf')]
             [] i \notin slots /\ Dangles(i) -> [table[i] EXCEPT !.cell = NULL, !.bytes = NoBytes]
             [] OTHER -> table[i]]
      /\ phase' = CASE status' # "PKT_OK" \/ pkt1'.TYPE # PTYPE_DATA -> "loop"
                    [] status' = "PKT_OK" /\ pkt1'.TYPE = PTYPE_DATA ->
                         IF pkt1'.TR = 1 THEN "nack" ELSE IF kept THEN "write" ELSE "end"
      /\ UNCHANGED <<user, pkt2, buffer>>

WriteSlot(i) ==
  /\ user = "receiver" /\ phase = "write"
  /\ table[i] # NULL
  /\ table' = [table EXCEPT ![i] = NULL]
  /\ UNCHANGED <<user, phase, pkt1, pkt2, live, mem, buffer, buf, status>>

\* An ACK, a NACK or, several times, the ACK of the end; it is encoded in a
\* buffer of its own.
SendAck(s, c, t) ==
  /\ user = "receiver" /\ phase \in {"write", "nack", "end"}
  /\ LET type == IF phase = "nack" THEN PTYPE_NACK ELSE PTYPE_ACK
         reply == SetWindow(SetType(SetSeqnum(pkt2, s), type), RCV_WINDOW)
     IN  /\ Reallocate(FreedBy(reply, 0), c, {c}, NoBytes)
         /\ pkt2' = SetTimestamp(SetPayload(reply, 0, c), t)
  /\ phase' = IF phase = "end" THEN "end" ELSE "loop"
  /\ UNCHANGED <<user, pkt1, buffer, table, buf, status>>

ReceiverNext ==
  \/ \E s \in SeqNums, c \in Cells, t \in Clock : SendAck(s, c, t)
  \/ \E i \in Slots : WriteSlot(i)
  \/ /\ user = "receiver" /\ phase = "loop"
     /\ \E r \in Reads : \E c \in Targets(r[1], r[2]) :
          Receive(r[1], r[2], c, {}) \/ \E i \in Slots : Receive(r[1], r[2], c, {i})

-----------------------------------------------------------------------------
(***************************************************************************)
(* The unit tests.                                                         *)
(***************************************************************************)
Testing == user \in {"test", "first"}

\* Packets a setter makes of p, within its limits or not.
Set(p) ==
  {SetType(p, type) : type \in 0 .. 4} \cup {SetTr(p, tr) : tr \in 0 .. 2}
    \cup {SetWindow(p, w) : w \in {RCV_WINDOW, MAX_WINDOW_SIZE, MAX_WINDOW_SIZE + 1}}
    \cup {SetSeqnum(p, s) : s \in SeqNums} \cup {SetTimestamp(p, t) : t \in Times}
    \cup {SetLength(p, n) : n \in 0 .. MAX_PAYLOAD_SIZE + 1}

TestSet(p) ==
  /\ Testing /\ phase = "loop"
  /\ pkt1' = p
  /\ UNCHANGEDmemory
  /\ UNCHANGED <<user, phase, pkt2, buffer, table, buf, status>>

\* A payload of n bytes, within the limit, is set.
TestSetPayload(n, c) ==
  LET first == user = "first"
  IN  /\ Testing /\ phase = "loop"
      /\ pkt1' = IF first THEN FirstSetPayload(pkt1, n, c) ELSE SetPayload(pkt1, n, c)
      /\ Reallocate(IF first THEN FirstFreedBy(pkt1, n) ELSE FreedBy(pkt1, n), c,
                    {c} \cap {pkt1'.PAYLOAD}, Bytes(1, n))
      /\ UNCHANGED <<user, phase, pkt2, buffer, table, buf, status>>

\* The tests encode payloads they have set.
TestEncode(t) ==
  /\ Testing /\ phase = "loop"
  /\ GetLength(pkt1) > 0 =>
       pkt1.PAYLOAD # NULL /\ GetLength(pkt1) <= mem[pkt1.PAYLOAD].len
  /\ user = "first" => FirstEncodeStatus(pkt1, BUFFER_SIZE) = "PKT_OK"
  /\ pkt1' = IF user = "first" THEN pkt1 ELSE SetTimestamp(pkt1, t)
  /\ buf' = Overwritten(pkt1', IF GetLength(pkt1) > 0 THEN mem[pkt1.PAYLOAD]
                                                      ELSE NoBytes)
  /\ phase' = "encoded"
  /\ UNCHANGEDmemory
  /\ UNCHANGED <<user, pkt2, buffer, table, status>>

\* The time stamp, the header's checksum or the payload is overwritten.
TestDamage ==
  /\ Testing /\ phase = "encoded"
  /\ \/ buf' \in {[buf EXCEPT !.TIMESTAMP = t] : t \in Times} \ {buf}
     \/ buf' = [buf EXCEPT !.CRC1 = <<>>]
     \/ GetLength(pkt1) > 0 /\ buf' = [buf EXCEPT !.BODY.data = Junk]
  /\ phase' = "damaged"
  /\ UNCHANGEDmemory
  /\ UNCHANGED <<user, pkt1, pkt2, buffer, table, status>>

TestDecode(c) ==
  /\ Testing /\ phase \in {"encoded", "damaged"}
  /\ IF user = "test"
       THEN /\ status' = DecodeResult(buf, BUFFER_SIZE)
            /\ StorePayload(pkt2, buf, BUFFER_SIZE, c)
            /\ pkt2' = Decoded(pkt2, buf, BUFFER_SIZE, c)
       ELSE /\ status' = FirstDecodeResult(buf, BUFFER_SIZE)
            /\ pkt2' = FirstDecoded(pkt2, buf, BUFFER_SIZE, c)
            /\ IF FirstStoresPayload(buf, BUFFER_SIZE)
                 THEN Reallocate(FirstFreedBy(pkt2, buf.LENGTH), c, {c}, BodyOf(buf))
                 ELSE UNCHANGEDmemory
  /\ phase' = IF phase = "damaged" THEN "damage decoded" ELSE "decoded"
  /\ UNCHANGED <<user, pkt1, buffer, table, buf>>

TestNext ==
  \/ \E p \in Set(pkt1) : TestSet(p)
  \/ \E c \in Cells : TestDecode(c) \/ \E n \in Lengths : TestSetPayload(n, c)
  \/ \E t \in Times : TestEncode(t)
  \/ TestDamage

-----------------------------------------------------------------------------
\* The two calls of pkt_del: at the end, after an error or in a failed test.
Delete ==
  /\ phase # "gone"
  /\ phase' = "gone"
  /\ live' = live \ {pkt1.PAYLOAD, pkt2.PAYLOAD}
  /\ mem' = [x \in Cells |-> IF x \in live' THEN mem[x] ELSE NoBytes]
  /\ UNCHANGED <<user, pkt1, pkt2, buffer, table, buf, status>>

\* The first version allocates a payload of the greatest length, the sender's
\* packets start with a window of 1.
Init ==
  /\ user \in Users /\ phase = "loop"
  /\ \E c1, c2 \in Cells :
       IF user = "first"
         THEN /\ c1 # c2
              /\ pkt1 = NewPacket(c1) /\ pkt2 = NewPacket(c2) /\ live = {c1, c2}
         ELSE /\ pkt1 = [NewPacket(NULL) EXCEPT !.WINDOW = IF user = "sender" THEN 1 ELSE 0]
              /\ pkt2 = pkt1 /\ live = {}
  /\ mem = [c \in Cells |-> IF c \in live THEN Bytes(0, MAX_PAYLOAD_SIZE) ELSE NoBytes]
  /\ buffer = [i \in Slots |-> NULL] /\ table = [i \in Slots |-> NULL]
  /\ buf = Unwritten /\ status = None

Next == SenderNext \/ ReceiverNext \/ TestNext \/ Delete

Spec == Init /\ [][Next]_vars

-----------------------------------------------------------------------------
(***************************************************************************)
(* Properties.                                                             *)
(***************************************************************************)
Blocks == [data : Int, len : Nat]
Statuses == {None, "PKT_OK", "E_UNCONSISTENT", "E_NOHEADER", "E_TYPE", "E_TR",
             "E_LENGTH", "E_CRC"}
Packets ==
  [TYPE : 0 .. 3, TR : {0, 1}, WINDOW : 0 .. MAX_WINDOW_SIZE, SEQNUM : SeqNums,
   LENGTH : Lengths, TIMESTAMP : Times, PAYLOAD : Cells \cup {NULL}]
Headers ==
  (0 .. 3) \X {0, 1} \X (0 .. MAX_WINDOW_SIZE) \X SeqNums \X Lengths \X Times
Frames ==
  [TYPE : 0 .. 3, TR : {0, 1}, WINDOW : 0 .. MAX_WINDOW_SIZE, SEQNUM : SeqNums,
   LENGTH : Nat, TIMESTAMP : Times, CRC1 : Headers \cup {<<>>}, BODY : Blocks,
   CRC2 : Blocks]

\* Every variable has its type: in particular no setter and no pkt_decode
\* (packet_implem.c:56-138, 238-312) leaves a field out of its range.
TypeOK ==
  /\ user \in Users
  /\ phase \in {"loop", "end", "exit", "write", "nack", "encoded", "damaged",
                "decoded", "damage decoded", "gone"}
  /\ pkt1 \in Packets /\ pkt2 \in Packets
  /\ live \subseteq Cells /\ mem \in [Cells -> Blocks]
  /\ buffer \in [Slots -> Packets \cup {NULL}]
  /\ table \in [Slots -> [cell : Cells \cup {NULL}, len : Lengths \ {0}, bytes : Blocks]
                        \cup {NULL}]
  /\ buf \in Frames /\ status \in Statuses

\* What a retransmission sends: each copy in the sender's buffer still points
\* to the very bytes of its segment, whatever pkt_send, which shared them when
\* the copy was made, has become since (client.c:172-179, 345;
\* packet_implem.c:298-312).
BufferIntact ==
  phase # "gone" =>
    \A i \in Slots : buffer[i] # NULL =>
      /\ buffer[i].PAYLOAD \in live
      /\ mem[buffer[i].PAYLOAD] = Bytes(buffer[i].SEQNUM, buffer[i].LENGTH)

\* What the receiver writes to the file: the table points into packets that
\* have been decoded over since, and yet its payloads are what was decoded,
\* but for those a truncated packet freed (server.c:117, 147, 212;
\* packet_implem.c:298-312).
TableIntact ==
  phase # "gone" =>
    \A i \in Slots : table[i] # NULL /\ table[i].cell # NULL =>
      /\ table[i].cell \in live
      /\ mem[table[i].cell] = table[i].bytes
      /\ table[i].bytes.len = table[i].len

\* No payload is freed twice: what pkt_set_payload frees next, and the two
\* calls of pkt_del in the end, is allocated, and no packet's payload is
\* another's (packet_implem.c:50-54, 304; client.c:91, 412-413).
DeletesOnce ==
  phase # "gone" =>
    /\ {pkt1.PAYLOAD, pkt2.PAYLOAD} \subseteq live \cup {NULL}
    /\ pkt1.PAYLOAD = pkt2.PAYLOAD => pkt1.PAYLOAD = NULL

\* pkt_decode works on a buffer and on a packet that keep parts of what came
\* before.  Whatever these are, of a datagram that comes whole it accepts what
\* modules Sender and Receiver take it to accept, with the payload that was sent;
\* and TYPE, SEQNUM and WINDOW are in the packet even if it refuses the rest, as
\* these modules say of a damaged answer (packet_implem.c:56-138,
\* client.c:219-226).  The block allocated does not matter.
DecodesAsDatagram ==
  user \in {"sender", "receiver"} =>
    \A w \in WholeWires :
      LET n  == EncodedLength(w)
          b  == Received(w, n)
          p  == Decoded(IF user = "sender" THEN pkt2 ELSE pkt1, b, n, NULL)
          d  == AsDatagram(w)
          ok == DecodeResult(b, n) = "PKT_OK"
      IN  /\ ok <=> DecodesOK(d)
          /\ Header(d) = [TYPE |-> p.TYPE, SEQNUM |-> p.SEQNUM, WINDOW |-> p.WINDOW]
          /\ ok => /\ Length(d) = 0 <=> GetLength(p) = 0
                   /\ Length(d) > 0 => StoresPayload(b, n) /\ BodyOf(b) = w.BODY

\* A packet that is encoded and decoded is the same packet; the first version
\* only says so of data that is not truncated, and keeps its time stamp if it
\* fits in 7 bits.  A damaged one is refused (test.c:103-192 of src/Projet1,
\* test.c:130-150 of the first version).
Same(p, q) ==
  /\ [p EXCEPT !.PAYLOAD = NULL, !.TIMESTAMP = 0]
       = [q EXCEPT !.PAYLOAD = NULL, !.TIMESTAMP = 0]
  /\ user = "test" \/ p.TIMESTAMP < TIME_BYTE \div 2 => p.TIMESTAMP = q.TIMESTAMP
  /\ GetLength(p) > 0 =>
       mem[q.PAYLOAD] = FirstBytes(mem[p.PAYLOAD], GetLength(p))

RoundTrip ==
  /\ phase = "decoded" /\ (user = "test" \/ (pkt1.TYPE = PTYPE_DATA /\ pkt1.TR = 0)) =>
       status = "PKT_OK" /\ Same(pkt1, pkt2)
  /\ phase = "damage decoded" => status # "PKT_OK"

\* pkt_encode no longer checks the room its buffer has (packet_implem.c:152-153)
\* and writes a second checksum that it does not count if there is no payload
\* (packet_implem.c:170-180): it stays within the buffers it is given.
EncodeFits ==
  /\ BytesWritten(pkt1) <= BUFFER_SIZE
  /\ user = "receiver" => BytesWritten(pkt2) <= ACK_BUFFER_SIZE

\* A packet of the first version owns one payload at most, and nothing else
\* stays allocated (packet_implem.c:34, 53, 325 of the first version).
FirstOwnsOne ==
  user = "first" /\ phase # "gone" => live = {pkt1.PAYLOAD, pkt2.PAYLOAD} \ {NULL}

-----------------------------------------------------------------------------
(***************************************************************************)
(* What makes the properties of memory inductive: only the sender has a    *)
(* buffer and only the receiver a table, the second packet's payload is in *)
(* neither, and the sender's packet is never marked as truncated, which    *)
(* would make pkt_set_payload free a payload its copies point to.          *)
(***************************************************************************)
Separate ==
  /\ user # "sender" => \A i \in Slots : buffer[i] = NULL
  /\ user # "receiver" => \A i \in Slots : table[i] = NULL
  /\ user = "sender" => pkt1.TR = 0
  /\ phase # "gone" => \A i \in Slots :
       /\ buffer[i] # NULL => buffer[i].PAYLOAD # pkt2.PAYLOAD
       /\ table[i] # NULL /\ table[i].cell # NULL => table[i].cell # pkt2.PAYLOAD

MemoryInvariant ==
  Separate /\ BufferIntact /\ TableIntact /\ DeletesOnce /\ FirstOwnsOne
=============================================================================
